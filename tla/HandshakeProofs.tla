--------------------------- MODULE HandshakeProofs ---------------------------
(* Theorems about Handshake, for all streams of bytes, however reads cut     *)
(* them, any users, and both kinds of char.                                  *)
EXTENDS Handshake, SequenceParts

Ports == 0..MaxPort

Types ==
    /\ handler \in {"default", "password"} /\ stream \in Streams /\ stream \in Bytes
    /\ nread \in 0..Len(stream) /\ looping \in BOOLEAN
    /\ state \in {"INIT", "AUTH", "CMD", "STREAM", "UDP", "closed", "lost", "aborted"}
    /\ buf \in Bytes /\ start \in 0..Len(buf)
    /\ remote \in Bytes /\ target \in Ports
    /\ out \in Seq(Nat) /\ msgs \in Seq(Bytes) /\ ends \in Seq(Nat)

(* The input, or what the remote was given, is what was read behind the      *)
(* messages.                                                                *)
Aligned ==
    /\ Popped \in 0..nread /\ Len(ends) = Len(msgs)
    /\ state # "STREAM" =>
         /\ remote = <<>> /\ Size = nread - Popped
         /\ \A i \in 1..Size : buf[start + i] = stream[Popped + i]
    /\ state = "STREAM" =>
         /\ Size = 0 /\ Len(remote) = nread - Popped
         /\ \A i \in 1..Len(remote) : remote[i] = stream[Popped + i]

(* The messages are parts of the stream, and the protocol's.                *)
Begins(n) == IF n = 1 THEN 1 ELSE 1 + ends[n - 1]
Taken ==
    \A n \in 1..Len(msgs) :
      msgs[n] = SubSeq(stream, Begins(n), ends[n]) /\ Belongs(msgs[n], Place(n))

(* How far the handshake is in each state, and what was answered.           *)
Stage ==
    /\ state = "INIT" => Len(msgs) = 0
    /\ state = "AUTH" => Len(msgs) = 1
    /\ state = "CMD" => Len(msgs) >= (IF handler = "password" THEN 2 ELSE 1)
    /\ state = "UDP" =>
         Len(msgs) > 1 /\ Place(Len(msgs)) = "CMD" /\ msgs[Len(msgs)][2] = Udp
    /\ \/ Len(out) = Len(msgs)
       \/ state = "closed" /\ Len(msgs) = Len(out) + 1 /\ Place(Len(msgs)) = "CMD"
Checked ==
    handler = "password" =>
      /\ Len(msgs) > 1 => (out[2] = 0 <=> Accepted(msgs[2]))
      /\ Len(msgs) > 2 \/ state = "CMD" => out[2] = 0

(* Between reads the input is empty or holds a message that is not whole.   *)
Settled ==
    ~looping /\ state \in {"INIT", "AUTH", "CMD"} /\ ~Stranded =>
      Size = 0 \/ (Reads /\ (Begun => WellFormed /\ ~Enough))

IndInv ==
    Types /\ Aligned /\ Taken /\ Stage /\ Checked /\ Settled /\ ClosedForCause /\ PortDecoded
-----------------------------------------------------------------------------
(* The input by its bytes.                                                  *)
LEMMA Heads ==
    ASSUME Types, NEW n \in Nat, n <= Size
    PROVE  /\ First(n) \in Bytes /\ Len(First(n)) = n
           /\ \A i \in 1..n : First(n)[i] = buf[start + i]
<1>1. start \in Nat /\ start + n <= Len(buf) /\ buf \in Seq(Byte)
  BY ElementsIn DEF Types, Bytes, Size
<1>2. First(n) = Cut(buf, start, n)
  BY Zenon DEF First, Cut
<1>3. /\ Cut(buf, start, n) \in Seq(Byte) /\ Len(Cut(buf, start, n)) = n
      /\ \A i \in 1..n : Cut(buf, start, n)[i] = buf[start + i]
  BY <1>1, CutParts, Zenon
<1> QED BY <1>2, <1>3 DEF Bytes

LEMMA SizeIs == ASSUME Types PROVE Size \in Nat /\ Len(buf) \in Nat /\ start + Size = Len(buf)
BY ElementsIn DEF Types, Bytes, Size

LEMMA InputIs ==
    ASSUME Types
    PROVE  Input = First(Size) /\ Input \in Bytes /\ Len(Input) = Size
           /\ \A i \in 1..Size : Input[i] = buf[start + i]
<1>1. Size \in Nat /\ start + Size = Len(buf)
  BY SizeIs
<1>2. Input = First(Size)
  BY <1>1, Zenon DEF Input, First
<1>3. Size <= Size
  BY <1>1
<1> QED BY <1>1, <1>2, <1>3, Heads, Zenon

LEMMA Bytewise ==
    ASSUME Types, NEW i \in Nat, i < Size
    PROVE  At(i) \in Byte /\ At(i) \in Nat /\ At(i) = buf[start + (i + 1)]
<1>1. start + i + 1 \in 1..Len(buf) /\ start + i + 1 = start + (i + 1)
  BY SizeIs DEF Types, Size
<1>2. buf \in Seq(Byte)
  BY DEF Types, Bytes
<1>3. At(i) \in Byte
  BY <1>1, <1>2, ElementsIn, Zenon DEF At
<1>4. At(i) = buf[start + (i + 1)]
  BY <1>1 DEF At
<1> QED BY <1>3, <1>4 DEF Byte

(* A whole message.                                                         *)
LEMMA Lengths ==
    ASSUME Types, NEW s \in {"INIT", "AUTH", "CMD"}, Message(s)
    PROVE  Length \in 3..Size
<1>1. state = s /\ Begun /\ WellFormed /\ Enough /\ Size \in Nat
  BY SizeIs DEF Message, Meets
<1>2. CASE s = "INIT"
  <2>1. Size >= 3 /\ At(1) \in 1..10 /\ Size >= Length /\ Length = 2 + At(1)
    BY <1>1, <1>2 DEF Begun, WellFormed, Enough, Length
  <2> QED BY <1>1, <2>1
<1>3. CASE s = "AUTH"
  <2>1. Size >= 5 /\ Size >= 4 + At(1) /\ Size >= Length /\ Length = 3 + At(1) + At(2 + At(1))
    BY <1>1, <1>3 DEF Begun, WellFormed, Enough, Length
  <2>2. At(1) \in Nat
    BY <1>1, <2>1, Bytewise
  <2>3. At(2 + At(1)) \in Nat
    BY <1>1, <2>1, <2>2, Bytewise
  <2> QED BY <1>1, <2>1, <2>2, <2>3
<1>4. CASE s = "CMD"
  <2>1. Size >= Length /\ Length = 6 + AddrLen /\ (At(3) = 3 => Size >= 8) /\ At(3) \in {1, 3, 4}
    BY <1>1, <1>4 DEF WellFormed, Enough, Length, Ipv4, Ipv6, Domain
  <2>2. At(3) = 3 => At(4) \in Nat
    BY <1>1, <2>1, Bytewise
  <2>3. AddrLen \in Nat
    BY <2>1, <2>2 DEF AddrLen, Ipv4, Ipv6, Domain
  <2> QED BY <1>1, <2>1, <2>3
<1> QED BY <1>2, <1>3, <1>4

LEMMA FirstIs ==
    ASSUME Types, NEW s \in {"INIT", "AUTH", "CMD"}, Message(s)
    PROVE  /\ Length \in Nat /\ First(Length) \in Bytes /\ Len(First(Length)) = Length
           /\ \A i \in 1..Length : First(Length)[i] = buf[start + i]
           /\ \A i \in 0..(Length - 1) : First(Length)[i + 1] = At(i)
<1>1. Length \in Nat /\ Length <= Size /\ Size \in Nat
  BY Lengths, SizeIs
<1>2. /\ First(Length) \in Bytes /\ Len(First(Length)) = Length
      /\ \A i \in 1..Length : First(Length)[i] = buf[start + i]
  BY <1>1, Heads, Zenon
<1>3. \A i \in 0..(Length - 1) : First(Length)[i + 1] = At(i)
  <2> TAKE i \in 0..(Length - 1)
  <2>1. i \in Nat /\ i < Size /\ i + 1 \in 1..Length
    BY <1>1
  <2>2. At(i) = buf[start + (i + 1)]
    BY <2>1, Bytewise, Zenon
  <2> QED BY <1>2, <2>1, <2>2, Zenon
<1> QED BY <1>1, <1>2, <1>3

(* It is one of the protocol's.                                             *)
LEMMA FirstBelongs ==
    ASSUME Types, NEW s \in {"INIT", "AUTH", "CMD"}, Message(s)
    PROVE  Belongs(First(Length), s)
<1> DEFINE m == First(Length)
<1>1. state = s /\ Begun /\ WellFormed /\ Enough /\ Size \in Nat
  BY SizeIs DEF Message, Meets
<1>2. Length \in 3..Size
  BY Lengths
<1>3. Len(m) = Length /\ \A i \in 0..(Length - 1) : m[i + 1] = At(i)
  BY FirstIs
<1>4. m[1] = At(0) /\ m[2] = At(1)
  <2>1. 0 \in 0..(Length - 1) /\ 1 \in 0..(Length - 1) /\ 0 + 1 = 1 /\ 1 + 1 = 2
    BY <1>2
  <2>2. m[0 + 1] = At(0) /\ m[1 + 1] = At(1)
    BY <1>3, <2>1, Zenon
  <2> QED BY <2>1, <2>2
<1> HIDE DEF m
<1>5. CASE s = "INIT"
  <2>1. At(0) = 5 /\ At(1) \in 1..10 /\ Length = 2 + At(1)
    BY <1>1, <1>5 DEF WellFormed, Length
  <2>2. IsMethods(m)
    BY <1>2, <1>3, <1>4, <2>1 DEF IsMethods
  <2> QED BY <1>5, <2>2 DEF Belongs, m
<1>6. CASE s = "AUTH"
  <2>1. At(0) = 1 /\ Size >= 4 + At(1) /\ Length = 3 + At(1) + At(2 + At(1))
    BY <1>1, <1>6 DEF WellFormed, Enough, Length
  <2>2. At(1) \in Nat
    BY <1>1, <1>2, Bytewise
  <2>3. At(2 + At(1)) \in Nat
    BY <1>1, <2>1, <2>2, Bytewise
  <2>4. m[3 + At(1)] = At(2 + At(1))
    <3>1. 2 + At(1) \in 0..(Length - 1) /\ (2 + At(1)) + 1 = 3 + At(1)
      BY <2>1, <2>2, <2>3
    <3>2. m[(2 + At(1)) + 1] = At(2 + At(1))
      BY <1>3, <3>1, Zenon
    <3> QED BY <3>1, <3>2
  <2>5. IsPassword(m)
    BY <1>2, <1>3, <1>4, <2>1, <2>2, <2>3, <2>4 DEF IsPassword
  <2> QED BY <1>6, <2>5 DEF Belongs, m
<1>7. CASE s = "CMD"
  <2>1. /\ At(0) = 5 /\ Size >= Length /\ Length = 6 + AddrLen
        /\ (At(3) = 3 => Size >= 8) /\ At(3) \in {1, 3, 4}
    BY <1>1, <1>7 DEF WellFormed, Enough, Length, Ipv4, Ipv6, Domain
  <2>2. At(3) = 3 => At(4) \in Nat
    BY <1>1, <2>1, Bytewise
  <2>3. (At(3) = 1 /\ Length = 10) \/ (At(3) = 4 /\ Length = 22) \/ (At(3) = 3 /\ Length = 7 + At(4))
    BY <2>1, <2>2 DEF AddrLen, Ipv4, Ipv6, Domain
  <2>4. Length >= 7
    BY <2>2, <2>3
  <2>5. m[4] = At(3) /\ m[5] = At(4)
    <3>1. 3 \in 0..(Length - 1) /\ 4 \in 0..(Length - 1) /\ 3 + 1 = 4 /\ 4 + 1 = 5
      BY <1>2, <2>4
    <3>2. m[3 + 1] = At(3) /\ m[4 + 1] = At(4)
      BY <1>3, <3>1, Zenon
    <3> QED BY <3>1, <3>2
  <2>6. IsCommand(m)
    BY <1>3, <1>4, <2>1, <2>3, <2>4, <2>5 DEF IsCommand, Ipv4, Ipv6, Domain
  <2> QED BY <1>7, <2>6 DEF Belongs, m
<1> QED BY <1>5, <1>6, <1>7

(* What cannot be taken from a settled input: a message of the protocol     *)
(* whose last field is not empty, or a beginning of none.                   *)
LEMMA NotWhole ==
    ASSUME Types, NEW s \in {"INIT", "AUTH", "CMD"}, state = s, Begun => WellFormed /\ ~Enough,
           NEW n \in 1..Size, Belongs(First(n), s)
    PROVE  /\ s # "INIT"
           /\ s = "AUTH" => First(n)[3 + First(n)[2]] = 0 \/ Len(First(n)) = 4
           /\ s = "CMD" => First(n)[4] = Domain /\ First(n)[5] = 0
<1> DEFINE m == First(n)
<1>1. Size \in Nat /\ n \in Nat /\ n <= Size
  BY SizeIs
<1>2. Len(m) = n /\ m \in Bytes /\ \A i \in 1..n : m[i] = buf[start + i]
  BY <1>1, Heads
<1>3. \A i \in 0..(n - 1) : m[i + 1] = At(i) /\ At(i) \in Nat
  <2> TAKE i \in 0..(n - 1)
  <2>1. i \in Nat /\ i < Size /\ i + 1 \in 1..n
    BY <1>1
  <2>2. At(i) = buf[start + (i + 1)] /\ At(i) \in Nat
    BY <2>1, Bytewise, Zenon
  <2> QED BY <1>2, <2>1, <2>2, Zenon
<1> HIDE DEF m
<1>4. ASSUME n >= 3 PROVE m[1] = At(0) /\ m[2] = At(1) /\ At(1) \in Nat
  <2>1. 0 \in 0..(n - 1) /\ 1 \in 0..(n - 1) /\ 0 + 1 = 1 /\ 1 + 1 = 2
    BY <1>1, <1>4
  <2>2. m[0 + 1] = At(0) /\ m[1 + 1] = At(1) /\ At(1) \in Nat
    BY <1>3, <2>1, Zenon
  <2> QED BY <2>1, <2>2
<1>5. CASE s = "INIT"
  <2>1. IsMethods(m)
    BY <1>5 DEF Belongs, m
  <2>2. n >= 3 /\ m[1] = 5 /\ m[2] \in 1..10 /\ n = 2 + m[2]
    BY <1>2, <2>1 DEF IsMethods
  <2>3. Begun /\ Size >= 2 + At(1)
    BY <1>1, <1>4, <1>5, <2>2 DEF Begun
  <2>4. Enough
    BY <1>5, <2>3 DEF Enough, Length
  <2> QED BY <2>3, <2>4
<1>6. CASE s = "AUTH"
  <2> SUFFICES ASSUME m[3 + m[2]] # 0, n # 4 PROVE FALSE
    BY <1>2, <1>6 DEF m
  <2>1. IsPassword(m)
    BY <1>6 DEF Belongs, m
  <2>2. n >= 3 /\ n >= 3 + m[2] /\ n = 3 + m[2] + m[3 + m[2]]
    BY <1>2, <2>1 DEF IsPassword
  <2>3. m[2] = At(1) /\ At(1) \in Nat
    BY <1>4, <2>2
  <2>4. m[3 + m[2]] = At(2 + At(1)) /\ At(2 + At(1)) \in Nat
    <3>1. 2 + At(1) \in 0..(n - 1) /\ (2 + At(1)) + 1 = 3 + m[2]
      BY <1>1, <2>2, <2>3
    <3>2. m[(2 + At(1)) + 1] = At(2 + At(1)) /\ At(2 + At(1)) \in Nat
      BY <1>3, <3>1, Zenon
    <3> QED BY <3>1, <3>2
  <2>5. Begun /\ Size >= 4 + At(1) /\ Size >= 3 + At(1) + At(2 + At(1))
    BY <1>1, <1>6, <2>2, <2>3, <2>4 DEF Begun
  <2>6. Enough
    BY <1>6, <2>5 DEF Enough, Length
  <2> QED BY <2>5, <2>6
<1>7. CASE s = "CMD"
  <2> SUFFICES ASSUME ~(m[4] = Domain /\ m[5] = 0) PROVE FALSE
    BY <1>7 DEF m
  <2>1. IsCommand(m)
    BY <1>7 DEF Belongs, m
  <2>2. /\ n >= 7 /\ m[1] = 5
        /\ (m[4] = 1 /\ n = 10) \/ (m[4] = 4 /\ n = 22) \/ (m[4] = 3 /\ n = 7 + m[5])
    BY <1>2, <2>1 DEF IsCommand, Ipv4, Ipv6, Domain
  <2>3. m[4] = At(3) /\ m[5] = At(4) /\ At(4) \in Nat
    <3>1. 3 \in 0..(n - 1) /\ 4 \in 0..(n - 1) /\ 3 + 1 = 4 /\ 4 + 1 = 5
      BY <1>1, <2>2
    <3>2. m[3 + 1] = At(3) /\ m[4 + 1] = At(4) /\ At(4) \in Nat
      BY <1>3, <3>1, Zenon
    <3> QED BY <3>1, <3>2
  <2>4. Begun
    BY <1>1, <1>7, <2>2 DEF Begun
  <2>5. 6 + AddrLen <= n
    BY <2>2, <2>3 DEF AddrLen, Ipv4, Ipv6, Domain
  <2>6. At(3) = Domain => Size >= 8
    BY <1>1, <2>2, <2>3 DEF Domain
  <2>7. Size >= 6 + AddrLen
    <3>1. AddrLen \in Nat
      BY <2>2, <2>3 DEF AddrLen, Ipv4, Ipv6, Domain
    <3> QED BY <1>1, <2>5, <3>1
  <2>8. Enough
    BY <1>7, <2>6, <2>7 DEF Enough, Length
  <2> QED BY <2>4, <2>8
<1> QED BY <1>5, <1>6, <1>7

LEMMA MalformedIs ==
    ASSUME Types, NEW s \in {"INIT", "AUTH", "CMD"}, state = s
    PROVE  Malformed(Input, s) <=> Begun /\ ~WellFormed
<1>1. Size \in Nat /\ Len(Input) = Size
  BY SizeIs, InputIs
<1>2. \A i \in Nat : i < Size => Input[i + 1] = At(i)
  <2> TAKE i \in Nat
  <2> HAVE i < Size
  <2>1. i + 1 \in 1..Size
    BY <1>1
  <2>2. At(i) = buf[start + (i + 1)]
    BY Bytewise, Zenon
  <2> QED BY <2>1, <2>2, InputIs, Zenon
<1>3. /\ Size > 0 => Input[1] = At(0)
      /\ Size > 1 => Input[2] = At(1)
      /\ Size > 3 => Input[4] = At(3)
  <2>1. /\ Size > 0 => Input[0 + 1] = At(0)
        /\ Size > 1 => Input[1 + 1] = At(1)
        /\ Size > 3 => Input[3 + 1] = At(3)
    BY <1>1, <1>2
  <2>2. 0 + 1 = 1 /\ 1 + 1 = 2 /\ 3 + 1 = 4
    OBVIOUS
  <2> QED BY <2>1, <2>2
<1>4. CASE s = "INIT"
  <2>1. (Begun <=> Size >= 3) /\ (WellFormed <=> At(0) = 5 /\ At(1) \in 1..10)
    BY <1>4 DEF Begun, WellFormed
  <2> QED BY <1>1, <1>3, <1>4, <2>1 DEF Malformed
<1>5. CASE s = "AUTH"
  <2>1. (Begun <=> Size >= 5) /\ (WellFormed <=> At(0) = 1)
    BY <1>5 DEF Begun, WellFormed
  <2> QED BY <1>1, <1>3, <1>5, <2>1 DEF Malformed
<1>6. CASE s = "CMD"
  <2>1. (Begun <=> Size >= 4) /\ (WellFormed <=> At(0) = 5 /\ At(3) \in {Ipv4, Ipv6, Domain})
    BY <1>6 DEF Begun, WellFormed
  <2> QED BY <1>1, <1>3, <1>6, <2>1 DEF Malformed
<1> QED BY <1>4, <1>5, <1>6

-----------------------------------------------------------------------------
(* Name and password, and the user they are of.                             *)
Nats == Seq(Nat)
Quad(h, x, c, y) == Join(Join(Join(h, x), c), y)

LEMMA JoinNats ==
    ASSUME NEW s \in Nats, NEW t \in Nats
    PROVE  /\ Join(s, t) \in Nats /\ Len(Join(s, t)) = Len(s) + Len(t)
           /\ \A i \in 1..Len(s) : Join(s, t)[i] = s[i]
           /\ \A i \in 1..Len(t) : Join(s, t)[Len(s) + i] = t[i]
<1>1. /\ Join(s, t) \in Seq(Nat) /\ Len(Join(s, t)) = Len(s) + Len(t)
      /\ \A i \in 1..(Len(s) + Len(t)) : Join(s, t)[i] = IF i <= Len(s) THEN s[i] ELSE t[i - Len(s)]
  BY ConcatProperties, Zenon DEF Nats, Join
<1>2. Len(s) \in Nat /\ Len(t) \in Nat
  BY ElementsIn DEF Nats
<1> DEFINE j == Join(s, t)
           n == Len(s)
           k == Len(t)
<1>a. \A i \in 1..(n + k) : j[i] = IF i <= n THEN s[i] ELSE t[i - n]
  BY <1>1
<1>b. n \in Nat /\ k \in Nat
  BY <1>2
<1> HIDE DEF j, n, k
<1>c. \A i \in 1..n : j[i] = s[i]
  BY <1>a, <1>b
<1>d. \A i \in 1..k : j[n + i] = t[i]
  <2> TAKE i \in 1..k
  <2>1. n + i \in 1..(n + k) /\ ~(n + i <= n) /\ (n + i) - n = i
    BY <1>b
  <2> QED BY <1>a, <2>1
<1>3. \A i \in 1..Len(s) : Join(s, t)[i] = s[i]
  BY <1>c DEF j, n
<1>4. \A i \in 1..Len(t) : Join(s, t)[Len(s) + i] = t[i]
  BY <1>d DEF j, n, k
<1> QED BY <1>1, <1>3, <1>4 DEF Nats

Four(h, x, c, y) ==
    /\ h \in Nats /\ x \in Nats /\ c \in Nats /\ y \in Nats
    /\ Len(h) = 2 /\ Len(c) = 1

Laid(q, h, x, c, y) ==
    /\ q \in Nats /\ Len(q) = 3 + Len(x) + Len(y)
    /\ q[1] = h[1] /\ q[2] = h[2] /\ q[3 + Len(x)] = c[1]
    /\ \A i \in 1..Len(x) : q[2 + i] = x[i]
    /\ \A i \in 1..Len(y) : q[3 + Len(x) + i] = y[i]

LEMMA QuadParts ==
    ASSUME NEW h, NEW x, NEW c, NEW y, Four(h, x, c, y)
    PROVE  Laid(Quad(h, x, c, y), h, x, c, y)
<1> DEFINE hx == Join(h, x)
           hxc == Join(hx, c)
           q == Join(hxc, y)
<1>0. h \in Nats /\ x \in Nats /\ c \in Nats /\ y \in Nats /\ Len(h) = 2 /\ Len(c) = 1
  BY Zenon DEF Four
<1>a. Len(x) \in Nat /\ Len(y) \in Nat
  BY <1>0, ElementsIn DEF Nats
<1>1. /\ hx \in Nats /\ Len(hx) = Len(h) + Len(x)
      /\ \A i \in 1..Len(h) : hx[i] = h[i]
      /\ \A i \in 1..Len(x) : hx[Len(h) + i] = x[i]
  BY <1>0, JoinNats, Zenon
<1> HIDE DEF hx
<1>2. /\ hxc \in Nats /\ Len(hxc) = Len(hx) + Len(c)
      /\ \A i \in 1..Len(hx) : hxc[i] = hx[i]
      /\ \A i \in 1..Len(c) : hxc[Len(hx) + i] = c[i]
  BY <1>0, <1>1, JoinNats, Zenon
<1> HIDE DEF hxc
<1>3. /\ q \in Nats /\ Len(q) = Len(hxc) + Len(y)
      /\ \A i \in 1..Len(hxc) : q[i] = hxc[i]
      /\ \A i \in 1..Len(y) : q[Len(hxc) + i] = y[i]
  BY <1>0, <1>2, JoinNats, Zenon
<1>4. q = Quad(h, x, c, y)
  BY Zenon DEF Quad, hx, hxc
<1> HIDE DEF q
<1>5. Len(hx) = 2 + Len(x) /\ Len(hxc) = 3 + Len(x)
  BY <1>0, <1>a, <1>1, <1>2
<1>6. \A i \in 1..(2 + Len(x)) : q[i] = hx[i]
  <2> TAKE i \in 1..(2 + Len(x))
  <2>1. i \in 1..Len(hx) /\ i \in 1..Len(hxc)
    BY <1>0, <1>a, <1>5
  <2> QED BY <1>2, <1>3, <2>1, Zenon
<1>7. q[1] = h[1] /\ q[2] = h[2]
  <2>1. 1 \in 1..Len(h) /\ 2 \in 1..Len(h) /\ 1 \in 1..(2 + Len(x)) /\ 2 \in 1..(2 + Len(x))
    BY <1>0, <1>a
  <2>2. q[1] = hx[1] /\ q[2] = hx[2]
    BY <1>6, <2>1, Zenon
  <2>3. hx[1] = h[1] /\ hx[2] = h[2]
    BY <1>1, <2>1, Zenon
  <2> QED BY <2>2, <2>3
<1>8. \A i \in 1..Len(x) : q[2 + i] = x[i]
  <2> TAKE i \in 1..Len(x)
  <2>1. 2 + i \in 1..(2 + Len(x)) /\ 2 + i = Len(h) + i
    BY <1>0, <1>a
  <2>2. q[2 + i] = hx[2 + i] /\ hx[Len(h) + i] = x[i]
    BY <1>1, <1>6, <2>1, Zenon
  <2> QED BY <2>1, <2>2
<1>9. q[3 + Len(x)] = c[1]
  <2>1. 3 + Len(x) \in 1..Len(hxc) /\ 1 \in 1..Len(c) /\ 3 + Len(x) = Len(hx) + 1
    BY <1>0, <1>a, <1>5
  <2>2. q[3 + Len(x)] = hxc[3 + Len(x)] /\ hxc[Len(hx) + 1] = c[1]
    BY <1>2, <1>3, <2>1, Zenon
  <2> QED BY <2>1, <2>2
<1>10. \A i \in 1..Len(y) : q[3 + Len(x) + i] = y[i]
  BY <1>3, <1>5, Zenon
<1>11. Len(q) = 3 + Len(x) + Len(y)
  BY <1>3, <1>5, Zenon
<1>12. Laid(q, h, x, c, y)
  BY <1>3, <1>7, <1>8, <1>9, <1>10, <1>11, Zenon DEF Laid
<1> QED BY <1>4, <1>12

(* PasswordServerHandler finds the name and password of a message.          *)
Named(m) == SubSeq(m, 3, 2 + m[2])
Worded(m) == SubSeq(m, 4 + m[2], Len(m))

LEMMA NameParts ==
    ASSUME NEW m \in Bytes, IsPassword(m)
    PROVE  /\ m[1] = 1 /\ m[2] \in Nat /\ Named(m) \in Bytes /\ Len(Named(m)) = m[2]
           /\ \A i \in 1..m[2] : Named(m)[i] = m[2 + i]
           /\ Worded(m) \in Bytes /\ Len(Worded(m)) = m[3 + m[2]]
           /\ \A i \in 1..Len(Worded(m)) : Worded(m)[i] = m[3 + m[2] + i]
           /\ Len(m) = 3 + Len(Named(m)) + Len(Worded(m))
<1>1. /\ Len(m) \in Nat /\ m[2] \in Nat /\ m[3 + m[2]] \in Nat /\ m[1] = 1
      /\ Len(m) = 3 + m[2] + m[3 + m[2]]
  <2>1. Len(m) \in Nat /\ \A i \in 1..Len(m) : m[i] \in Byte
    BY ElementsIn, Zenon DEF Bytes
  <2>2. Len(m) >= 3 /\ m[1] = 1 /\ Len(m) >= 3 + m[2] /\ Len(m) = 3 + m[2] + m[3 + m[2]]
    BY DEF IsPassword
  <2>3. m[2] \in Byte
    <3>1. 2 \in 1..Len(m)
      BY <2>1, <2>2
    <3> QED BY <2>1, <3>1, Zenon
  <2>4. m[2] \in Nat
    BY <2>3 DEF Byte
  <2>5. m[3 + m[2]] \in Byte
    <3>1. 3 + m[2] \in 1..Len(m)
      BY <2>1, <2>2, <2>4
    <3> QED BY <2>1, <3>1, Zenon
  <2>6. m[3 + m[2]] \in Nat
    BY <2>5 DEF Byte
  <2> QED BY <2>1, <2>2, <2>4, <2>6
<1> DEFINE k == m[2]
           j == m[3 + m[2]]
<1>2. Named(m) = Cut(m, 2, k) /\ Worded(m) = Cut(m, 3 + k, j)
  <2>1. 2 + 1 = 3 /\ (3 + k) + 1 = 4 + k /\ (3 + k) + j = Len(m)
    BY <1>1
  <2> QED BY <2>1, Zenon DEF Named, Worded, Cut
<1>a. k \in Nat /\ j \in Nat /\ Len(m) \in Nat /\ Len(m) = 3 + k + j
  BY <1>1
<1>b. m \in Seq(Byte)
  BY Zenon DEF Bytes
<1> HIDE DEF k, j
<1>c. m \in Seq(Byte) /\ 2 \in Nat /\ k \in Nat /\ 2 + k <= Len(m)
  BY <1>a, <1>b
<1>d. m \in Seq(Byte) /\ 3 + k \in Nat /\ j \in Nat /\ (3 + k) + j <= Len(m)
  BY <1>a, <1>b
<1>4. /\ Cut(m, 2, k) \in Seq(Byte) /\ Len(Cut(m, 2, k)) = k
      /\ \A i \in 1..k : Cut(m, 2, k)[i] = m[2 + i]
  BY <1>c, CutParts, ZenonT(60)
<1>5. /\ Cut(m, 3 + k, j) \in Seq(Byte) /\ Len(Cut(m, 3 + k, j)) = j
      /\ \A i \in 1..j : Cut(m, 3 + k, j)[i] = m[3 + k + i]
  BY <1>d, CutParts, Zenon
<1> QED BY <1>1, <1>2, <1>4, <1>5 DEF k, j, Bytes

Wanted(x, y) == Quad(<<1, Len(x)>>, x, <<Len(y)>>, y)

LEMMA WantedParts ==
    ASSUME NEW x \in Nats, NEW y \in Nats
    PROVE  /\ Wanted(x, y) \in Nats /\ Len(Wanted(x, y)) = 3 + Len(x) + Len(y)
           /\ Wanted(x, y)[1] = 1 /\ Wanted(x, y)[2] = Len(x)
           /\ Wanted(x, y)[3 + Len(x)] = Len(y)
           /\ \A i \in 1..Len(x) : Wanted(x, y)[2 + i] = x[i]
           /\ \A i \in 1..Len(y) : Wanted(x, y)[3 + Len(x) + i] = y[i]
<1> DEFINE h == <<1, Len(x)>>
           c == <<Len(y)>>
<1>1. 1 \in Nat /\ Len(x) \in Nat /\ Len(y) \in Nat
  BY ElementsIn DEF Nats
<1>2. h \in Nats /\ Len(h) = 2 /\ h[1] = 1 /\ h[2] = Len(x)
  BY <1>1 DEF Nats
<1>3. c \in Nats /\ Len(c) = 1 /\ c[1] = Len(y)
  BY <1>1 DEF Nats
<1>4. Wanted(x, y) = Quad(h, x, c, y)
  BY Zenon DEF Wanted
<1> HIDE DEF h, c
<1>5. Four(h, x, c, y)
  BY <1>2, <1>3, Zenon DEF Four
<1>6. Laid(Quad(h, x, c, y), h, x, c, y)
  BY <1>5, QuadParts, Zenon
<1> QED BY <1>2, <1>3, <1>4, <1>6 DEF Laid

LEMMA AcceptedIs ==
    ASSUME NEW m
    PROVE  Accepted(m) <=> \E u \in Users : m = Wanted(u[1], u[2])
BY Zenon DEF Accepted, Wanted, Quad, Join

LEMMA Widened == ASSUME NEW b \in Bytes PROVE b \in Nats
<1>1. Byte \subseteq Nat
  BY DEF Byte
<1> QED BY <1>1, SeqMonotonic DEF Bytes, Nats

LEMMA Same ==
    ASSUME NEW s \in Nats, NEW t \in Nats, Len(s) = Len(t), \A i \in 1..Len(s) : s[i] = t[i]
    PROVE  s = t
BY SeqEqual DEF Nats

LEMMA Rebuilt ==
    ASSUME NEW m \in Bytes, IsPassword(m)
    PROVE  m = Wanted(Named(m), Worded(m))
<1> DEFINE x == Named(m)
           y == Worded(m)
           w == Wanted(x, y)
<1>1. /\ m[1] = 1 /\ m[2] \in Nat /\ x \in Bytes /\ Len(x) = m[2]
      /\ \A i \in 1..m[2] : x[i] = m[2 + i]
      /\ y \in Bytes /\ Len(y) = m[3 + m[2]]
      /\ \A i \in 1..Len(y) : y[i] = m[3 + m[2] + i]
      /\ Len(m) = 3 + Len(x) + Len(y)
  BY NameParts
<1> HIDE DEF x, y
<1>2. x \in Nats /\ y \in Nats /\ m \in Nats
  BY <1>1, Widened
<1>3. /\ w \in Nats /\ Len(w) = 3 + Len(x) + Len(y)
      /\ w[1] = 1 /\ w[2] = Len(x)
      /\ w[3 + Len(x)] = Len(y)
      /\ \A i \in 1..Len(x) : w[2 + i] = x[i]
      /\ \A i \in 1..Len(y) : w[3 + Len(x) + i] = y[i]
  BY <1>2, WantedParts, Zenon
<1> HIDE DEF w
<1>4. Len(x) \in Nat /\ Len(y) \in Nat /\ Len(m) = 3 + Len(x) + Len(y)
  BY <1>1, <1>2, ElementsIn DEF Nats
<1>5. \A i \in 1..Len(m) : m[i] = w[i]
  <2> TAKE i \in 1..Len(m)
  <2>1. CASE i \in {1, 2, 3 + Len(x)}
    BY <1>1, <1>3, <1>4, <2>1
  <2>2. CASE i > 2 /\ i < 3 + Len(x)
    <3> DEFINE j == i - 2
    <3>1. j \in 1..Len(x) /\ i = 2 + j
      BY <1>4, <2>2
    <3> HIDE DEF j
    <3>2. x[j] = m[2 + j] /\ w[2 + j] = x[j]
      BY <1>1, <1>3, <3>1
    <3> QED BY <3>1, <3>2
  <2>3. CASE i > 3 + Len(x)
    <3> DEFINE j == i - (3 + Len(x))
    <3>1. j \in 1..Len(y) /\ i = 3 + Len(x) + j
      BY <1>4, <2>3
    <3> HIDE DEF j
    <3>2. y[j] = m[3 + Len(x) + j] /\ w[3 + Len(x) + j] = y[j]
      BY <1>1, <1>3, <3>1
    <3> QED BY <3>1, <3>2
  <2>4. i \in {1, 2, 3 + Len(x)} \/ (i > 2 /\ i < 3 + Len(x)) \/ i > 3 + Len(x)
    BY <1>4
  <2> QED BY <2>1, <2>2, <2>3, <2>4, Zenon
<1>6. m = w
  <2>1. Len(m) = Len(w)
    BY <1>3, <1>4
  <2> QED BY <1>2, <1>3, <1>5, <2>1, Same, Zenon
<1> QED BY <1>6 DEF w, x, y

LEMMA Found ==
    ASSUME NEW m \in Bytes, IsPassword(m), NEW x \in Bytes, NEW y \in Bytes, m = Wanted(x, y)
    PROVE  x = Named(m) /\ y = Worded(m)
<1>1. x \in Nats /\ y \in Nats
  BY Widened
<1>2. /\ Wanted(x, y)[2] = Len(x) /\ Wanted(x, y)[3 + Len(x)] = Len(y)
      /\ \A i \in 1..Len(x) : Wanted(x, y)[2 + i] = x[i]
      /\ \A i \in 1..Len(y) : Wanted(x, y)[3 + Len(x) + i] = y[i]
  BY <1>1, WantedParts
<1>3. /\ m[2] = Len(x) /\ m[3 + Len(x)] = Len(y)
      /\ \A i \in 1..Len(x) : m[2 + i] = x[i]
      /\ \A i \in 1..Len(y) : m[3 + Len(x) + i] = y[i]
  BY <1>2
<1> DEFINE n == Named(m)
           w == Worded(m)
<1>4. /\ n \in Bytes /\ Len(n) = m[2] /\ \A i \in 1..m[2] : n[i] = m[2 + i]
      /\ w \in Bytes /\ Len(w) = m[3 + m[2]] /\ \A i \in 1..Len(w) : w[i] = m[3 + m[2] + i]
  BY NameParts
<1> HIDE DEF n, w
<1>5. n \in Nats /\ w \in Nats
  BY <1>4, Widened
<1>6. Len(x) = Len(n) /\ \A i \in 1..Len(x) : x[i] = n[i]
  BY <1>3, <1>4
<1>7. Len(y) = Len(w) /\ \A i \in 1..Len(y) : y[i] = w[i]
  BY <1>3, <1>4
<1>8. x = n
  BY <1>1, <1>5, <1>6, Same
<1>9. y = w
  BY <1>1, <1>5, <1>7, Same
<1> QED BY <1>8, <1>9 DEF n, w

LEMMA Verdict ==
    ASSUME Types, Message("AUTH")
    PROVE  LET m == First(Length)
               u == 2 + At(1)
           IN  <<SubSeq(m, 3, u), SubSeq(m, u + 2, Length)>> \in Users <=> Accepted(m)
<1> DEFINE m == First(Length)
           u == 2 + At(1)
<1>1. /\ Length \in Nat /\ m \in Bytes /\ Len(m) = Length
      /\ \A i \in 0..(Length - 1) : m[i + 1] = At(i)
  BY FirstIs
<1>2. IsPassword(m)
  BY FirstBelongs DEF Belongs
<1>3. m[2] = At(1) /\ m[2] \in Nat
  <2>1. Length \in 3..Size /\ Size \in Nat
    BY Lengths, SizeIs
  <2>2. 1 \in 0..(Length - 1) /\ 1 + 1 = 2
    BY <1>1, <2>1
  <2>3. m[1 + 1] = At(1)
    BY <1>1, <2>2, Zenon
  <2>4. At(1) \in Nat
    BY <2>1, Bytewise
  <2> QED BY <2>2, <2>3, <2>4
<1> DEFINE x == SubSeq(m, 3, u)
           y == SubSeq(m, u + 2, Length)
<1>4. x = Named(m) /\ y = Worded(m)
  <2>1. u = 2 + m[2] /\ u + 2 = 4 + m[2] /\ Length = Len(m)
    BY <1>1, <1>3
  <2> QED BY <2>1, Zenon DEF Named, Worded
<1> HIDE DEF m, u, x, y
<1>5. ASSUME <<x, y>> \in Users PROVE Accepted(m)
  <2>1. m = Wanted(x, y)
    BY <1>1, <1>2, <1>4, Rebuilt
  <2>2. <<x, y>>[1] = x /\ <<x, y>>[2] = y
    OBVIOUS
  <2>3. m = Wanted(<<x, y>>[1], <<x, y>>[2])
    BY <2>1, <2>2
  <2> QED BY <1>5, <2>3, AcceptedIs, Zenon
<1>6. ASSUME Accepted(m) PROVE <<x, y>> \in Users
  <2>1. PICK v \in Users : m = Wanted(v[1], v[2])
    BY <1>6, AcceptedIs, Zenon
  <2>2. v[1] \in Bytes /\ v[2] \in Bytes /\ v = <<v[1], v[2]>>
    BY HandshakeAssumption
  <2>3. v[1] = Named(m) /\ v[2] = Worded(m)
    BY <1>1, <1>2, <2>1, <2>2, Found
  <2>4. v = <<x, y>>
    BY <1>4, <2>2, <2>3
  <2> QED BY <2>4
<1> QED BY <1>5, <1>6 DEF m, u, x, y

-----------------------------------------------------------------------------
LEMMA PortRange == \A port : port \in Ports <=> port \in Int /\ 0 <= port /\ port <= 65535
<1>1. MaxPort = 65535
  BY SMT DEF MaxPort
<1>2. MaxPort \in Int
  BY <1>1, SMT
<1>3. \A port : port \in Ports <=> port \in Int /\ 0 <= port /\ port <= MaxPort
  BY <1>2, SMT DEF Ports
<1> QED BY <1>1, <1>3, SMT

LEMMA SignedPort ==
    ASSUME NEW hi \in Byte, NEW lo \in Byte
    PROVE  /\ Port(hi, lo) \in Ports
           /\ Port(hi, lo) = 256 * hi + lo \/ (SignedChar /\ lo >= 128)
<1>1. CASE SignedChar /\ lo >= 128
  <2>1. Port(hi, lo) = 65280 + lo
    BY <1>1, SMT DEF Port, Widen, Byte
  <2>2. 65280 + lo \in Ports
    BY PortRange, SMT DEF Byte
  <2> QED BY <1>1, <2>1, <2>2
<1>2. CASE ~(SignedChar /\ lo >= 128)
  <2>1. Widen(lo) = lo
    BY <1>2, SMT DEF Widen, Byte
  <2>2. Widen(hi) = hi \/ Widen(hi) = 65280 + hi
    BY SMT DEF Widen, Byte
  <2>3. (hi * 256) % 65536 = 256 * hi /\ ((65280 + hi) * 256) % 65536 = 256 * hi
    BY SMT DEF Byte
  <2>4. (Widen(hi) * 256) % 65536 = 256 * hi
    BY <2>2, <2>3, SMT
  <2>5. Port(hi, lo) = 256 * hi + lo
    BY <2>1, <2>4, SMT DEF Port, Byte
  <2>6. 256 * hi + lo \in Ports
    BY PortRange, SMT DEF Byte
  <2> QED BY <2>5, <2>6
<1> QED BY <1>1, <1>2

(* Where the last message ends.                                             *)
LEMMA PoppedIs ==
    ASSUME ends \in Seq(Nat)
    PROVE  Len(ends) \in Nat /\ Popped = IF Len(ends) = 0 THEN 0 ELSE ends[Len(ends)]
BY EmptySeq, ElementsIn DEF Popped, Last

LEMMA PoppedNext ==
    ASSUME ends' \in Seq(Nat)
    PROVE  Len(ends') \in Nat /\ Popped' = IF Len(ends') = 0 THEN 0 ELSE ends'[Len(ends')]
BY EmptySeq, ElementsIn DEF Popped, Last

(* What a step does that takes a message.                                   *)
LEMMA Taking ==
    ASSUME Types, Aligned, Taken, NEW s \in {"INIT", "AUTH", "CMD"}, Message(s),
           Place(Len(msgs) + 1) = s, Takes(Length), UNCHANGED conf
    PROVE  /\ msgs' \in Seq(Bytes) /\ ends' \in Seq(Nat)
           /\ Len(msgs') = Len(msgs) + 1 /\ Len(ends') = Len(msgs') /\ Len(msgs) \in Nat
           /\ \A n \in 1..Len(msgs) : msgs'[n] = msgs[n]
           /\ msgs'[Len(msgs')] = First(Length)
           /\ Popped' = Popped + Length
           /\ Taken'
<1> DEFINE m == First(Length)
           e == Popped + Length
<1>1. Length \in 3..Size /\ Size \in Nat /\ m \in Bytes /\ Len(m) = Length
      /\ \A i \in 1..Length : m[i] = buf[start + i]
  BY Lengths, SizeIs, FirstIs
<1>2. Popped \in Nat /\ e \in Nat /\ Len(ends) = Len(msgs) /\ Len(msgs) \in Nat
  BY <1>1, ElementsIn DEF Aligned, Types
<1>3. Size = nread - Popped /\ \A i \in 1..Size : buf[start + i] = stream[Popped + i]
  BY DEF Aligned, Message, Meets
<1>4. nread \in Nat /\ nread <= Len(stream) /\ Len(stream) \in Nat /\ stream \in Seq(Byte)
  BY ElementsIn DEF Types, Bytes
<1>5. msgs' = Append(msgs, m) /\ ends' = Append(ends, e)
  BY DEF Takes
<1> HIDE DEF m, e
<1>6. /\ Append(msgs, m) \in Seq(Bytes) /\ Len(Append(msgs, m)) = Len(msgs) + 1
      /\ \A i \in 1..Len(msgs) : Append(msgs, m)[i] = msgs[i]
      /\ Append(msgs, m)[Len(msgs) + 1] = m
  <2>1. msgs \in Seq(Bytes) /\ m \in Bytes
    BY <1>1 DEF Types
  <2> QED BY <2>1, AppendParts, Zenon
<1>7. /\ Append(ends, e) \in Seq(Nat) /\ Len(Append(ends, e)) = Len(ends) + 1
      /\ \A i \in 1..Len(ends) : Append(ends, e)[i] = ends[i]
      /\ Append(ends, e)[Len(ends) + 1] = e
  <2>1. ends \in Seq(Nat) /\ e \in Nat
    BY <1>2 DEF Types
  <2> QED BY <2>1, AppendParts, Zenon
<1>8. /\ msgs' \in Seq(Bytes) /\ Len(msgs') = Len(msgs) + 1
      /\ \A i \in 1..Len(msgs) : msgs'[i] = msgs[i]
      /\ msgs'[Len(msgs) + 1] = m
  BY <1>5, <1>6
<1>9. /\ ends' \in Seq(Nat) /\ Len(ends') = Len(msgs) + 1
      /\ \A i \in 1..Len(msgs) : ends'[i] = ends[i]
      /\ ends'[Len(msgs) + 1] = e
  BY <1>2, <1>5, <1>7
<1>10. Popped' = Popped + Length
  BY <1>2, <1>9, PoppedNext DEF e
<1>11. m = SubSeq(stream, Popped + 1, Popped + Length)
  <2> DEFINE c == Cut(stream, Popped, Length)
  <2>1. stream \in Seq(Byte) /\ Popped \in Nat /\ Length \in Nat /\ Popped + Length <= Len(stream)
    BY <1>1, <1>2, <1>3, <1>4
  <2>2. c \in Seq(Byte) /\ Len(c) = Length /\ \A i \in 1..Length : c[i] = stream[Popped + i]
    BY <2>1, CutParts, Zenon
  <2>3. c = SubSeq(stream, Popped + 1, Popped + Length)
    BY Zenon DEF Cut
  <2> HIDE DEF c
  <2>4. \A i \in 1..Length : m[i] = c[i]
    BY <1>1, <1>3, <2>2
  <2>5. m \in Nats /\ c \in Nats
    BY <1>1, <2>2, Widened DEF Bytes
  <2>6. m = c
    BY <1>1, <2>2, <2>4, <2>5, Same
  <2> QED BY <2>3, <2>6
<1>12. Taken'
  <2>1. stream' = stream /\ handler' = handler
    BY DEF conf
  <2>2. \A n \in 1..Len(msgs) :
          /\ msgs[n] = SubSeq(stream, IF n = 1 THEN 1 ELSE 1 + ends[n - 1], ends[n])
          /\ Belongs(msgs[n], Place(n))
    BY Zenon DEF Taken, Begins
  <2>3. \A n : Place(n)' = Place(n)
    BY <2>1 DEF Place
  <2>4. ASSUME NEW n \in 1..Len(msgs')
        PROVE  /\ msgs'[n] = SubSeq(stream', IF n = 1 THEN 1 ELSE 1 + ends'[n - 1], ends'[n])
               /\ Belongs(msgs'[n], Place(n)')
    <3>1. CASE n \in 1..Len(msgs)
      <4>a. n # 1 => n - 1 \in 1..Len(msgs)
        BY <1>2, <3>1
      <4>1. msgs'[n] = msgs[n] /\ ends'[n] = ends[n] /\ (n # 1 => ends'[n - 1] = ends[n - 1])
        BY <1>8, <1>9, <3>1, <4>a, Zenon
      <4>2. (IF n = 1 THEN 1 ELSE 1 + ends'[n - 1]) = IF n = 1 THEN 1 ELSE 1 + ends[n - 1]
        BY <4>1
      <4> QED BY <2>1, <2>2, <2>3, <3>1, <4>1, <4>2
    <3>2. CASE n = Len(msgs) + 1
      <4>1. msgs'[n] = m /\ ends'[n] = Popped + Length
        BY <1>8, <1>9, <3>2 DEF e
      <4>2. (IF n = 1 THEN 1 ELSE 1 + ends'[n - 1]) = Popped + 1
        <5>1. CASE n = 1
          <6>1. Popped = 0
            BY <1>2, <3>2, <5>1, PoppedIs DEF Types
          <6> QED BY <5>1, <6>1
        <5>2. CASE n # 1
          <6>1. n - 1 = Len(ends) /\ n - 1 \in 1..Len(msgs)
            BY <1>2, <3>2, <5>2
          <6>2. ends'[n - 1] = ends[n - 1]
            BY <1>9, <6>1, Zenon
          <6>3. Popped = ends[n - 1]
            <7>1. Popped = IF Len(ends) = 0 THEN 0 ELSE ends[Len(ends)]
              BY PoppedIs DEF Types
            <7> QED BY <1>2, <6>1, <7>1
          <6> QED BY <1>2, <5>2, <6>2, <6>3
        <5> QED BY <5>1, <5>2
      <4>3. Belongs(m, Place(n))
        <5>1. Belongs(m, s)
          BY FirstBelongs DEF m
        <5> QED BY <3>2, <5>1
      <4> QED BY <1>11, <2>1, <2>3, <4>1, <4>2, <4>3
    <3> QED BY <1>2, <1>8, <3>1, <3>2
  <2> QED BY <2>4, Zenon DEF Taken, Begins
<1> QED BY <1>2, <1>8, <1>9, <1>10, <1>12 DEF m

-----------------------------------------------------------------------------
(* Which message is next in a state.                                        *)
LEMMA PlaceNext ==
    ASSUME Types, Stage, state \in {"INIT", "AUTH", "CMD"}, state = "AUTH" => handler = "password"
    PROVE  Place(Len(msgs) + 1) = state /\ Len(msgs) \in Nat
<1>1. Len(msgs) \in Nat
  BY ElementsIn DEF Types
<1>2. /\ state = "INIT" => Len(msgs) = 0
      /\ state = "AUTH" => Len(msgs) = 1 /\ handler = "password"
      /\ state = "CMD" => Len(msgs) >= (IF handler = "password" THEN 2 ELSE 1)
  BY DEF Stage
<1>3. CASE state = "INIT"
  BY <1>1, <1>2, <1>3 DEF Place
<1>4. CASE state = "AUTH"
  <2>a. Len(msgs) = 1
    BY <1>2, <1>4, Zenon
  <2>1. Len(msgs) + 1 = 2
    BY <2>a
  <2>2. Place(2) = "AUTH"
    BY <1>2, <1>4 DEF Place
  <2> QED BY <1>1, <1>4, <2>1, <2>2
<1>5. CASE state = "CMD"
  BY <1>1, <1>2, <1>5 DEF Place
<1> QED BY <1>1, <1>3, <1>4, <1>5

(* A step that takes no message and answers nothing.                        *)
LEMMA Still ==
    ASSUME Taken, UNCHANGED <<conf, out, history>>
    PROVE  /\ Taken' /\ Popped' = Popped /\ \A n : Place(n)' = Place(n)
           /\ UNCHANGED <<handler, stream, out, msgs, ends>>
<1>1. UNCHANGED <<handler, stream, out, msgs, ends>>
  BY DEF conf, history
<1>2. \A n : Place(n)' = Place(n)
  BY <1>1 DEF Place
<1>3. Taken'
  BY <1>1, <1>2 DEF Taken, Begins
<1>4. Popped' = Popped
  BY <1>1 DEF Popped
<1> QED BY <1>1, <1>2, <1>3, <1>4

LEMMA StillStage ==
    ASSUME Stage, Checked, UNCHANGED <<conf, state, out, history>>
    PROVE  Stage' /\ Checked'
<1>1. UNCHANGED <<handler, stream, state, out, msgs, ends>>
  BY DEF conf, history
<1> QED BY <1>1 DEF Stage, Checked, Place

(* A read: its bytes follow those of the input.                             *)
LEMMA ReadStep == ASSUME IndInv, Read PROVE IndInv'
<1> USE DEF IndInv
<1>1. PICK n \in 1..(Len(stream) - nread) : Push(n) /\ nread' = nread + n
  BY DEF Read
<1>2. /\ state' = state /\ looping' = TRUE /\ remote' = remote /\ target' = target
      /\ state \in {"INIT", "AUTH", "CMD", "UDP"} /\ UNCHANGED <<conf, out, history>>
  BY DEF Read
<1>3. /\ Taken' /\ Popped' = Popped /\ UNCHANGED <<handler, stream, out, msgs, ends>>
  BY <1>2, Still
<1>4. Stage' /\ Checked'
  BY <1>2, StillStage
<1>5. Settled' /\ ClosedForCause' /\ PortDecoded'
  BY <1>2 DEF Settled, ClosedForCause, PortDecoded
<1>6. /\ nread \in Nat /\ Len(stream) \in Nat /\ n \in Nat /\ n > 0 /\ nread + n <= Len(stream)
      /\ stream \in Seq(Byte) /\ buf \in Nats /\ buf \in Seq(Byte)
  BY Widened, ElementsIn DEF Types, Bytes
<1> DEFINE c == Cut(stream, nread, n)
<1>7. c \in Seq(Byte) /\ Len(c) = n /\ \A i \in 1..n : c[i] = stream[nread + i]
  <2>1. stream \in Seq(Byte) /\ nread \in Nat /\ n \in Nat /\ nread + n <= Len(stream)
    BY <1>6
  <2> QED BY <2>1, CutParts, Zenon
<1>8. buf' = Join(buf, c) /\ start' = start
  <2>1. nread + 1 = nread + 1 /\ buf' = buf \o SubSeq(stream, nread + 1, nread + n) /\ start' = start
    BY <1>1 DEF Push
  <2> QED BY <2>1, Zenon DEF Join, Cut
<1> HIDE DEF c
<1>9. c \in Nats
  BY <1>7, Widened DEF Bytes
<1>10. /\ Len(Join(buf, c)) = Len(buf) + Len(c)
       /\ \A i \in 1..Len(buf) : Join(buf, c)[i] = buf[i]
       /\ \A i \in 1..Len(c) : Join(buf, c)[Len(buf) + i] = c[i]
  BY <1>6, <1>9, JoinNats, Zenon
<1>11. Join(buf, c) \in Seq(Byte)
  BY <1>6, <1>7, ConcatProperties, Zenon DEF Join
<1>12. Len(buf') = Len(buf) + n /\ Size' = Size + n
  <2>1. Len(buf') = Len(buf) + n
    BY <1>7, <1>8, <1>10
  <2>2. Len(buf) \in Nat /\ start \in Nat /\ Size \in Nat /\ start + Size = Len(buf)
    BY SizeIs DEF Types
  <2>3. Size' = Len(buf') - start'
    BY DEF Size
  <2>4. start' = start /\ n \in Nat
    BY <1>6, <1>8
  <2>5. Size' = (Len(buf) + n) - start
    BY <2>1, <2>3, <2>4
  <2> QED BY <2>1, <2>2, <2>4, <2>5
<1>13. Types'
  <2>1. buf' \in Bytes
    BY <1>8, <1>11 DEF Bytes
  <2>2. start' \in 0..Len(buf')
    BY <1>6, <1>8, <1>12, SizeIs DEF Types
  <2>3. nread' \in 0..Len(stream)
    BY <1>1, <1>6
  <2> QED BY <1>2, <1>3, <2>1, <2>2, <2>3 DEF Types
<1>14. Aligned'
  <2>1. /\ Popped \in Nat /\ Popped <= nread /\ Len(ends) = Len(msgs) /\ remote = <<>>
        /\ Size = nread - Popped /\ \A i \in 1..Size : buf[start + i] = stream[Popped + i]
    BY <1>2, <1>6 DEF Aligned
  <2>2. Size' = nread' - Popped /\ Popped \in 0..nread'
    BY <1>1, <1>6, <1>12, <2>1, SizeIs
  <2>3. ASSUME NEW i \in 1..Size' PROVE buf'[start' + i] = stream[Popped + i]
    <3>1. CASE i <= Size
      <4>1. i \in 1..Size /\ start + i \in 1..Len(buf)
        <5>1. start \in Nat /\ Size \in Nat /\ start + Size = Len(buf)
          BY SizeIs DEF Types
        <5>2. Size' = Size + n
          BY <1>12
        <5> QED BY <1>6, <2>3, <3>1, <5>1, <5>2
      <4>2. buf'[start + i] = buf[start + i]
        BY <1>8, <1>10, <4>1
      <4> QED BY <1>8, <2>1, <4>1, <4>2
    <3>2. CASE i > Size
      <4> DEFINE j == i - Size
      <4>a. /\ Size \in Nat /\ start \in Nat /\ start + Size = Len(buf) /\ Len(c) = n
            /\ Popped \in Nat /\ Size = nread - Popped
        BY <1>7, <2>1, SizeIs DEF Types
      <4>b. i \in Nat /\ i <= Size + n
        BY <1>6, <1>12, <2>3, <4>a
      <4>1. j \in 1..Len(c) /\ start + i = Len(buf) + j /\ nread + j = Popped + i
        <5>1. j \in Nat /\ j > 0 /\ j <= n /\ i = Size + j
          BY <1>6, <3>2, <4>a, <4>b
        <5> HIDE DEF j
        <5>2. j \in 1..Len(c)
          BY <4>a, <5>1
        <5>a. start + i = (start + Size) + j
          BY <4>a, <5>1
        <5>3. start + i = Len(buf) + j
          BY <4>a, <5>a
        <5>4. nread + j = Popped + i
          BY <1>6, <4>a, <5>1
        <5> QED BY <5>2, <5>3, <5>4
      <4> HIDE DEF j
      <4>2. buf'[Len(buf) + j] = stream[nread + j]
        BY <1>7, <1>8, <1>10, <4>1
      <4> QED BY <1>8, <4>1, <4>2
    <3> QED BY <1>12, <2>3, <3>1, <3>2, SizeIs, <1>6
  <2> QED BY <1>2, <1>3, <2>1, <2>2, <2>3 DEF Aligned
<1> QED BY <1>3, <1>4, <1>5, <1>13, <1>14

(* A step that leaves the input as it is, before a session.                 *)
LEMMA Calm ==
    ASSUME IndInv, UNCHANGED <<conf, nread, queue, remote, target, out, history>>,
           looping' \in BOOLEAN, state # "STREAM",
           state' \in {"INIT", "AUTH", "CMD", "UDP", "closed", "lost"}
    PROVE  /\ Types' /\ Aligned' /\ Taken' /\ PortDecoded'
           /\ \A n : Place(n)' = Place(n)
           /\ UNCHANGED <<handler, stream, buf, start, Size, Input, out, msgs, ends>>
<1>1. UNCHANGED <<buf, start, nread, remote, target>>
  BY DEF queue
<1>2. /\ Taken' /\ Popped' = Popped /\ \A n : Place(n)' = Place(n)
      /\ UNCHANGED <<handler, stream, out, msgs, ends>>
  BY Still DEF IndInv
<1>3. Types'
  BY <1>1, <1>2 DEF IndInv, Types
<1>4. UNCHANGED <<Size, Input>>
  BY <1>1 DEF Size, Input
<1>5. Aligned'
  BY <1>1, <1>2, <1>4 DEF IndInv, Aligned
<1>6. PortDecoded'
  BY DEF PortDecoded
<1> QED BY <1>1, <1>2, <1>3, <1>4, <1>5, <1>6

LEMMA WaitStep == ASSUME IndInv, Wait PROVE IndInv'
<1>1. /\ UNCHANGED <<conf, nread, state, queue, remote, target, out, history>>
      /\ looping' = FALSE /\ state \in {"INIT", "CMD", "AUTH"}
      /\ Reads /\ (Begun => WellFormed /\ ~Enough)
  BY DEF Wait, Reads
<1>2. /\ Types' /\ Aligned' /\ Taken' /\ PortDecoded'
      /\ UNCHANGED <<handler, stream, buf, start, Size, Input, out, msgs, ends>>
  BY <1>1, Calm
<1>3. Stage' /\ Checked'
  BY <1>1, StillStage DEF IndInv
<1>4. UNCHANGED <<Reads, Begun, WellFormed, Enough>>
  <2>1. UNCHANGED <<handler, state, buf, start>>
    BY <1>1, <1>2
  <2>2. Size' = Size /\ (\A i : At(i)' = At(i))
    BY <2>1 DEF Size, At
  <2>3. AddrLen' = AddrLen
    BY <2>2 DEF AddrLen
  <2>4. Length' = Length
    BY <2>1, <2>2, <2>3 DEF Length
  <2>5. Reads' = Reads
    BY <2>1 DEF Reads
  <2>6. Begun' = Begun
    BY <2>1, <2>2 DEF Begun
  <2>7. WellFormed' = WellFormed
    BY <2>1, <2>2 DEF WellFormed
  <2>8. Enough' = Enough
    BY <2>1, <2>2, <2>4 DEF Enough
  <2> QED BY <2>5, <2>6, <2>7, <2>8
<1>5. Settled'
  BY <1>1, <1>4 DEF Settled
<1>6. ClosedForCause'
  BY <1>1 DEF ClosedForCause
<1> QED BY <1>2, <1>3, <1>5, <1>6 DEF IndInv

LEMMA LoseStep == ASSUME IndInv, Lose PROVE IndInv'
<1>1. /\ UNCHANGED <<conf, nread, queue, remote, target, out, history>>
      /\ looping' = FALSE /\ state \in {"INIT", "AUTH", "CMD", "UDP"} /\ state' = "lost"
  BY DEF Lose
<1>2. /\ Types' /\ Aligned' /\ Taken' /\ PortDecoded' /\ \A n : Place(n)' = Place(n)
      /\ UNCHANGED <<handler, stream, buf, start, Size, Input, out, msgs, ends>>
  BY <1>1, Calm
<1>3. Stage'
  BY <1>1, <1>2 DEF IndInv, Stage
<1>4. Checked'
  BY <1>1, <1>2 DEF IndInv, Checked
<1>5. Settled' /\ ClosedForCause'
  BY <1>1 DEF Settled, ClosedForCause
<1> QED BY <1>2, <1>3, <1>4, <1>5 DEF IndInv

LEMMA AdmitStep == ASSUME IndInv, Admit PROVE IndInv'
<1>1. /\ UNCHANGED <<conf, nread, queue, remote, target, out, history>>
      /\ looping' = looping /\ looping = TRUE /\ state = "AUTH" /\ state' = "CMD"
      /\ handler = "default"
  BY DEF Admit, Meets, IndInv, Types
<1>2. /\ Types' /\ Aligned' /\ Taken' /\ PortDecoded' /\ \A n : Place(n)' = Place(n)
      /\ UNCHANGED <<handler, stream, buf, start, Size, Input, out, msgs, ends>>
  BY <1>1, Calm
<1>3. Stage'
  <2>1. Len(msgs) = 1 /\ Len(out) = Len(msgs)
    BY <1>1 DEF IndInv, Stage
  <2> QED BY <1>1, <1>2, <2>1 DEF Stage
<1>4. Checked'
  BY <1>1, <1>2 DEF Checked
<1>5. Settled' /\ ClosedForCause'
  BY <1>1 DEF Settled, ClosedForCause
<1> QED BY <1>2, <1>3, <1>4, <1>5 DEF IndInv

LEMMA RejectStep == ASSUME IndInv, Reject PROVE IndInv'
<1>1. /\ UNCHANGED <<conf, nread, queue, remote, target, out, history>>
      /\ looping' = FALSE /\ state \in {"INIT", "AUTH", "CMD", "UDP"} /\ state' = "closed"
  BY DEF Reject, Close, Meets, Reads
<1>2. /\ Types' /\ Aligned' /\ Taken' /\ PortDecoded' /\ \A n : Place(n)' = Place(n)
      /\ UNCHANGED <<handler, stream, buf, start, Size, Input, out, msgs, ends>>
  BY <1>1, Calm
<1>3. Stage'
  BY <1>1, <1>2 DEF IndInv, Stage
<1>4. Checked'
  BY <1>1, <1>2 DEF IndInv, Checked
<1>5. Settled'
  BY <1>1 DEF Settled
<1>6. ClosedForCause'
  <2>1. CASE Reads /\ Meets(state) /\ Begun /\ ~WellFormed
    <3>1. state \in {"INIT", "AUTH", "CMD"} /\ (state = "AUTH" => handler = "password")
      BY <2>1 DEF Reads
    <3>2. Place(Len(msgs) + 1) = state
      BY <3>1, PlaceNext DEF IndInv
    <3>3. Malformed(Input, Place(Len(msgs) + 1))
      BY <2>1, <3>1, <3>2, MalformedIs DEF IndInv
    <3> QED BY <1>2, <3>3 DEF ClosedForCause
  <2>2. CASE Meets("UDP")
    <3>1. Size > 0 /\ Len(msgs) > 1 /\ Place(Len(msgs)) = "CMD" /\ msgs[Len(msgs)][2] = Udp
      BY <2>2 DEF Meets, IndInv, Stage
    <3>2. Last(msgs)[2] = Udp
      BY <3>1 DEF Last
    <3> QED BY <1>2, <3>1, <3>2 DEF ClosedForCause
  <2> QED BY <2>1, <2>2 DEF Reject
<1> QED BY <1>2, <1>3, <1>4, <1>5, <1>6 DEF IndInv

(* The loop ends: shrinking leaves an empty input empty.                    *)
LEMMA EmptyStep == ASSUME IndInv, Empty PROVE IndInv'
<1>1. /\ UNCHANGED <<conf, nread, state, remote, target, out, history>>
      /\ looping' = FALSE /\ Size = 0 /\ Shrink
  BY DEF Empty
<1>2. /\ Taken' /\ Popped' = Popped /\ \A n : Place(n)' = Place(n)
      /\ UNCHANGED <<handler, stream, out, msgs, ends>>
  BY <1>1, Still DEF IndInv
<1>3. Input \in Bytes /\ Len(Input) = 0 /\ Types /\ Len(buf) \in Nat
  BY <1>1, InputIs, SizeIs DEF IndInv
<1>4. buf' \in Bytes /\ start' \in 0..Len(buf') /\ Size' = 0
  <2>1. CASE buf' = Input /\ start' = 0
    <3>1. Len(buf') = 0 /\ buf' \in Bytes
      BY <1>3, <2>1
    <3>2. Size' = Len(buf') - start'
      BY DEF Size
    <3> QED BY <2>1, <3>1, <3>2
  <2>2. CASE UNCHANGED queue
    BY <1>1, <1>3, <2>2 DEF queue, Size, Types
  <2> QED BY <1>1, <2>1, <2>2 DEF Shrink
<1>5. Types'
  BY <1>1, <1>2, <1>3, <1>4 DEF Types
<1>6. Aligned'
  BY <1>1, <1>2, <1>4 DEF IndInv, Aligned
<1>7. Stage' /\ Checked'
  BY <1>1, StillStage DEF IndInv
<1>8. Settled'
  BY <1>4 DEF Settled
<1>9. ClosedForCause'
  <2> SUFFICES ASSUME state = "closed"
               PROVE  Len(out) = 2 /\ handler = "password" /\ out[2] = 1
    BY <1>1, <1>2 DEF ClosedForCause
  <2>1. \A place : ~Malformed(Input, place)
    BY <1>3 DEF Malformed
  <2> QED BY <1>1, <2>1 DEF IndInv, ClosedForCause
<1>10. PortDecoded'
  BY <1>1, <1>2 DEF IndInv, PortDecoded
<1> QED BY <1>2, <1>5, <1>6, <1>7, <1>8, <1>9, <1>10 DEF IndInv

(* A message is popped, and no session starts.                              *)
LEMMA Popping ==
    ASSUME IndInv, NEW s \in {"INIT", "AUTH", "CMD"}, Message(s), Pop(Length),
           s = "AUTH" => handler = "password",
           UNCHANGED <<conf, nread, remote, target>>, state' # "STREAM"
    PROVE  /\ start' \in 0..Len(buf') /\ Size' = Size - Length /\ Size \in Nat
           /\ UNCHANGED <<handler, stream, buf>> /\ \A n : Place(n)' = Place(n)
           /\ msgs' \in Seq(Bytes) /\ ends' \in Seq(Nat)
           /\ Len(msgs') = Len(msgs) + 1 /\ Len(ends') = Len(msgs') /\ Len(msgs) \in Nat
           /\ \A n \in 1..Len(msgs) : msgs'[n] = msgs[n]
           /\ msgs'[Len(msgs')] = First(Length) /\ Last(msgs') = First(Length)
           /\ Place(Len(msgs')) = s /\ Length \in 3..Size
           /\ Taken' /\ Aligned' /\ PortDecoded'
<1> USE DEF IndInv
<1>1. state = s /\ Length \in 3..Size /\ Size \in Nat /\ start + Size = Len(buf) /\ start \in Nat
  BY Lengths, SizeIs DEF Message, Meets, Types
<1>2. start' = start + Length /\ Takes(Length) /\ buf' = buf
  BY DEF Pop
<1>3. handler' = handler /\ stream' = stream /\ nread' = nread /\ remote' = remote
  BY DEF conf
<1>4. Place(Len(msgs) + 1) = s
  BY <1>1, PlaceNext
<1>5. /\ msgs' \in Seq(Bytes) /\ ends' \in Seq(Nat)
      /\ Len(msgs') = Len(msgs) + 1 /\ Len(ends') = Len(msgs') /\ Len(msgs) \in Nat
      /\ \A n \in 1..Len(msgs) : msgs'[n] = msgs[n]
      /\ msgs'[Len(msgs')] = First(Length)
      /\ Popped' = Popped + Length
      /\ Taken'
  BY <1>2, <1>4, Taking
<1>6. start' \in 0..Len(buf') /\ Size' = Size - Length
  <2>1. Size' = Len(buf') - start'
    BY DEF Size
  <2>2. Len(buf') = Len(buf)
    BY <1>2
  <2> QED BY <1>1, <1>2, <2>1, <2>2
<1>7. Aligned'
  <2>a. nread \in Nat
    <3>1. Len(stream) \in Nat /\ nread \in 0..Len(stream)
      BY ElementsIn DEF Types, Bytes
    <3> QED BY <3>1
  <2>b. /\ Popped \in 0..nread /\ remote = <<>> /\ Size = nread - Popped
        /\ \A i \in 1..Size : buf[start + i] = stream[Popped + i]
    BY <1>1 DEF Aligned
  <2>1. /\ remote = <<>> /\ Size = nread - Popped /\ Popped \in Nat /\ nread \in Nat
        /\ \A i \in 1..Size : buf[start + i] = stream[Popped + i]
    BY <2>a, <2>b
  <2>c. Length \in Nat /\ Length <= Size
    BY <1>1
  <2>2. Size' = nread - Popped' /\ Popped' \in 0..nread
    <3>1. Popped' = Popped + Length /\ Size' = Size - Length
      BY <1>5, <1>6
    <3>2. nread \in Nat /\ Popped \in Nat /\ Size = nread - Popped
      BY <2>a, <2>1
    <3> QED BY <2>c, <3>1, <3>2
  <2>3. ASSUME NEW i \in 1..Size' PROVE buf'[start' + i] = stream[Popped' + i]
    <3> DEFINE j == Length + i
    <3>1. j \in 1..Size /\ start + j = start' + i /\ Popped + j = Popped' + i
      BY <1>1, <1>2, <1>5, <1>6, <2>1
    <3> HIDE DEF j
    <3>2. buf[start + j] = stream[Popped + j]
      BY <2>1, <3>1
    <3> QED BY <1>2, <3>1, <3>2
  <2> QED BY <1>3, <1>5, <2>1, <2>2, <2>3 DEF Aligned
<1>8. Last(msgs') = First(Length)
  BY <1>5 DEF Last
<1>9. \A n : Place(n)' = Place(n)
  BY <1>3 DEF Place
<1>10. PortDecoded'
  BY DEF PortDecoded
<1>11. Place(Len(msgs')) = s
  BY <1>4, <1>5
<1> QED BY <1>1, <1>2, <1>3, <1>5, <1>6, <1>7, <1>8, <1>9, <1>10, <1>11

(* One more answer.                                                         *)
LEMMA Answer ==
    ASSUME IndInv, state \in {"INIT", "AUTH", "CMD"}, NEW x \in Nat, out' = Append(out, x)
    PROVE  /\ out' \in Seq(Nat) /\ Len(out') = Len(msgs) + 1
           /\ Len(out) = Len(msgs) /\ Len(msgs) \in Nat
           /\ \A n \in 1..Len(msgs) : out'[n] = out[n]
           /\ out'[Len(msgs) + 1] = x
<1>1. out \in Seq(Nat) /\ Len(out) = Len(msgs) /\ Len(msgs) \in Nat
  BY ElementsIn DEF IndInv, Types, Stage
<1>2. /\ Append(out, x) \in Seq(Nat) /\ Len(Append(out, x)) = Len(out) + 1
      /\ \A i \in 1..Len(out) : Append(out, x)[i] = out[i]
      /\ Append(out, x)[Len(out) + 1] = x
  <2>1. out \in Seq(Nat) /\ x \in Nat
    BY <1>1
  <2> QED BY <2>1, AppendParts, Zenon
<1> QED BY <1>1, <1>2

LEMMA MethodsStep == ASSUME IndInv, Methods PROVE IndInv'
<1>1. /\ Message("INIT") /\ Pop(Length) /\ state' = "AUTH" /\ state = "INIT" /\ looping
      /\ UNCHANGED <<conf, nread, looping, remote, target>>
  BY DEF Methods, Message, Meets
<1>2. /\ start' \in 0..Len(buf') /\ UNCHANGED <<handler, stream, buf>>
      /\ msgs' \in Seq(Bytes) /\ ends' \in Seq(Nat) /\ Len(msgs') = Len(msgs) + 1
      /\ Taken' /\ Aligned' /\ PortDecoded'
  BY <1>1, Popping
<1>3. PICK x \in Nat : out' = Append(out, x)
  BY DEF Methods, Chosen, Username, None
<1>4. out' \in Seq(Nat) /\ Len(out') = Len(msgs) + 1
  BY <1>1, <1>3, Answer
<1>5. Types'
  BY <1>1, <1>2, <1>4 DEF IndInv, Types
<1>6. Stage'
  <2>1. Len(msgs) = 0
    BY <1>1 DEF IndInv, Stage
  <2> QED BY <1>1, <1>2, <1>4, <2>1 DEF Stage
<1>7. Checked'
  <2>1. Len(msgs') = 1
    BY <1>1, <1>2 DEF IndInv, Stage
  <2> QED BY <1>1, <2>1 DEF Checked
<1>8. Settled' /\ ClosedForCause'
  BY <1>1 DEF Settled, ClosedForCause
<1> QED BY <1>2, <1>5, <1>6, <1>7, <1>8 DEF IndInv

LEMMA PasswordStep == ASSUME IndInv, Password PROVE IndInv'
<1>1. /\ Message("AUTH") /\ Pop(Length) /\ state = "AUTH" /\ looping /\ handler = "password"
      /\ UNCHANGED <<conf, nread, remote, target>>
  BY DEF Password, Message, Meets
<1>2. \/ Accepted(First(Length)) /\ out' = Append(out, 0) /\ state' = "CMD" /\ UNCHANGED looping
      \/ ~Accepted(First(Length)) /\ out' = Append(out, 1) /\ state' = "closed" /\ looping' = FALSE
  <2> DEFINE right == <<SubSeq(First(Length), 3, 2 + At(1)),
                        SubSeq(First(Length), 2 + At(1) + 2, Length)>> \in Users
  <2>1. right <=> Accepted(First(Length))
    BY <1>1, Verdict DEF IndInv
  <2>2. \/ right /\ out' = Append(out, 0) /\ state' = "CMD" /\ UNCHANGED looping
        \/ ~right /\ out' = Append(out, 1) /\ Close
    BY DEF Password
  <2> HIDE DEF right
  <2> QED BY <2>1, <2>2 DEF Close
<1>3. /\ start' \in 0..Len(buf') /\ UNCHANGED <<handler, stream, buf>>
      /\ msgs' \in Seq(Bytes) /\ ends' \in Seq(Nat) /\ Len(msgs') = Len(msgs) + 1
      /\ msgs'[Len(msgs')] = First(Length)
      /\ Taken' /\ Aligned' /\ PortDecoded'
  BY <1>1, <1>2, Popping
<1>4. PICK x \in {0, 1} : out' = Append(out, x) /\ (x = 0 <=> Accepted(First(Length)))
  BY <1>2
<1>5. out' \in Seq(Nat) /\ Len(out') = Len(msgs) + 1 /\ out'[Len(msgs) + 1] = x
  BY <1>1, <1>4, Answer
<1>6. Len(msgs) = 1 /\ Len(msgs') = 2 /\ Len(out') = 2
  <2>1. Len(msgs) = 1
    BY <1>1 DEF IndInv, Stage
  <2>2. Len(msgs') = Len(msgs) + 1 /\ Len(out') = Len(msgs) + 1
    BY <1>3, <1>5
  <2> QED BY <2>1, <2>2
<1>7. out'[2] = x /\ msgs'[2] = First(Length)
  <2>1. Len(msgs) + 1 = 2
    BY <1>6
  <2> QED BY <1>3, <1>5, <1>6, <2>1
<1>8. Types'
  BY <1>1, <1>2, <1>3, <1>5 DEF IndInv, Types
<1>9. Stage'
  BY <1>2, <1>6 DEF Stage
<1>10. Checked'
  BY <1>2, <1>4, <1>6, <1>7 DEF Checked
<1>11. Settled'
  BY <1>1, <1>2 DEF Settled
<1>12. ClosedForCause'
  BY <1>1, <1>2, <1>3, <1>4, <1>6, <1>7 DEF ClosedForCause
<1> QED BY <1>3, <1>8, <1>9, <1>10, <1>11, <1>12 DEF IndInv

(* What was answered before a command stays, and lets it in.                *)
LEMMA StillChecked ==
    ASSUME IndInv, state = "CMD", handler' = handler, Len(msgs) \in Nat, Len(msgs') = Len(msgs) + 1,
           \A n \in 1..Len(msgs) : msgs'[n] = msgs[n], \A n \in 1..Len(msgs) : out'[n] = out[n]
    PROVE  Checked'
<1> SUFFICES ASSUME handler = "password" PROVE Checked'
  BY DEF Checked
<1>1. Len(msgs) >= 2 /\ out[2] = 0 /\ (out[2] = 0 <=> Accepted(msgs[2]))
  <2>1. Len(msgs) >= 2
    BY DEF IndInv, Stage
  <2> QED BY <2>1 DEF IndInv, Checked
<1>2. 2 \in 1..Len(msgs)
  BY <1>1
<1>3. msgs'[2] = msgs[2] /\ out'[2] = out[2]
  BY <1>2
<1> QED BY <1>1, <1>3 DEF Checked

(* The command that was popped.                                             *)
LEMMA Commanded ==
    ASSUME IndInv, Message("CMD")
    PROVE  /\ state = "CMD" /\ looping /\ First(Length)[2] = At(1) /\ Len(msgs) \in Nat
           /\ Len(msgs) >= (IF handler = "password" THEN 2 ELSE 1)
           /\ Len(out) = Len(msgs)
<1>1. Length \in 3..Size /\ Size \in Nat /\ \A i \in 0..(Length - 1) : First(Length)[i + 1] = At(i)
  BY Lengths, SizeIs, FirstIs DEF IndInv
<1>2. 1 \in 0..(Length - 1) /\ 1 + 1 = 2
  BY <1>1
<1>3. First(Length)[1 + 1] = At(1)
  BY <1>1, <1>2, Zenon
<1>4. state = "CMD" /\ looping
  BY DEF Message, Meets
<1>5. Len(msgs) \in Nat
  BY ElementsIn DEF IndInv, Types
<1> QED BY <1>2, <1>3, <1>4, <1>5 DEF IndInv, Stage

LEMMA UnsupportedStep == ASSUME IndInv, Unsupported PROVE IndInv'
<1>1. /\ Message("CMD") /\ Pop(Length) /\ At(1) \notin {Connect, Udp} /\ out' = Append(out, 1)
      /\ looping' = FALSE /\ UNCHANGED <<conf, nread, state, remote, target>>
  BY DEF Unsupported
<1>2. /\ state = "CMD" /\ First(Length)[2] = At(1) /\ Len(msgs) \in Nat
      /\ Len(msgs) >= (IF handler = "password" THEN 2 ELSE 1)
  BY <1>1, Commanded
<1>3. /\ start' \in 0..Len(buf') /\ UNCHANGED <<handler, stream, buf>>
      /\ \A n : Place(n)' = Place(n)
      /\ msgs' \in Seq(Bytes) /\ ends' \in Seq(Nat) /\ Len(msgs') = Len(msgs) + 1
      /\ \A n \in 1..Len(msgs) : msgs'[n] = msgs[n]
      /\ Last(msgs') = First(Length) /\ Place(Len(msgs')) = "CMD"
      /\ Taken' /\ Aligned' /\ PortDecoded'
  BY <1>1, <1>2, Popping
<1>4. /\ out' \in Seq(Nat) /\ Len(out') = Len(msgs) + 1
      /\ \A n \in 1..Len(msgs) : out'[n] = out[n]
  BY <1>1, <1>2, Answer
<1>5. Types'
  BY <1>1, <1>3, <1>4 DEF IndInv, Types
<1>6. Stage'
  BY <1>1, <1>2, <1>3, <1>4 DEF Stage
<1>7. Checked'
  BY <1>2, <1>3, <1>4, StillChecked
<1>8. Settled'
  <2>1. msgs' # <<>>
    BY <1>2, <1>3, EmptySeq
  <2>2. Stranded'
    BY <1>1, <1>2, <1>3, <2>1 DEF Stranded
  <2> QED BY <2>2 DEF Settled
<1>9. ClosedForCause'
  BY <1>1, <1>2 DEF ClosedForCause
<1> QED BY <1>3, <1>5, <1>6, <1>7, <1>8, <1>9 DEF IndInv

LEMMA UdpStep == ASSUME IndInv, CmdUdp PROVE IndInv'
<1>1. /\ Message("CMD") /\ Pop(Length) /\ At(1) = Udp
      /\ UNCHANGED <<conf, nread, remote, target>>
  BY DEF CmdUdp
<1>2. \/ Size > Length /\ state' = "closed" /\ looping' = FALSE /\ out' = out
      \/ /\ looping' = looping
         /\ \E code \in {0, 1} :
              out' = Append(out, code) /\ state' = IF code = 0 THEN "UDP" ELSE state
  BY DEF CmdUdp, Close
<1>3. /\ state = "CMD" /\ looping /\ First(Length)[2] = At(1) /\ Len(msgs) \in Nat
      /\ Len(msgs) >= (IF handler = "password" THEN 2 ELSE 1) /\ Len(out) = Len(msgs)
  BY <1>1, Commanded
<1>4. state' \in {"closed", "UDP", "CMD"} /\ state' # "STREAM"
  BY <1>2, <1>3
<1>5. /\ start' \in 0..Len(buf') /\ Size' = Size - Length /\ UNCHANGED <<handler, stream, buf>>
      /\ \A n : Place(n)' = Place(n) /\ Length \in 3..Size /\ Size \in Nat
      /\ msgs' \in Seq(Bytes) /\ ends' \in Seq(Nat) /\ Len(msgs') = Len(msgs) + 1
      /\ \A n \in 1..Len(msgs) : msgs'[n] = msgs[n]
      /\ msgs'[Len(msgs')] = First(Length)
      /\ Last(msgs') = First(Length) /\ Place(Len(msgs')) = "CMD"
      /\ Taken' /\ Aligned' /\ PortDecoded'
  BY <1>1, <1>4, Popping
<1>6. CASE state' = "closed"
  <2>1. Size > Length /\ looping' = FALSE /\ out' = out
    BY <1>2, <1>3, <1>6
  <2>2. Types'
    BY <1>1, <1>5, <1>6, <2>1 DEF IndInv, Types
  <2>3. Stage'
    BY <1>3, <1>5, <1>6, <2>1 DEF Stage
  <2>4. Checked'
    BY <1>3, <1>5, <2>1, StillChecked
  <2>5. Settled'
    BY <1>6 DEF Settled
  <2>6. ClosedForCause'
    <3>1. Len(msgs') > 1 /\ Size' > 0
      BY <1>3, <1>5, <2>1
    <3>2. Last(msgs')[2] = Udp
      BY <1>1, <1>3, <1>5
    <3> QED BY <1>5, <3>1, <3>2 DEF ClosedForCause
  <2> QED BY <1>5, <2>2, <2>3, <2>4, <2>5, <2>6 DEF IndInv
<1>7. CASE state' # "closed"
  <2>1. PICK code \in Nat : out' = Append(out, code)
    BY <1>2, <1>7
  <2>2. /\ out' \in Seq(Nat) /\ Len(out') = Len(msgs) + 1
        /\ \A n \in 1..Len(msgs) : out'[n] = out[n]
    BY <1>3, <2>1, Answer
  <2>3. looping' = looping
    BY <1>2, <1>7
  <2>4. Types'
    BY <1>1, <1>4, <1>5, <2>2, <2>3 DEF IndInv, Types
  <2>5. Stage'
    <3>1. Len(msgs') > 1 /\ Len(msgs') >= (IF handler = "password" THEN 2 ELSE 1)
      <4>1. Len(msgs') = Len(msgs) + 1
        BY <1>5
      <4> QED BY <1>3, <4>1
    <3>2. msgs'[Len(msgs')][2] = Udp
      BY <1>1, <1>3, <1>5
    <3> QED BY <1>4, <1>5, <1>7, <2>2, <3>1, <3>2 DEF Stage
  <2>6. Checked'
    BY <1>3, <1>5, <2>2, StillChecked
  <2>7. Settled' /\ ClosedForCause'
    BY <1>3, <1>7, <2>3 DEF Settled, ClosedForCause
  <2> QED BY <1>5, <2>4, <2>5, <2>6, <2>7 DEF IndInv
<1> QED BY <1>6, <1>7

LEMMA ConnectStep == ASSUME IndInv, CmdConnect PROVE IndInv'
<1>1. /\ Message("CMD") /\ Takes(Length) /\ At(1) = Connect /\ UNCHANGED <<conf, nread>>
  BY DEF CmdConnect
<1>2. /\ state = "CMD" /\ looping /\ Len(msgs) \in Nat
      /\ Len(msgs) >= (IF handler = "password" THEN 2 ELSE 1) /\ Len(out) = Len(msgs)
  BY <1>1, Commanded
<1>3. handler' = handler /\ stream' = stream /\ nread' = nread
  BY <1>1 DEF conf
<1>4. CASE /\ target' = Port(At(Length - 2), At(Length - 1))
           /\ remote' = SubSeq(Input, Length + 1, Size) /\ buf' = <<>> /\ start' = 0
           /\ out' = Append(out, 0) /\ state' = "STREAM" /\ UNCHANGED looping
  <2>1. /\ Length \in 3..Size /\ Size \in Nat /\ Length \in Nat
        /\ Len(First(Length)) = Length
        /\ \A i \in 0..(Length - 1) : First(Length)[i + 1] = At(i)
    BY <1>1, Lengths, SizeIs, FirstIs DEF IndInv
  <2>2. Place(Len(msgs) + 1) = "CMD"
    BY <1>2, PlaceNext DEF IndInv
  <2>3. /\ msgs' \in Seq(Bytes) /\ ends' \in Seq(Nat)
        /\ Len(msgs') = Len(msgs) + 1 /\ Len(ends') = Len(msgs')
        /\ \A n \in 1..Len(msgs) : msgs'[n] = msgs[n]
        /\ msgs'[Len(msgs')] = First(Length)
        /\ Popped' = Popped + Length
        /\ Taken'
    BY <1>1, <2>2, Taking DEF IndInv
  <2>4. /\ out' \in Seq(Nat) /\ Len(out') = Len(msgs) + 1
        /\ \A n \in 1..Len(msgs) : out'[n] = out[n]
    BY <1>2, <1>4, Answer
  <2>5. /\ remote' \in Bytes /\ Len(remote') = Size - Length
        /\ \A i \in 1..(Size - Length) : remote'[i] = buf[start + (Length + i)]
    <3> DEFINE k == Size - Length
               c == Cut(Input, Length, k)
    <3>1. k \in Nat /\ Length + k = Size /\ Length + k <= Size
      BY <2>1
    <3>2. Input \in Seq(Byte) /\ Len(Input) = Size /\ \A i \in 1..Size : Input[i] = buf[start + i]
      BY InputIs DEF IndInv, Bytes
    <3>3. c = remote'
      <4>1. c = SubSeq(Input, Length + 1, Length + k)
        BY Zenon DEF Cut
      <4> HIDE DEF k, c
      <4> QED BY <1>4, <3>1, <4>1
    <3> HIDE DEF k
    <3>a. Input \in Seq(Byte) /\ Length \in Nat /\ k \in Nat /\ Length + k <= Len(Input)
      BY <2>1, <3>1, <3>2
    <3>4. c \in Seq(Byte) /\ Len(c) = k /\ \A i \in 1..k : c[i] = Input[Length + i]
      BY <3>a, CutParts, Zenon
    <3> HIDE DEF c
    <3>5. ASSUME NEW i \in 1..k PROVE remote'[i] = buf[start + (Length + i)]
      <4>1. Length + i \in 1..Size
        BY <2>1, <3>1
      <4>2. remote'[i] = Input[Length + i] /\ Input[Length + i] = buf[start + (Length + i)]
        BY <3>2, <3>3, <3>4, <4>1, Zenon
      <4> QED BY <4>2
    <3> QED BY <3>3, <3>4, <3>5 DEF k, Bytes
  <2>6. target' \in Ports /\ PortDecoded'
    <3>1. /\ Length - 2 \in 0..(Length - 1) /\ Length - 1 \in 0..(Length - 1)
          /\ (Length - 2) + 1 = Length - 1 /\ (Length - 1) + 1 = Length
          /\ Length - 2 \in Nat /\ Length - 2 < Size /\ Length - 1 \in Nat /\ Length - 1 < Size
      BY <2>1
    <3>2. At(Length - 2) \in Byte /\ At(Length - 1) \in Byte
      BY <3>1, Bytewise DEF IndInv
    <3> DEFINE m == First(Length)
    <3>3. m[Length - 1] = At(Length - 2) /\ m[Length] = At(Length - 1)
      <4>1. m[(Length - 2) + 1] = At(Length - 2) /\ m[(Length - 1) + 1] = At(Length - 1)
        BY <2>1, <3>1, Zenon
      <4> QED BY <3>1, <4>1
    <3>4. Last(msgs') = m /\ Len(m) = Length
      BY <2>1, <2>3 DEF Last
    <3> HIDE DEF m
    <3>5. /\ target' \in Ports
          /\ target' = 256 * At(Length - 2) + At(Length - 1) \/ (SignedChar /\ At(Length - 1) >= 128)
      BY <1>4, <3>2, SignedPort
    <3>6. target' = 256 * m[Len(m) - 1] + m[Len(m)] \/ (SignedChar /\ m[Len(m)] >= 128)
      BY <3>3, <3>4, <3>5
    <3> QED BY <3>4, <3>5, <3>6 DEF PortDecoded
  <2>7. Types'
    <3>1. buf' \in Bytes /\ start' \in 0..Len(buf') /\ Len(buf') = 0
      BY <1>4 DEF Bytes
    <3> QED BY <1>3, <1>4, <2>3, <2>4, <2>5, <2>6, <3>1 DEF IndInv, Types
  <2>8. Aligned'
    <3>a. nread \in Nat
      <4>1. Len(stream) \in Nat /\ nread \in 0..Len(stream)
        BY ElementsIn DEF IndInv, Types, Bytes
      <4> QED BY <4>1
    <3>1. /\ Popped \in 0..nread /\ Size = nread - Popped
          /\ \A i \in 1..Size : buf[start + i] = stream[Popped + i]
      BY <1>2 DEF IndInv, Aligned
    <3>2. Size' = 0
      <4>1. Size' = Len(buf') - start' /\ Len(buf') = 0
        BY <1>4 DEF Size
      <4> QED BY <1>4, <4>1
    <3>3. Popped' \in 0..nread /\ Len(remote') = nread - Popped'
      <4>1. Len(remote') = Size - Length /\ Popped' = Popped + Length
        BY <2>3, <2>5
      <4>2. Length \in Nat /\ Length <= Size
        BY <2>1
      <4> QED BY <3>a, <3>1, <4>1, <4>2
    <3>4. ASSUME NEW i \in 1..Len(remote') PROVE remote'[i] = stream[Popped' + i]
      <4> DEFINE j == Length + i
      <4>1. i \in 1..(Size - Length)
        BY <2>5
      <4>2. j \in 1..Size /\ Popped + j = Popped' + i
        <5>1. Popped' = Popped + Length /\ Popped \in Nat
          BY <2>3, <3>a, <3>1
        <5> QED BY <2>1, <4>1, <5>1
      <4>3. remote'[i] = buf[start + j]
        BY <2>5, <4>1
      <4> HIDE DEF j
      <4> QED BY <3>1, <4>2, <4>3
    <3> QED BY <1>3, <1>4, <2>3, <3>2, <3>3, <3>4 DEF Aligned
  <2>9. Stage'
    BY <1>4, <2>3, <2>4 DEF Stage
  <2>10. Checked'
    BY <1>2, <1>3, <2>3, <2>4, StillChecked
  <2>11. Settled' /\ ClosedForCause'
    BY <1>4 DEF Settled, ClosedForCause
  <2> QED BY <2>3, <2>6, <2>7, <2>8, <2>9, <2>10, <2>11 DEF IndInv
<1>5. CASE /\ start' = start + Length /\ out' = Append(out, 1)
           /\ IF Size = Length
              THEN UNCHANGED <<state, looping>>
              ELSE state' = "aborted" /\ looping' = FALSE
           /\ UNCHANGED <<buf, remote, target>>
  <2>1. Pop(Length) /\ UNCHANGED <<conf, nread, remote, target>>
    BY <1>1, <1>5 DEF Pop
  <2>2. (state' = "CMD" /\ looping' = looping) \/ (state' = "aborted" /\ looping' = FALSE)
    BY <1>2, <1>5
  <2>3. /\ start' \in 0..Len(buf') /\ UNCHANGED <<handler, stream, buf>>
        /\ msgs' \in Seq(Bytes) /\ ends' \in Seq(Nat) /\ Len(msgs') = Len(msgs) + 1
        /\ \A n \in 1..Len(msgs) : msgs'[n] = msgs[n]
        /\ Taken' /\ Aligned' /\ PortDecoded'
    BY <1>1, <1>2, <2>1, <2>2, Popping
  <2>4. /\ out' \in Seq(Nat) /\ Len(out') = Len(msgs) + 1
        /\ \A n \in 1..Len(msgs) : out'[n] = out[n]
    BY <1>2, <1>5, Answer
  <2>5. Types'
    BY <2>1, <2>2, <2>3, <2>4 DEF IndInv, Types
  <2>6. Stage'
    <3>1. Len(msgs') >= (IF handler = "password" THEN 2 ELSE 1)
      <4>1. Len(msgs') = Len(msgs) + 1
        BY <2>3
      <4> QED BY <1>2, <4>1
    <3> QED BY <2>2, <2>3, <2>4, <3>1 DEF Stage
  <2>7. Checked'
    BY <1>2, <2>3, <2>4, StillChecked
  <2>8. Settled' /\ ClosedForCause'
    BY <1>2, <2>2 DEF Settled, ClosedForCause
  <2> QED BY <2>3, <2>5, <2>6, <2>7, <2>8 DEF IndInv
<1> QED BY <1>4, <1>5 DEF CmdConnect
-----------------------------------------------------------------------------
LEMMA InitInv == Init => IndInv
<1> SUFFICES ASSUME Init PROVE IndInv
  OBVIOUS
<1> USE DEF Init
<1>1. stream \in Bytes /\ Len(stream) \in Nat
  BY HandshakeAssumption, ElementsIn DEF Bytes
<1>2. Len(<<>>) = 0 /\ buf \in Bytes /\ remote \in Bytes
      /\ out \in Seq(Nat) /\ msgs \in Seq(Bytes) /\ ends \in Seq(Nat)
  BY DEF Bytes
<1>3. target \in Ports
  <2>1. 0 \in Ports
    BY PortRange, SMT
  <2> QED BY <2>1
<1>4. Types
  <2>1. nread \in 0..Len(stream) /\ start \in 0..Len(buf)
    BY <1>1, <1>2
  <2>2. /\ handler \in {"default", "password"} /\ stream \in Streams /\ looping \in BOOLEAN
        /\ state \in {"INIT", "AUTH", "CMD", "STREAM", "UDP", "closed", "lost", "aborted"}
    OBVIOUS
  <2> QED BY <1>1, <1>2, <1>3, <2>1, <2>2, Zenon DEF Types
<1>5. Popped = 0 /\ Size = 0
  BY <1>2 DEF Popped, Size
<1>6. Aligned
  BY <1>2, <1>5 DEF Aligned
<1>7. Taken
  BY <1>2 DEF Taken
<1>8. Stage /\ Checked
  BY <1>2 DEF Stage, Checked
<1>9. Settled /\ ClosedForCause /\ PortDecoded
  BY <1>5 DEF Settled, ClosedForCause, PortDecoded
<1> QED BY <1>4, <1>6, <1>7, <1>8, <1>9 DEF IndInv

LEMMA Unchanged == ASSUME IndInv, UNCHANGED vars PROVE IndInv'
<1>1. CASE state = "STREAM"
  <2>1. UNCHANGED <<conf, state, out, history>> /\ UNCHANGED <<nread, looping, buf, start, remote, target>>
    BY DEF vars, queue
  <2>2. /\ Taken' /\ Popped' = Popped /\ UNCHANGED <<handler, stream, out, msgs, ends>>
    BY <2>1, Still DEF IndInv
  <2>3. Types'
    BY <2>1, <2>2 DEF IndInv, Types
  <2>4. Aligned'
    BY <1>1, <2>1, <2>2 DEF IndInv, Aligned, Size
  <2>5. Stage' /\ Checked'
    BY <2>1, StillStage DEF IndInv
  <2>6. Settled' /\ ClosedForCause'
    BY <1>1, <2>1 DEF Settled, ClosedForCause
  <2>7. PortDecoded'
    BY <2>1, <2>2 DEF IndInv, PortDecoded
  <2> QED BY <2>2, <2>3, <2>4, <2>5, <2>6, <2>7 DEF IndInv
<1>2. CASE state # "STREAM"
  <2>1. /\ UNCHANGED <<conf, nread, queue, remote, target, out, history>>
        /\ UNCHANGED <<conf, state, out, history>> /\ looping' = looping
    BY DEF vars
  <2>2. UNCHANGED <<handler, stream, nread, state, buf, start, target, out, msgs, ends>>
    BY DEF vars, conf, queue, history
  <2>3. Size' = Size /\ Input' = Input /\ \A i : At(i)' = At(i)
    BY <2>2 DEF Size, Input, At
  <2>4. Types'
    BY <2>1, <2>2 DEF IndInv, Types
  <2>5. Taken' /\ Popped' = Popped /\ \A n : Place(n)' = Place(n)
    BY <2>1, Still DEF IndInv
  <2>6. Aligned'
    BY <2>1, <2>2, <2>3, <2>5 DEF IndInv, Aligned
  <2>7. Stage' /\ Checked'
    BY <2>1, StillStage DEF IndInv
  <2>8. Settled'
    <3>1. AddrLen' = AddrLen
      BY <2>3 DEF AddrLen
    <3>2. Length' = Length
      BY <2>2, <2>3, <3>1 DEF Length
    <3>3. Reads' = Reads /\ Begun' = Begun /\ WellFormed' = WellFormed
      BY <2>2, <2>3 DEF Reads, Begun, WellFormed
    <3>4. Enough' = Enough
      BY <2>2, <2>3, <3>2 DEF Enough
    <3>5. Stranded' = Stranded
      BY <2>2, <2>5 DEF Stranded
    <3> QED BY <2>1, <2>2, <2>3, <3>3, <3>4, <3>5 DEF IndInv, Settled
  <2>9. ClosedForCause'
    BY <2>2, <2>3, <2>5 DEF IndInv, ClosedForCause
  <2>10. PortDecoded'
    BY <1>2, <2>2 DEF PortDecoded
  <2> QED BY <2>4, <2>5, <2>6, <2>7, <2>8, <2>9, <2>10 DEF IndInv
<1> QED BY <1>1, <1>2

(* The inductive invariant holds: the bytes behind the last message taken    *)
(* are in the input, whatever BufQueue did to its vector, and each state has *)
(* the messages and answers it should.                                      *)
THEOREM Invariance == Spec => []IndInv
<1>1. ASSUME IndInv, [Next]_vars PROVE IndInv'
  <2>1. CASE Read
    BY <1>1, <2>1, ReadStep
  <2>2. CASE Empty
    BY <1>1, <2>2, EmptyStep
  <2>3. CASE Wait
    BY <1>1, <2>3, WaitStep
  <2>4. CASE Reject
    BY <1>1, <2>4, RejectStep
  <2>5. CASE Methods
    BY <1>1, <2>5, MethodsStep
  <2>6. CASE Admit
    BY <1>1, <2>6, AdmitStep
  <2>7. CASE Password
    BY <1>1, <2>7, PasswordStep
  <2>8. CASE CmdConnect
    BY <1>1, <2>8, ConnectStep
  <2>9. CASE CmdUdp
    BY <1>1, <2>9, UdpStep
  <2>10. CASE Unsupported
    BY <1>1, <2>10, UnsupportedStep
  <2>11. CASE Lose
    BY <1>1, <2>11, LoseStep
  <2>12. CASE UNCHANGED vars
    BY <1>1, <2>12, Unchanged
  <2> QED BY <1>1, <2>1, <2>2, <2>3, <2>4, <2>5, <2>6, <2>7, <2>8, <2>9, <2>10, <2>11, <2>12 DEF Next
<1> QED BY InitInv, <1>1, PTL DEF Spec

(* The offset of the queue stays in its vector (BufQueue::pop), and a port   *)
(* fits its 16 bits.                                                        *)
THEOREM TypeCorrect == Spec => []TypeOK
<1>1. IndInv => TypeOK
  BY DEF IndInv, Types, TypeOK, Ports
<1> QED BY <1>1, Invariance, PTL

(* What is given to the handlers and to the remote is the client's stream,   *)
(* in order and without loss or repetition, as the protocol's messages; no   *)
(* command passes a password handler before the right password.             *)
THEOREM FramedAlways == Spec => []Framed
<1>1. ASSUME IndInv PROVE Input \o remote = SubSeq(stream, Popped + 1, nread)
  <2> DEFINE k == nread - Popped
             c == Cut(stream, Popped, k)
             t == Join(Input, remote)
  <2>1. /\ Popped \in Nat /\ nread \in Nat /\ nread <= Len(stream) /\ k \in Nat /\ Popped + k = nread
        /\ Popped + k <= Len(stream) /\ Len(stream) \in Nat /\ stream \in Seq(Byte)
    <3>1. Len(stream) \in Nat /\ nread \in 0..Len(stream) /\ Popped \in 0..nread /\ stream \in Seq(Byte)
      BY <1>1, ElementsIn DEF IndInv, Types, Aligned, Bytes
    <3> QED BY <3>1
  <2>2. c = SubSeq(stream, Popped + 1, nread)
    <3>1. c = SubSeq(stream, Popped + 1, Popped + k)
      BY Zenon DEF Cut
    <3> HIDE DEF k, c
    <3> QED BY <2>1, <3>1
  <2>3. t = Input \o remote
    BY Zenon DEF Join
  <2>4. k = nread - Popped
    OBVIOUS
  <2> HIDE DEF k
  <2>a. stream \in Seq(Byte) /\ Popped \in Nat /\ k \in Nat /\ Popped + k <= Len(stream)
    BY <2>1
  <2>5. c \in Seq(Byte) /\ Len(c) = k /\ \A i \in 1..k : c[i] = stream[Popped + i]
    BY <2>a, CutParts, Zenon
  <2>6. /\ Input \in Nats /\ remote \in Nats /\ Len(Input) = Size /\ Size \in Nat /\ Len(remote) \in Nat
        /\ \A i \in 1..Size : Input[i] = buf[start + i]
    <3>1. Input \in Bytes /\ remote \in Bytes
      BY <1>1, InputIs DEF IndInv, Types
    <3>2. Input \in Nats /\ remote \in Nats /\ Len(remote) \in Nat
      BY <3>1, Widened, ElementsIn DEF Nats
    <3> QED BY <1>1, <3>2, InputIs, SizeIs DEF IndInv
  <2>b. Input \in Nats /\ remote \in Nats
    BY <2>6
  <2>7. /\ t \in Nats /\ Len(t) = Len(Input) + Len(remote)
        /\ \A i \in 1..Len(Input) : t[i] = Input[i]
        /\ \A i \in 1..Len(remote) : t[Len(Input) + i] = remote[i]
    BY <2>b, JoinNats, Zenon
  <2> HIDE DEF c, t
  <2>8. /\ Len(t) = k
        /\ \A i \in 1..k : t[i] = stream[Popped + i]
    <3>1. CASE state # "STREAM"
      <4>1. /\ remote = <<>> /\ Size = k
            /\ \A i \in 1..Size : buf[start + i] = stream[Popped + i]
        BY <1>1, <2>4, <3>1 DEF IndInv, Aligned
      <4>2. Len(remote) = 0
        BY <4>1
      <4>3. Len(t) = k
        BY <2>6, <2>7, <4>1, <4>2
      <4> QED BY <2>6, <2>7, <4>1, <4>3
    <3>2. CASE state = "STREAM"
      <4>1. /\ Size = 0 /\ Len(remote) = k
            /\ \A i \in 1..Len(remote) : remote[i] = stream[Popped + i]
        BY <1>1, <2>4, <3>2 DEF IndInv, Aligned
      <4>2. \A i \in 1..k : Len(Input) + i = i
        BY <2>1, <2>6, <4>1
      <4>3. Len(t) = k
        BY <2>1, <2>6, <2>7, <4>1
      <4> QED BY <2>7, <4>1, <4>2, <4>3
    <3> QED BY <3>1, <3>2
  <2>9. c \in Nats /\ Len(t) = Len(c) /\ \A i \in 1..Len(t) : t[i] = c[i]
    BY <2>5, <2>8, Widened DEF Bytes
  <2>10. t = c
    BY <2>7, <2>9, Same
  <2> QED BY <2>2, <2>3, <2>10
<1>2. ASSUME IndInv, NEW n \in DOMAIN msgs
      PROVE  /\ msgs[n] = SubSeq(stream, IF n = 1 THEN 1 ELSE 1 + ends[n - 1], ends[n])
             /\ Belongs(msgs[n], Place(n))
             /\ Place(n) = "AUTH" => (out[n] = 0 <=> Accepted(msgs[n]))
             /\ n > 2 /\ handler = "password" => out[2] = 0
  <2>1. n \in 1..Len(msgs) /\ Len(msgs) \in Nat
    BY <1>2, ElementsIn, LenProperties DEF IndInv, Types
  <2>2. /\ msgs[n] = SubSeq(stream, IF n = 1 THEN 1 ELSE 1 + ends[n - 1], ends[n])
        /\ Belongs(msgs[n], Place(n))
    BY <1>2, <2>1, Zenon DEF IndInv, Taken, Begins
  <2>3. Place(n) = "AUTH" => (out[n] = 0 <=> Accepted(msgs[n]))
    <3>1. Place(n) = "AUTH" => n = 2 /\ handler = "password"
      BY DEF Place
    <3>2. n = 2 => Len(msgs) > 1
      BY <2>1
    <3> QED BY <1>2, <3>1, <3>2 DEF IndInv, Checked
  <2>4. n > 2 /\ handler = "password" => out[2] = 0
    <3>1. n > 2 => Len(msgs) > 2
      BY <2>1
    <3> QED BY <1>2, <3>1 DEF IndInv, Checked
  <2> QED BY <2>2, <2>3, <2>4
<1>3. ASSUME IndInv PROVE Len(out) = Len(msgs) \/ (state = "closed" /\ Len(msgs) = Len(out) + 1)
  BY <1>3 DEF IndInv, Stage
<1>a. ASSUME IndInv PROVE state = "STREAM" => Size = 0
  BY <1>a DEF IndInv, Aligned
<1>4. IndInv => Framed
  BY <1>1, <1>2, <1>3, <1>a, Zenon DEF Framed
<1> QED BY <1>4, Invariance, PTL

(* However reads cut what a client sends, a whole message is never left      *)
(* waiting, nor, once their fixed part is there, are bytes that begin no     *)
(* message, but for the exceptions EmptyField and Stranded.                 *)
THEOREM PromptAlways == Spec => []Prompt
<1>1. ASSUME IndInv, ~looping, state \in {"INIT", "AUTH", "CMD"}, ~Stranded
      PROVE  /\ \A n \in 1..Size :
                  Belongs(First(n), Place(Len(msgs) + 1)) => EmptyField(First(n))
             /\ ~Malformed(Input, Place(Len(msgs) + 1))
  <2>1. Size = 0 \/ (Reads /\ (Begun => WellFormed /\ ~Enough))
    BY <1>1 DEF IndInv, Settled
  <2>2. CASE Size = 0
    <3>1. Len(Input) = 0
      BY <1>1, <2>2, InputIs DEF IndInv
    <3>2. \A place : ~Malformed(Input, place)
      BY <3>1 DEF Malformed
    <3> QED BY <2>2, <3>2
  <2>3. CASE Reads /\ (Begun => WellFormed /\ ~Enough)
    <3>1. Place(Len(msgs) + 1) = state
      BY <1>1, <2>3, PlaceNext DEF IndInv, Reads
    <3>2. ~Malformed(Input, Place(Len(msgs) + 1))
      BY <1>1, <2>3, <3>1, MalformedIs DEF IndInv
    <3>3. ASSUME NEW n \in 1..Size, Belongs(First(n), Place(Len(msgs) + 1))
          PROVE  EmptyField(First(n))
      <4>1. /\ state # "INIT"
            /\ state = "AUTH" => First(n)[3 + First(n)[2]] = 0 \/ Len(First(n)) = 4
            /\ state = "CMD" => First(n)[4] = Domain /\ First(n)[5] = 0
        BY <1>1, <2>3, <3>1, <3>3, NotWhole DEF IndInv
      <4> QED BY <1>1, <3>1, <4>1 DEF EmptyField
    <3> QED BY <3>2, <3>3
  <2> QED BY <2>1, <2>2, <2>3
<1>2. IndInv => Prompt
  BY <1>1 DEF Prompt
<1> QED BY <1>2, Invariance, PTL

(* The server closes a client by itself only for a wrong password, for bytes *)
(* behind a UDP association, or for what no message begins with.            *)
THEOREM ClosedWithCause == Spec => []ClosedForCause
<1>1. IndInv => ClosedForCause
  BY DEF IndInv
<1> QED BY <1>1, Invariance, PTL

(* The port connected to is the command's, unless char is signed and the     *)
(* port's low byte is 128 or more (parse of CMD_CONNECT, server.cpp).        *)
THEOREM PortAlwaysDecoded == Spec => []PortDecoded
<1>1. IndInv => PortDecoded
  BY DEF IndInv
<1> QED BY <1>1, Invariance, PTL
-----------------------------------------------------------------------------
(* Both modules mean the same messages.                                      *)
LEMMA SameMessages ==
    ASSUME NEW m, NEW place
    PROVE  /\ Dialogue!Belongs(m, place) <=> Belongs(m, place)
           /\ Dialogue!Malformed(m, place) <=> Malformed(m, place)
           /\ Dialogue!Accepted(m) <=> Accepted(m)
  <1>1. Dialogue!Belongs(m, place) <=> Belongs(m, place)
    BY Zenon DEF Dialogue!Belongs, Belongs, Dialogue!IsMethods, IsMethods, Dialogue!IsPassword,
       IsPassword, Dialogue!IsCommand, IsCommand, Dialogue!Ipv4, Ipv4, Dialogue!Ipv6, Ipv6,
       Dialogue!Domain, Domain
  <1>2. Dialogue!Malformed(m, place) <=> Malformed(m, place)
    BY Zenon DEF Dialogue!Malformed, Malformed, Dialogue!Ipv4, Ipv4, Dialogue!Ipv6, Ipv6,
       Dialogue!Domain, Domain
  <1>3. Dialogue!Accepted(m) <=> Accepted(m)
    BY Zenon DEF Dialogue!Accepted, Accepted
  <1> QED BY <1>1, <1>2, <1>3

(* What lies at the head of the input is what comes next in the stream.      *)
LEMMA NextInStream ==
    ASSUME IndInv, state # "STREAM", NEW n \in 1..Size
    PROVE  /\ First(n) = SubSeq(stream, Popped + 1, Popped + n)
           /\ Popped \in Nat /\ nread \in Nat /\ Size = nread - Popped /\ nread <= Len(stream)
           /\ n \in 1..(Len(stream) - Popped) /\ Len(stream) \in Nat
  <1>1. /\ Popped \in Nat /\ nread \in Nat /\ Size = nread - Popped /\ nread <= Len(stream)
        /\ Len(stream) \in Nat /\ stream \in Seq(Byte) /\ Size \in Nat
    BY ElementsIn, SizeIs DEF IndInv, Types, Aligned, Bytes
  <1>2. n \in Nat /\ n <= Size /\ Popped + n <= Len(stream) /\ n \in 1..(Len(stream) - Popped)
    BY <1>1
  <1>3. /\ First(n) \in Bytes /\ Len(First(n)) = n
        /\ \A i \in 1..n : First(n)[i] = buf[start + i]
    BY <1>2, Heads DEF IndInv
  <1>4. /\ Cut(stream, Popped, n) \in Bytes /\ Len(Cut(stream, Popped, n)) = n
        /\ \A i \in 1..n : Cut(stream, Popped, n)[i] = stream[Popped + i]
    <2>1. stream \in Seq(Byte) /\ Popped \in Nat /\ n \in Nat /\ Popped + n <= Len(stream)
      BY <1>1, <1>2
    <2> QED BY ONLY <2>1, CutParts, Zenon DEF Bytes
  <1>5. \A i \in 1..Size : buf[start + i] = stream[Popped + i]
    BY DEF IndInv, Aligned
  <1>6. \A i \in 1..n : First(n)[i] = Cut(stream, Popped, n)[i]
    <2> TAKE i \in 1..n
    <2>1. i \in 1..Size
      BY <1>1, <1>2
    <2> QED BY <1>3, <1>4, <1>5, <2>1
  <1>7. First(n) = Cut(stream, Popped, n)
    BY <1>3, <1>4, <1>6, Widened, Same
  <1> QED BY <1>1, <1>2, <1>7, Zenon DEF Cut

(* A message that is taken is the dialogue's next.                           *)
LEMMA TakesNext ==
    ASSUME IndInv, NEW s \in {"INIT", "AUTH", "CMD"}, Message(s), s = "AUTH" => handler = "password",
           Takes(Length), UNCHANGED conf
    PROVE  /\ Length \in 1..Dialogue!Left /\ Dialogue!Belongs(First(Length), s)
           /\ First(Length) = SubSeq(stream, Popped + 1, Popped + Length)
           /\ Popped' = Popped + Length /\ handler' = handler /\ stream' = stream
           /\ Size \in Nat /\ Length \in Nat /\ Popped \in Nat /\ nread \in Nat
           /\ Size = nread - Popped /\ nread <= Len(stream) /\ Len(stream) \in Nat
           /\ Dialogue!Left' = Dialogue!Left - Length
  <1>1. state = s
    BY DEF Message, Meets
  <1>2. Length \in 3..Size /\ Size \in Nat
    BY Lengths, SizeIs DEF IndInv
  <1>3. Length \in 1..Size /\ Length \in Nat
    BY <1>2
  <1>4. /\ First(Length) = SubSeq(stream, Popped + 1, Popped + Length)
        /\ Popped \in Nat /\ nread \in Nat /\ Size = nread - Popped /\ nread <= Len(stream)
        /\ Length \in 1..(Len(stream) - Popped) /\ Len(stream) \in Nat
    BY <1>1, <1>3, NextInStream
  <1>5. Dialogue!Belongs(First(Length), s)
    BY FirstBelongs, SameMessages DEF IndInv
  <1>6. Place(Len(msgs) + 1) = s
    BY <1>1, PlaceNext DEF IndInv
  <1>7. Popped' = Popped + Length
    BY <1>6, Taking DEF IndInv
  <1>8. handler' = handler /\ stream' = stream
    BY DEF conf
  <1>9. Dialogue!Left = Len(stream) - Popped /\ Dialogue!Left' = Len(stream') - Popped'
    BY DEF Dialogue!Left
  <1>10. Dialogue!Left' = Dialogue!Left - Length
    BY <1>3, <1>4, <1>7, <1>8, <1>9
  <1> QED BY <1>2, <1>3, <1>4, <1>5, <1>7, <1>8, <1>9, <1>10

(* Everything but a message that is taken, and the ends, is no step of it.   *)
LEMMA NoExchange ==
    ASSUME IndInv, UNCHANGED <<conf, remote, out, history>>, Turn' = Turn
    PROVE  UNCHANGED Dialogue!dialogueVars
  <1>1. Popped' = Popped /\ handler' = handler /\ stream' = stream /\ out' = out /\ remote' = remote
    BY Still DEF IndInv
  <1> QED BY <1>1 DEF Dialogue!dialogueVars

LEMMA QuietExchanges ==
    ASSUME IndInv, Read \/ Empty \/ Wait \/ Admit
    PROVE  UNCHANGED Dialogue!dialogueVars
  <1>1. UNCHANGED <<conf, remote, out, history>> /\ Turn' = Turn
    BY DEF Read, Empty, Wait, Admit, Meets, Turn, conf
  <1> QED BY <1>1, NoExchange

(* A client that leaves or is closed for what it sent.                       *)
LEMMA LoseExchange == ASSUME IndInv, Lose PROVE Dialogue!Loss
  <1>1. Popped' = Popped /\ handler' = handler /\ stream' = stream /\ out' = out /\ remote' = remote
    BY Still DEF IndInv, Lose
  <1>2. Turn \in {"INIT", "AUTH", "CMD", "UDP"} /\ Turn' = "lost"
    BY DEF Lose, Turn
  <1> QED BY <1>1, <1>2 DEF Dialogue!Loss

LEMMA RejectExchange == ASSUME IndInv, Reject PROVE Dialogue!Violation
  <1>1. Popped' = Popped /\ handler' = handler /\ stream' = stream /\ out' = out /\ remote' = remote
    BY Still DEF IndInv, Reject
  <1>2. Turn' = "closed"
    BY DEF Reject, Close, Turn
  <1>3. state # "STREAM" /\ Size > 0 /\ Size \in Nat
    BY SizeIs DEF Reject, Meets, Reads, IndInv
  <1>4. /\ Size \in 1..Dialogue!Left /\ Size \in 1..Size
        /\ First(Size) = SubSeq(stream, Popped + 1, Popped + Size) /\ Dialogue!Left > 0
    BY <1>3, NextInStream DEF Dialogue!Left
  <1>5. CASE Reads /\ Meets(state) /\ Begun /\ ~WellFormed
    <2>1. Turn = state /\ state \in {"INIT", "AUTH", "CMD"}
      BY <1>5 DEF Reads, Turn
    <2>2. Dialogue!Malformed(Input, Turn)
      BY <1>5, <2>1, MalformedIs, SameMessages DEF IndInv
    <2>3. Dialogue!Malformed(SubSeq(stream, Popped + 1, Popped + Size), Turn)
      BY <1>4, <2>2, InputIs DEF IndInv
    <2> QED BY <1>1, <1>2, <1>4, <2>1, <2>3 DEF Dialogue!Violation
  <1>6. CASE Meets("UDP")
    <2>1. Turn = "UDP"
      BY <1>6 DEF Meets, Turn
    <2> QED BY <1>1, <1>2, <1>4, <2>1 DEF Dialogue!Violation
  <1> QED BY <1>5, <1>6 DEF Reject

(* The method that is chosen is the one the dialogue's handler names.        *)
LEMMA Offered ==
    ASSUME IndInv, Message("INIT")
    PROVE  Chosen(ToSet(SubSeq(First(Length), 3, Length))) =
             IF handler = "password" /\ \E i \in 3..Len(First(Length)) : First(Length)[i] = Username
             THEN Username ELSE None
  <1> DEFINE m == First(Length)
             k == Length - 2
             methods == Cut(m, 2, k)
  <1>1. Length \in 3..Size /\ Size \in Nat
    BY Lengths, SizeIs DEF IndInv
  <1>2. /\ m \in Seq(Byte) /\ Len(m) = Length /\ Length \in Nat /\ k \in Nat /\ 2 + k = Length
        /\ 2 \in Nat /\ 2 + k <= Len(m)
    BY <1>1, FirstIs DEF IndInv, Bytes
  <1>3. methods \in Seq(Byte) /\ Len(methods) = k /\ \A i \in 1..k : methods[i] = m[2 + i]
    <2>1. m \in Seq(Byte) /\ 2 \in Nat /\ k \in Nat /\ 2 + k <= Len(m)
      BY <1>2
    <2> HIDE DEF m, k
    <2> QED BY <2>1, CutParts, Zenon
  <1>4. methods = SubSeq(m, 3, Length)
    <2>1. 2 + 1 = 3
      OBVIOUS
    <2> HIDE DEF m, k
    <2> QED BY <1>2, <2>1, Zenon DEF Cut
  <1> HIDE DEF m, methods
  <1>5. Username \in ToSet(methods) <=> \E i \in 1..k : methods[i] = Username
    <2>1. DOMAIN methods = 1..k
      BY <1>3, LenProperties
    <2> QED BY <2>1 DEF ToSet
  <1>6. (\E i \in 1..k : methods[i] = Username) <=> (\E i \in 3..Len(m) : m[i] = Username)
    <2>1. ASSUME NEW i \in 1..k, methods[i] = Username PROVE \E j \in 3..Len(m) : m[j] = Username
      <3>1. 2 + i \in 3..Len(m) /\ m[2 + i] = Username
        BY <1>2, <1>3, <2>1
      <3> QED BY <3>1
    <2>2. ASSUME NEW j \in 3..Len(m), m[j] = Username PROVE \E i \in 1..k : methods[i] = Username
      <3>1. j - 2 \in 1..k /\ 2 + (j - 2) = j
        BY <1>2, <2>2
      <3>2. methods[j - 2] = Username
        BY <1>3, <2>2, <3>1
      <3> QED BY <3>1, <3>2
    <2> QED BY <2>1, <2>2
  <1> QED BY <1>4, <1>5, <1>6 DEF Chosen, m

(* Greeting, name and password, command: each is the dialogue's.             *)
LEMMA MethodsExchange == ASSUME IndInv, Methods PROVE Dialogue!Exchange
  <1> DEFINE m == First(Length)
  <1>1. /\ Message("INIT") /\ Takes(Length) /\ state = "INIT" /\ UNCHANGED conf
        /\ remote' = remote /\ state' = "AUTH"
        /\ out' = Append(out, Chosen(ToSet(SubSeq(m, 3, Length))))
    BY DEF Methods, Pop, Message, Meets
  <1>2. /\ Length \in 1..Dialogue!Left /\ Dialogue!Belongs(m, "INIT")
        /\ m = SubSeq(stream, Popped + 1, Popped + Length)
        /\ Popped' = Popped + Length /\ handler' = handler /\ stream' = stream
    BY <1>1, TakesNext
  <1>3. Turn = "INIT" /\ Turn' = IF handler = "default" THEN "CMD" ELSE "AUTH"
    BY <1>1, <1>2 DEF Turn
  <1>4. handler \in {"default", "password"}
    BY DEF IndInv, Types
  <1>5. out' = Append(out, IF handler = "password" /\ \E i \in 3..Len(m) : m[i] = Username
                           THEN Username ELSE None)
    BY <1>1, Offered
  <1> HIDE DEF m
  <1>6. Dialogue!Greeted(m)
    <2>1. CASE handler = "default"
      <3>1. Dialogue!Answer(Dialogue!None, "CMD")
        BY <1>1, <1>3, <1>5, <2>1 DEF Dialogue!Answer, Dialogue!None, None
      <3> QED BY <1>3, <2>1, <3>1 DEF Dialogue!Greeted
    <2>2. CASE handler = "password"
      <3>1. Dialogue!Answer(IF \E i \in 3..Len(m) : m[i] = Dialogue!Username
                            THEN Dialogue!Username ELSE Dialogue!None, "AUTH")
        BY <1>1, <1>3, <1>5, <2>2 DEF Dialogue!Answer, Dialogue!None, None, Dialogue!Username, Username
      <3> QED BY <1>3, <2>2, <3>1 DEF Dialogue!Greeted
    <2> QED BY <1>4, <2>1, <2>2
  <1> QED BY <1>2, <1>3, <1>6, Zenon DEF Dialogue!Exchange

LEMMA PasswordExchange == ASSUME IndInv, Password PROVE Dialogue!Exchange
  <1> DEFINE m == First(Length)
             right == <<SubSeq(m, 3, 2 + At(1)), SubSeq(m, 2 + At(1) + 2, Length)>> \in Users
  <1>1. /\ Message("AUTH") /\ Takes(Length) /\ state = "AUTH" /\ UNCHANGED conf
        /\ handler = "password" /\ remote' = remote
    BY DEF Password, Pop, Message, Meets
  <1>2. \/ right /\ out' = Append(out, 0) /\ state' = "CMD"
        \/ ~right /\ out' = Append(out, 1) /\ state' = "closed"
    BY Zenon DEF Password, Close
  <1>3. right <=> Dialogue!Accepted(m)
    BY <1>1, Verdict, SameMessages, Zenon DEF IndInv
  <1>4. /\ Length \in 1..Dialogue!Left /\ Dialogue!Belongs(m, "AUTH")
        /\ m = SubSeq(stream, Popped + 1, Popped + Length)
        /\ Popped' = Popped + Length /\ handler' = handler /\ stream' = stream
    BY <1>1, TakesNext
  <1>5. Turn = "AUTH" /\ Turn' = state'
    BY <1>1, <1>4 DEF Turn
  <1> HIDE DEF m, right
  <1>6. Dialogue!Named(m)
    BY <1>1, <1>2, <1>3, <1>5 DEF Dialogue!Named, Dialogue!Answer
  <1> QED BY <1>4, <1>5, <1>6, Zenon DEF Dialogue!Exchange

LEMMA CommandExchange ==
    ASSUME IndInv, Message("CMD"), Takes(Length), UNCHANGED conf,
           Dialogue!Commanded(First(Length))
    PROVE  Dialogue!Exchange
  <1> DEFINE m == First(Length)
  <1>1. /\ Length \in 1..Dialogue!Left /\ Dialogue!Belongs(m, "CMD")
        /\ m = SubSeq(stream, Popped + 1, Popped + Length)
        /\ Popped' = Popped + Length /\ handler' = handler /\ stream' = stream
    BY TakesNext
  <1>2. Turn = "CMD"
    BY DEF Message, Meets, Turn
  <1>3. Dialogue!Commanded(m)
    OBVIOUS
  <1> HIDE DEF m
  <1> QED BY <1>1, <1>2, <1>3, Zenon DEF Dialogue!Exchange

LEMMA UnsupportedExchange == ASSUME IndInv, Unsupported PROVE Dialogue!Exchange
  <1>1. /\ Message("CMD") /\ Takes(Length) /\ UNCHANGED conf /\ state = "CMD" /\ state' = "CMD"
        /\ remote' = remote /\ out' = Append(out, 1)
    BY DEF Unsupported, Pop, Message, Meets
  <1>2. Turn = "CMD" /\ Turn' = "CMD"
    BY <1>1 DEF Turn
  <1>3. Dialogue!Commanded(First(Length))
    BY <1>1, <1>2 DEF Dialogue!Commanded, Dialogue!Answer
  <1> QED BY <1>1, <1>3, CommandExchange

LEMMA UdpExchange == ASSUME IndInv, CmdUdp PROVE Dialogue!Exchange
  <1> DEFINE m == First(Length)
  <1>1. /\ Message("CMD") /\ Takes(Length) /\ UNCHANGED conf /\ state = "CMD" /\ remote' = remote
        /\ m[2] = Udp
    BY Commanded DEF CmdUdp, Pop, Message, Meets
  <1>2. \/ Size > Length /\ state' = "closed" /\ out' = out
        \/ out' = Append(out, 0) /\ state' = "UDP"
        \/ out' = Append(out, 1) /\ state' = "CMD"
    <2>1. CASE Size > Length
      BY <2>1 DEF CmdUdp, Close
    <2>2. CASE ~(Size > Length)
      <3>1. PICK code \in {0, 1} : /\ out' = Append(out, code)
                                   /\ state' = IF code = 0 THEN "UDP" ELSE state
        BY <2>2 DEF CmdUdp
      <3> QED BY <1>1, <3>1
    <2> QED BY <2>1, <2>2
  <1>3. /\ Size \in Nat /\ Length \in Nat /\ Popped \in Nat /\ nread \in Nat /\ Len(stream) \in Nat
        /\ Size = nread - Popped /\ nread <= Len(stream) /\ Dialogue!Left' = Dialogue!Left - Length
    BY <1>1, TakesNext
  <1>4. Size > Length => Dialogue!Left' > 0
    BY <1>3 DEF Dialogue!Left
  <1>5. Turn = "CMD" /\ Turn' = state'
    BY <1>1, <1>2 DEF Turn
  <1>6. m[2] = Dialogue!Udp
    BY <1>1 DEF Dialogue!Udp, Udp
  <1> HIDE DEF m
  <1>7. Dialogue!Commanded(m)
    BY <1>1, <1>2, <1>4, <1>5, <1>6 DEF Dialogue!Commanded, Dialogue!Answer
  <1> QED BY <1>1, <1>7, CommandExchange DEF m

(* What the remote is given at CONNECT is the stream behind the command.     *)
LEMMA Handed ==
    ASSUME IndInv', state' = "STREAM"
    PROVE  /\ remote' = SubSeq(stream', Popped' + 1, nread')
           /\ nread' \in Popped'..Len(stream')
  <1> DEFINE k == nread' - Popped'
             c == Cut(stream', Popped', k)
  <1>1. /\ Popped' \in 0..nread' /\ nread' \in 0..Len(stream') /\ stream' \in Seq(Byte)
        /\ remote' \in Bytes /\ Len(remote') = k
        /\ \A i \in 1..Len(remote') : remote'[i] = stream'[Popped' + i]
    BY DEF IndInv, Types, Aligned, Bytes
  <1>2. Len(stream') \in Nat
    BY <1>1, ElementsIn
  <1>3. /\ Popped' \in Nat /\ nread' \in Nat /\ k \in Nat /\ Popped' + k = nread'
        /\ Popped' + k <= Len(stream') /\ nread' \in Popped'..Len(stream')
    <2>1. Popped' \in 0..nread' /\ nread' \in 0..Len(stream')
      BY <1>1
    <2>2. \A l \in Nat : \A q \in 0..l : \A p \in 0..q :
            /\ p \in Nat /\ q \in Nat /\ q - p \in Nat /\ p + (q - p) = q
            /\ p + (q - p) <= l /\ q \in p..l
      OBVIOUS
    <2> QED BY <1>2, <2>1, <2>2, Zenon
  <1>4. c \in Seq(Byte) /\ Len(c) = k /\ \A i \in 1..k : c[i] = stream'[Popped' + i]
    <2>1. stream' \in Seq(Byte) /\ Popped' \in Nat /\ k \in Nat /\ Popped' + k <= Len(stream')
      BY <1>1, <1>3
    <2> HIDE DEF k
    <2> QED BY <2>1, CutParts, Zenon
  <1>5. c = SubSeq(stream', Popped' + 1, nread')
    <2>1. c = SubSeq(stream', Popped' + 1, Popped' + k)
      BY Zenon DEF Cut
    <2> HIDE DEF k, c
    <2> QED BY <1>3, <2>1
  <1> HIDE DEF k, c
  <1>6. remote' = c
    BY <1>1, <1>4, Widened, Same DEF Bytes
  <1> QED BY <1>3, <1>5, <1>6

LEMMA ConnectExchange == ASSUME IndInv, CmdConnect PROVE Dialogue!Exchange
  <1> DEFINE m == First(Length)
  <1>1. /\ Message("CMD") /\ Takes(Length) /\ UNCHANGED conf /\ state = "CMD" /\ nread' = nread
        /\ m[2] = Connect
    BY Commanded DEF CmdConnect, Message, Meets
  <1>2. \/ out' = Append(out, 0) /\ state' = "STREAM"
        \/ /\ out' = Append(out, 1) /\ remote' = remote
           /\ state' = "CMD" \/ (Size # Length /\ state' = "aborted")
    BY <1>1 DEF CmdConnect
  <1>3. /\ Size \in Nat /\ Length \in Nat /\ Popped \in Nat /\ nread \in Nat /\ Len(stream) \in Nat
        /\ Size = nread - Popped /\ nread <= Len(stream) /\ Dialogue!Left' = Dialogue!Left - Length
    BY <1>1, TakesNext
  <1>4. Length <= Size
    BY <1>1, Lengths DEF IndInv
  <1>5. Size # Length => Dialogue!Left' > 0
    BY <1>3, <1>4 DEF Dialogue!Left
  <1>6. Turn = "CMD" /\ Turn' = state'
    BY <1>1, <1>2 DEF Turn
  <1>7. m[2] = Dialogue!Connect
    BY <1>1 DEF Dialogue!Connect, Connect
  <1>8. ASSUME state' = "STREAM"
        PROVE  \E n \in Popped'..Len(stream') : remote' = SubSeq(stream', Popped' + 1, n)
    <2>1. IndInv'
      BY ConnectStep
    <2> QED BY <1>8, <2>1, Handed
  <1>9. stream' = stream
    BY <1>1 DEF conf
  <1> HIDE DEF m
  <1>10. Dialogue!Commanded(m)
    <2>1. CASE out' = Append(out, 0) /\ state' = "STREAM"
      <3>1. Dialogue!Connected
        BY <1>6, <1>8, <1>9, <2>1, Zenon DEF Dialogue!Connected
      <3> QED BY <1>6, <1>7, <3>1 DEF Dialogue!Commanded
    <2>2. CASE /\ out' = Append(out, 1) /\ remote' = remote
               /\ state' = "CMD" \/ (Size # Length /\ state' = "aborted")
      BY <1>5, <1>6, <1>7, <2>2 DEF Dialogue!Commanded, Dialogue!Answer
    <2> QED BY <1>2, <2>1, <2>2
  <1> QED BY <1>1, <1>10, CommandExchange DEF m

(* Of the bytes behind a position of a stream at most one part is a message. *)
LEMMA OneReading ==
    ASSUME NEW s \in Bytes, NEW p \in Nat, NEW k \in Nat, NEW n \in Nat,
           p + k <= Len(s), p + n <= Len(s), NEW place,
           Belongs(SubSeq(s, p + 1, p + k), place), Belongs(SubSeq(s, p + 1, p + n), place)
    PROVE  k = n
  <1> DEFINE a == Cut(s, p, k)
             b == Cut(s, p, n)
  <1>1. Belongs(a, place) /\ Belongs(b, place)
    BY Zenon DEF Cut
  <1>2. /\ a \in Seq(Byte) /\ Len(a) = k /\ \A i \in 1..k : a[i] = s[p + i]
        /\ b \in Seq(Byte) /\ Len(b) = n /\ \A i \in 1..n : b[i] = s[p + i]
    <2>1. s \in Seq(Byte)
      BY DEF Bytes
    <2>2. a \in Seq(Byte) /\ Len(a) = k /\ \A i \in 1..k : a[i] = s[p + i]
      BY <2>1, CutParts, Zenon
    <2>3. b \in Seq(Byte) /\ Len(b) = n /\ \A i \in 1..n : b[i] = s[p + i]
      BY <2>1, CutParts, Zenon
    <2> QED BY <2>2, <2>3
  <1>3. \A i \in Nat : i \in 1..k /\ i \in 1..n => a[i] = b[i] /\ a[i] \in Nat
    <2>1. \A i \in 1..k : a[i] \in Byte
      BY <1>2, ElementsIn
    <2> HIDE DEF a, b
    <2>4. \A x \in Byte : x \in Nat
      BY DEF Byte
    <2>2. \A i \in 1..k : a[i] \in Nat
      BY <2>1, <2>4, Zenon
    <2>3. (\A i \in 1..k : a[i] = s[p + i]) /\ (\A i \in 1..n : b[i] = s[p + i])
      BY <1>2
    <2> QED BY <2>2, <2>3, Zenon
  <1> HIDE DEF a, b
  <1>4. CASE place = "INIT"
    <2>1. IsMethods(a) /\ IsMethods(b)
      BY <1>1, <1>4 DEF Belongs
    <2>2. k >= 3 /\ n >= 3 /\ k = 2 + a[2] /\ n = 2 + b[2]
      BY <1>2, <2>1 DEF IsMethods
    <2>3. a[2] = b[2]
      BY <1>3, <2>2
    <2> QED BY <2>2, <2>3
  <1>5. CASE place = "AUTH"
    <2>1. IsPassword(a) /\ IsPassword(b)
      BY <1>1, <1>5 DEF Belongs
    <2>2. /\ k >= 3 /\ n >= 3 /\ k >= 3 + a[2] /\ n >= 3 + b[2]
          /\ k = 3 + a[2] + a[3 + a[2]] /\ n = 3 + b[2] + b[3 + b[2]]
      BY <1>2, <2>1 DEF IsPassword
    <2>3. a[2] = b[2] /\ a[2] \in Nat
      BY <1>3, <2>2
    <2>4. 3 + a[2] \in Nat /\ 3 + a[2] \in 1..k /\ 3 + a[2] \in 1..n
      BY <2>2, <2>3
    <2>5. a[3 + a[2]] = b[3 + a[2]]
      BY <1>3, <2>4
    <2> QED BY <2>2, <2>3, <2>5
  <1>6. CASE place # "INIT" /\ place # "AUTH"
    <2>1. IsCommand(a) /\ IsCommand(b)
      BY <1>1, <1>6 DEF Belongs
    <2>2. /\ k >= 7 /\ n >= 7
          /\ (a[4] = 1 /\ k = 10) \/ (a[4] = 4 /\ k = 22) \/ (a[4] = 3 /\ k = 7 + a[5])
          /\ (b[4] = 1 /\ n = 10) \/ (b[4] = 4 /\ n = 22) \/ (b[4] = 3 /\ n = 7 + b[5])
      BY <1>2, <2>1 DEF IsCommand, Ipv4, Ipv6, Domain
    <2>3. a[4] = b[4] /\ a[5] = b[5]
      BY <1>3, <2>2
    <2> QED BY <2>2, <2>3
  <1> QED BY <1>4, <1>5, <1>6

(* Every message that was taken ends within what was popped.                 *)
Within == \A n \in 1..Len(ends) : ends[n] <= Popped

LEMMA HistoryStep ==
    ASSUME IndInv, [Next]_vars
    PROVE  \/ ends' = ends
           \/ ends' = Append(ends, Popped + Length) /\ Length \in Nat
  <1>1. CASE Read \/ Empty \/ Wait \/ Reject \/ Admit \/ Lose \/ UNCHANGED vars
    BY <1>1 DEF Read, Empty, Wait, Reject, Admit, Lose, vars, history
  <1>2. CASE Methods \/ Password \/ CmdConnect \/ CmdUdp \/ Unsupported
    <2>1. PICK s \in {"INIT", "AUTH", "CMD"} : Message(s)
      BY <1>2 DEF Methods, Password, CmdConnect, CmdUdp, Unsupported
    <2>2. Takes(Length)
      BY <1>2 DEF Methods, Password, CmdConnect, CmdUdp, Unsupported, Pop
    <2>3. Length \in 3..Size /\ Size \in Nat
      BY <2>1, Lengths, SizeIs DEF IndInv
    <2> QED BY <2>2, <2>3 DEF Takes
  <1> QED BY <1>1, <1>2 DEF Next

LEMMA WithinStep == ASSUME IndInv, Within, [Next]_vars PROVE Within'
  <1>1. ends \in Seq(Nat) /\ Len(ends) \in Nat /\ Popped \in Nat
        /\ \A n \in 1..Len(ends) : ends[n] \in Nat
    BY ElementsIn, PoppedIs DEF IndInv, Types
  <1>2. CASE ends' = ends
    BY <1>2 DEF Within, Popped
  <1>3. CASE ends' = Append(ends, Popped + Length) /\ Length \in Nat
    <2> DEFINE e == Popped + Length
    <2>1. e \in Nat /\ Popped <= e
      BY <1>1, <1>3
    <2>2. ends' = Append(ends, e)
      BY <1>3
    <2> HIDE DEF e
    <2>3. /\ Append(ends, e) \in Seq(Nat) /\ Len(Append(ends, e)) = Len(ends) + 1
          /\ \A i \in 1..Len(ends) : Append(ends, e)[i] = ends[i]
          /\ Append(ends, e)[Len(ends) + 1] = e
      BY <1>1, <2>1, AppendParts, Zenon
    <2>4. /\ ends' \in Seq(Nat) /\ Len(ends') = Len(ends) + 1
          /\ \A i \in 1..Len(ends) : ends'[i] = ends[i]
          /\ ends'[Len(ends) + 1] = e
      BY <2>2, <2>3
    <2>5. Popped' = e
      BY <1>1, <2>4, PoppedNext
    <2>6. ASSUME NEW n \in 1..Len(ends') PROVE ends'[n] <= Popped'
      <3>1. CASE n \in 1..Len(ends)
        <4>1. ends'[n] = ends[n] /\ ends[n] <= Popped /\ ends[n] \in Nat
          BY <1>1, <2>4, <3>1, Zenon DEF Within
        <4> QED BY ONLY <1>1, <2>1, <2>5, <4>1
      <3>2. CASE n = Len(ends) + 1
        BY <2>1, <2>4, <2>5, <3>2
      <3> QED BY <1>1, <2>4, <3>1, <3>2
    <2> QED BY <2>6, Zenon DEF Within
  <1> QED BY <1>2, <1>3, HistoryStep

(* Where a message begins that was taken no other part of the stream is one. *)
OnlyCut ==
    \A n \in DOMAIN msgs : \A e \in Begins(n)..Len(stream) :
      Belongs(SubSeq(stream, Begins(n), e), Place(n)) => e = ends[n]

(* The messages the loop has taken are the only ones the stream can be read  *)
(* as: where one begins, no other part of all that the client will ever send *)
(* is a message, so how reads cut the stream decides nothing but when (the   *)
(* lengths client_recv_cb and auth_perform compute).                        *)
THEOREM OnlyReading == Spec => []OnlyCut
  <1>1. Init => Within
    BY DEF Init, Within
  <1>2. IndInv /\ Within /\ [Next]_vars => Within'
    BY WithinStep
  <1>3. ASSUME IndInv, Within PROVE OnlyCut
    <2>1. /\ Len(msgs) \in Nat /\ Len(ends) = Len(msgs) /\ DOMAIN msgs = 1..Len(msgs)
          /\ Popped \in Nat /\ Popped <= Len(stream) /\ Len(stream) \in Nat
          /\ \A n \in 1..Len(msgs) : ends[n] \in Nat
      <3>1. Len(msgs) \in Nat /\ DOMAIN msgs = 1..Len(msgs) /\ Len(ends) = Len(msgs)
        BY <1>3, ElementsIn DEF IndInv, Types, Aligned
      <3>2. nread \in 0..Len(stream) /\ Popped \in 0..nread /\ Len(stream) \in Nat
        BY <1>3, ElementsIn DEF IndInv, Types, Aligned, Bytes
      <3>3. \A n \in 1..Len(ends) : ends[n] \in Nat
        BY <1>3, ElementsIn DEF IndInv, Types
      <3>4. Popped \in Nat /\ Popped <= Len(stream)
        BY <3>2
      <3> QED BY <3>1, <3>2, <3>3, <3>4
    <2> SUFFICES ASSUME NEW n \in 1..Len(msgs), NEW e \in Begins(n)..Len(stream),
                        Belongs(SubSeq(stream, Begins(n), e), Place(n))
                 PROVE  e = ends[n]
      BY <2>1, Zenon DEF OnlyCut
    <2>2. Begins(n) \in Nat /\ Begins(n) >= 1
      <3>1. n # 1 => n - 1 \in 1..Len(msgs)
        BY <2>1
      <3> QED BY <2>1, <3>1 DEF Begins
    <2>3. msgs[n] = SubSeq(stream, Begins(n), ends[n]) /\ Belongs(msgs[n], Place(n))
          /\ msgs[n] \in Bytes /\ ends[n] \in Nat /\ ends[n] <= Len(stream)
      <3>1. ends[n] <= Popped
        BY <1>3, <2>1 DEF Within
      <3>2. msgs[n] = SubSeq(stream, Begins(n), ends[n]) /\ Belongs(msgs[n], Place(n))
        BY <1>3, Zenon DEF IndInv, Taken
      <3>3. msgs[n] \in Bytes
        BY <1>3, ElementsIn DEF IndInv, Types
      <3> QED BY <2>1, <3>1, <3>2, <3>3
    <2>4. Begins(n) <= ends[n]
      <3>1. Len(msgs[n]) >= 3
        <4>1. IsMethods(msgs[n]) \/ IsPassword(msgs[n]) \/ IsCommand(msgs[n])
          BY <2>3, Zenon DEF Belongs
        <4>2. Len(msgs[n]) \in Nat
          BY <2>3, ElementsIn DEF Bytes
        <4> QED BY <4>1, <4>2 DEF IsMethods, IsPassword, IsCommand
      <3>2. Len(SubSeq(stream, Begins(n), ends[n])) =
              IF Begins(n) <= ends[n] THEN ends[n] - Begins(n) + 1 ELSE 0
        BY <1>3, <2>2, <2>3 DEF IndInv, Types, Bytes
      <3> QED BY <2>2, <2>3, <3>1, <3>2
    <2> DEFINE p == Begins(n) - 1
               k == e - p
               m == ends[n] - p
    <2>5. /\ p \in Nat /\ k \in Nat /\ m \in Nat /\ p + k <= Len(stream) /\ p + m <= Len(stream)
          /\ p + 1 = Begins(n) /\ p + k = e /\ p + m = ends[n]
      <3>1. \A b, x, y, l \in Nat : b >= 1 /\ b <= x /\ x <= l /\ b <= y /\ y <= l =>
              /\ b - 1 \in Nat /\ x - (b - 1) \in Nat /\ y - (b - 1) \in Nat
              /\ (b - 1) + (x - (b - 1)) <= l /\ (b - 1) + (y - (b - 1)) <= l
              /\ (b - 1) + 1 = b /\ (b - 1) + (x - (b - 1)) = x
              /\ (b - 1) + (y - (b - 1)) = y
        OBVIOUS
      <3>2. e \in Nat /\ Begins(n) <= e /\ e <= Len(stream)
        BY <2>1, <2>2
      <3> QED BY <2>1, <2>2, <2>3, <2>4, <3>1, <3>2, Zenon
    <2> HIDE DEF p, k, m
    <2>6. /\ Belongs(SubSeq(stream, p + 1, p + k), Place(n))
          /\ Belongs(SubSeq(stream, p + 1, p + m), Place(n))
      BY <2>3, <2>5
    <2>7. stream \in Bytes
      BY <1>3 DEF IndInv, Types
    <2>8. k = m
      BY ONLY <2>5, <2>6, <2>7, OneReading
    <2> QED BY <2>5, <2>8
  <1> QED BY <1>1, <1>2, <1>3, Invariance, PTL DEF Spec

(* Every handshake is a dialogue: whatever the client sends and however reads*)
(* cut it, its messages are answered each once, in order and as the protocol *)
(* and the handler say, and it is closed only for what it sent (the loop of  *)
(* client_recv_cb, auth_begin, auth_perform, cmd_connect, cmd_udp).          *)
THEOREM Refinement == Spec => ImplementsDialogue
  <1>1. Init => Dialogue!DialogueInit
    <2> SUFFICES ASSUME Init PROVE Dialogue!DialogueInit
      OBVIOUS
    <2>1. Popped = 0 /\ Turn = "INIT"
      BY DEF Init, Popped, Turn
    <2> QED BY <2>1 DEF Init, Dialogue!DialogueInit
  <1>2. ASSUME IndInv, [Next]_vars PROVE [Dialogue!DialogueNext]_(Dialogue!dialogueVars)
    <2>1. CASE Read \/ Empty \/ Wait \/ Admit
      BY <1>2, <2>1, QuietExchanges
    <2>2. CASE Methods \/ Password \/ CmdConnect \/ CmdUdp \/ Unsupported
      BY <1>2, <2>2, MethodsExchange, PasswordExchange, ConnectExchange, UdpExchange,
         UnsupportedExchange DEF Dialogue!DialogueNext
    <2>3. CASE Reject \/ Lose
      BY <1>2, <2>3, RejectExchange, LoseExchange DEF Dialogue!DialogueNext
    <2>4. CASE UNCHANGED vars
      <3>1. UNCHANGED <<conf, remote, out, history>> /\ Turn' = Turn
        BY <2>4 DEF vars, Turn, conf
      <3> QED BY <1>2, <3>1, NoExchange
    <2> QED BY <1>2, <2>1, <2>2, <2>3, <2>4 DEF Next
  <1> QED BY <1>1, <1>2, Invariance, PTL DEF Spec, ImplementsDialogue, Dialogue!DialogueSpec
=============================================================================
