------------------------------ MODULE Handshake ------------------------------
(***************************************************************************)
(* How client_recv_cb of server.cpp makes messages of the bytes a client   *)
(* sends before its session starts, however reads cut them: method choice, *)
(* username and password (auth.cpp), commands.  The input is a BufQueue,   *)
(* down to its vector and offset.  Bytes are numbers; what a command does  *)
(* beyond its answer is in Server and Relay.                               *)
(***************************************************************************)
EXTENDS Messages, SequencesExt

CONSTANTS
    Streams,    \* what a client may send
    SignedChar  \* is char signed (as on x86)

Byte == 0..255
Bytes == Seq(Byte)
MaxPort == 65535

ASSUME HandshakeAssumption ==
    Streams \subseteq Bytes /\ SignedChar \in BOOLEAN /\ Users \subseteq Bytes \X Bytes

VARIABLES
    handler,    \* "default" or "password"
    stream,     \* all this client sends
    nread,      \* how much of it was read
    state,      \* ClientConn::state, or "closed", "lost", "aborted"
    looping,    \* is the loop of client_recv_cb running
    buf, start, \* the vector and the offset of client.input
    remote,     \* what remote.iochan.buf was given
    target,     \* the port that was connected to
    out,        \* the code in each answer
    msgs, ends  \* history: the messages popped from the input, and where in the
                \* stream each ends

conf == <<handler, stream>>
queue == <<buf, start>>
history == <<msgs, ends>>
vars == <<conf, nread, state, looping, queue, remote, target, out, history>>

Size == Len(buf) - start
At(i) == buf[start + i + 1]
Input == SubSeq(buf, start + 1, Len(buf))
First(n) == SubSeq(buf, start + 1, start + n)
Popped == IF ends = <<>> THEN 0 ELSE Last(ends)
-----------------------------------------------------------------------------
(* Each Slip... is a wrong form of the definition it precedes.              *)

(* The length of the message at the head of the input in each state, by the *)
(* bytes that say so, and the length its address or password needs at least.*)
AddrLen == CASE At(3) = Ipv4 -> 4 [] At(3) = Ipv6 -> 16 [] At(3) = Domain -> 1 + At(4)
Length ==
    CASE state = "INIT" -> 2 + At(1)
      [] state = "AUTH" -> 3 + At(1) + At(2 + At(1))
      [] state = "CMD" -> 6 + AddrLen

(* Is all of it there: the checks of size() before each use of a byte.      *)
SlipEnough ==
    CASE state = "INIT" -> Size > Length
      [] state = "AUTH" -> Size >= 4 + At(1) /\ Size >= Length
      [] state = "CMD" -> (At(3) = Domain => Size >= 8) /\ Size >= Length
Enough ==
    CASE state = "INIT" -> Size >= Length
      [] state = "AUTH" -> Size >= 4 + At(1) /\ Size >= Length
      [] state = "CMD" -> (At(3) = Domain => Size >= 8) /\ Size >= Length

(* Is its fixed part there, and is it well-formed.                          *)
Begun == Size >= (CASE state = "INIT" -> 3 [] state = "AUTH" -> 5 [] state = "CMD" -> 4)
WellFormed ==
    CASE state = "INIT" -> At(0) = 5 /\ At(1) \in 1..10
      [] state = "AUTH" -> At(0) = 1
      [] state = "CMD" -> At(0) = 5 /\ At(3) \in {Ipv4, Ipv6, Domain}

(* The loop meets a message in state s; a default handler reads none in AUTH.*)
Meets(s) == looping /\ state = s /\ Size > 0
Message(s) == Meets(s) /\ Begun /\ WellFormed /\ Enough
Reads == state \in {"INIT", "CMD"} \/ (state = "AUTH" /\ handler = "password")

(* BufQueue::push, pop, shrink and swap. *)
Push(n) == buf' = buf \o SubSeq(stream, nread + 1, nread + n) /\ UNCHANGED start
Takes(n) == msgs' = Append(msgs, First(n)) /\ ends' = Append(ends, Popped + n)
Pop(n) == start' = start + n /\ Takes(n) /\ UNCHANGED buf
SlipShrink ==
    IF start * 2 > Len(buf) THEN buf' = Input /\ UNCHANGED start ELSE UNCHANGED queue
Shrink ==
    IF start * 2 > Len(buf) THEN buf' = Input /\ start' = 0 ELSE UNCHANGED queue

(* uint16_t(char), and the port of two of them.                             *)
Widen(b) == IF SignedChar /\ b >= 128 THEN 65280 + b ELSE b
SlipPort(hi, lo) == hi + 256 * lo
Port(hi, lo) ==
    IF Widen(lo) > 255 THEN Widen(lo) ELSE ((Widen(hi) * 256) % 65536) + lo
-----------------------------------------------------------------------------
(* A read of any length; in STREAM bytes go to the remote without the loop. *)
Read ==
    /\ ~looping /\ state \in {"INIT", "AUTH", "CMD", "UDP"}
    /\ \E n \in 1..(Len(stream) - nread) : Push(n) /\ nread' = nread + n
    /\ looping' = TRUE
    /\ UNCHANGED <<conf, state, remote, target, out, history>>

(* The loop ends when the input is empty, and shrinks it.                   *)
Empty ==
    /\ looping /\ Size = 0 /\ Shrink
    /\ looping' = FALSE
    /\ UNCHANGED <<conf, nread, state, remote, target, out, history>>

(* It returns when a message is not complete.                               *)
Wait ==
    /\ Reads /\ Meets(state) /\ (Begun => WellFormed /\ ~Enough)
    /\ looping' = FALSE
    /\ UNCHANGED <<conf, nread, state, queue, remote, target, out, history>>

Close == state' = "closed" /\ looping' = FALSE

(* A message that is none, or anything at all after an association.         *)
Reject ==
    /\ (Reads /\ Meets(state) /\ Begun /\ ~WellFormed) \/ Meets("UDP")
    /\ Close
    /\ UNCHANGED <<conf, nread, queue, remote, target, out, history>>

(* auth_begin() of both handlers.                                           *)
Chosen(methods) ==
    IF handler = "password" /\ Username \in methods THEN Username ELSE None
SlipMethods ==
    /\ Message("INIT") /\ Pop(Length)
    /\ LET m == Chosen(ToSet(SubSeq(First(Length), 3, Length))) IN
         out' = Append(out, m) /\ state' = IF m = None THEN "CMD" ELSE "AUTH"
    /\ UNCHANGED <<conf, nread, looping, remote, target>>
Methods ==
    /\ Message("INIT") /\ Pop(Length)
    /\ out' = Append(out, Chosen(ToSet(SubSeq(First(Length), 3, Length))))
    /\ state' = "AUTH"
    /\ UNCHANGED <<conf, nread, looping, remote, target>>

(* auth_perform(): the default handler has nothing to read.                 *)
Admit ==
    /\ Meets("AUTH") /\ handler = "default"
    /\ state' = "CMD"
    /\ UNCHANGED <<conf, nread, looping, queue, remote, target, out, history>>
Password ==
    /\ handler = "password" /\ Message("AUTH") /\ Pop(Length)
    /\ LET u == 2 + At(1)   \* where the name ends
       IN  IF <<SubSeq(First(Length), 3, u), SubSeq(First(Length), u + 2, Length)>> \in Users
           THEN out' = Append(out, 0) /\ state' = "CMD" /\ UNCHANGED looping
           ELSE out' = Append(out, 1) /\ Close
    /\ UNCHANGED <<conf, nread, remote, target>>

(* CONNECT: the rest of the input goes to the remote; if it fails at once   *)
(* there must be no rest.                                                   *)
CmdConnect ==
    /\ Message("CMD") /\ At(1) = Connect
    /\ Takes(Length)
    /\ \/ /\ target' = Port(At(Length - 2), At(Length - 1))
          /\ remote' = SubSeq(Input, Length + 1, Size) /\ buf' = <<>> /\ start' = 0
          /\ out' = Append(out, 0) /\ state' = "STREAM" /\ UNCHANGED looping
       \/ /\ start' = start + Length /\ out' = Append(out, 1)
          /\ IF Size = Length
             THEN UNCHANGED <<state, looping>>
             ELSE state' = "aborted" /\ looping' = FALSE
          /\ UNCHANGED <<buf, remote, target>>
    /\ UNCHANGED <<conf, nread>>

(* A UDP association, which fails or not, allows nothing behind it.         *)
SlipCmdUdp ==
    /\ Message("CMD") /\ At(1) = Udp /\ Pop(Length)
    /\ IF Size > 0
       THEN Close /\ UNCHANGED out
       ELSE \E code \in {0, 1} :
              /\ out' = Append(out, code) /\ UNCHANGED looping
              /\ state' = IF code = 0 THEN "UDP" ELSE state
    /\ UNCHANGED <<conf, nread, remote, target>>
CmdUdp ==
    /\ Message("CMD") /\ At(1) = Udp /\ Pop(Length)
    /\ IF Size > Length
       THEN Close /\ UNCHANGED out
       ELSE \E code \in {0, 1} :
              /\ out' = Append(out, code) /\ UNCHANGED looping
              /\ state' = IF code = 0 THEN "UDP" ELSE state
    /\ UNCHANGED <<conf, nread, remote, target>>

(* Any other command is answered, and the loop left.                        *)
Unsupported ==
    /\ Message("CMD") /\ At(1) \notin {Connect, Udp} /\ Pop(Length)
    /\ out' = Append(out, 1)
    /\ looping' = FALSE
    /\ UNCHANGED <<conf, nread, state, remote, target>>

(* A read or an answer fails, the client leaves or is timed out.            *)
Lose ==
    /\ state \in {"INIT", "AUTH", "CMD", "UDP"}
    /\ state' = "lost" /\ looping' = FALSE
    /\ UNCHANGED <<conf, nread, queue, remote, target, out, history>>

Init ==
    /\ handler \in {"default", "password"} /\ stream \in Streams
    /\ nread = 0 /\ state = "INIT" /\ looping = FALSE
    /\ buf = <<>> /\ start = 0 /\ remote = <<>> /\ target = 0
    /\ out = <<>> /\ msgs = <<>> /\ ends = <<>>

Next ==
    \/ Read \/ Empty \/ Wait \/ Reject \/ Methods \/ Admit \/ Password
    \/ CmdConnect \/ CmdUdp \/ Unsupported \/ Lose

Spec == Init /\ [][Next]_vars
-----------------------------------------------------------------------------
(* Types; the offset of the queue stays in its vector, as BufQueue asserts: *)
(* nothing is popped that was not received.                                 *)
TypeOK ==
    /\ handler \in {"default", "password"} /\ stream \in Streams
    /\ nread \in 0..Len(stream) /\ looping \in BOOLEAN
    /\ state \in {"INIT", "AUTH", "CMD", "STREAM", "UDP", "closed", "lost", "aborted"}
    /\ start \in 0..Len(buf) /\ target \in 0..MaxPort

(* What message is the n-th of a client.                                    *)
Place(n) == IF n = 1 THEN "INIT" ELSE IF n = 2 /\ handler = "password" THEN "AUTH" ELSE "CMD"

(* However reads cut the stream, what is taken from it are the protocol's   *)
(* messages in their order, each answered once; no byte is lost or repeated *)
(* on the way to the handlers or to the remote, which a CONNECT leaves      *)
(* nothing of to the loop; with a password handler no command is looked at  *)
(* before a name and password that are right.                               *)
Framed ==
    /\ Input \o remote = SubSeq(stream, Popped + 1, nread)
    /\ state = "STREAM" => Size = 0
    /\ \A n \in DOMAIN msgs :
         /\ msgs[n] = SubSeq(stream, IF n = 1 THEN 1 ELSE 1 + ends[n - 1], ends[n])
         /\ Belongs(msgs[n], Place(n))
         /\ Place(n) = "AUTH" => (out[n] = 0 <=> Accepted(msgs[n]))
         /\ n > 2 /\ handler = "password" => out[2] = 0
    /\ Len(out) = Len(msgs) \/ (state = "closed" /\ Len(msgs) = Len(out) + 1)

(* A message whose last field is of variable length, and empty, or an empty *)
(* name with a password of one byte: the checks of size() want one more.    *)
EmptyField(m) ==
    \/ Place(Len(msgs) + 1) = "AUTH" /\ (m[3 + m[2]] = 0 \/ Len(m) = 4)
    \/ Place(Len(msgs) + 1) = "CMD" /\ m[4] = Domain /\ m[5] = 0

(* Between reads no whole message waits in the input, except behind an      *)
(* unsupported command or with an empty field, nor, once their fixed part is*)
(* there (see Malformed), bytes that begin no message.                      *)
Stranded ==
    /\ msgs # <<>> /\ Place(Len(msgs)) = "CMD"
    /\ Last(msgs)[2] \notin {Connect, Udp}
Prompt ==
    (~looping /\ state \in {"INIT", "AUTH", "CMD"} /\ ~Stranded) =>
      /\ \A n \in 1..Size :
           Belongs(First(n), Place(Len(msgs) + 1)) => EmptyField(First(n))
      /\ ~Malformed(Input, Place(Len(msgs) + 1))

(* The server closes a client only for what the protocol forbids.           *)
ClosedForCause ==
    state = "closed" =>
      \/ Len(out) = 2 /\ handler = "password" /\ out[2] = 1
      \/ Len(msgs) > 1 /\ Place(Len(msgs)) = "CMD" /\ Last(msgs)[2] = Udp /\ Size > 0
      \/ Malformed(Input, Place(Len(msgs) + 1))

(* The port connected to is the one in the command, big-endian, if its low  *)
(* byte is less than 128; else the sign of a char may take the high byte.   *)
PortDecoded ==
    state = "STREAM" =>
      LET m == Last(msgs)
          lo == m[Len(m)]
      IN  target = 256 * m[Len(m) - 1] + lo \/ (SignedChar /\ lo >= 128)

(* The handshake is a Dialogue: a default handler, which the loop asks in   *)
(* AUTH, reads nothing there.                                               *)
Turn == IF state = "AUTH" /\ handler = "default" THEN "CMD" ELSE state
Dialogue == INSTANCE Dialogue WITH
    pos <- Popped, place <- Turn, answers <- out, given <- remote

(* However reads cut the stream, its messages are answered each once and in *)
(* order as the protocol and the handler say, with nothing between them lost*)
(* or taken twice, and a client is closed only for what it sent: every step *)
(* of client_recv_cb's loop is one of the dialogue or none.                 *)
ImplementsDialogue == Dialogue!DialogueSpec
=============================================================================
