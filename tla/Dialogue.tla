------------------------------- MODULE Dialogue -------------------------------
(***************************************************************************)
(* What the handshake promises a client, with no input, read or loop in    *)
(* sight: its stream is a sequence of messages, each is answered once, in  *)
(* order, and by what the protocol and the handler say; it is closed only  *)
(* for a reason, and what follows a CONNECT is the remote's.  Handshake    *)
(* implements it.                                                          *)
(***************************************************************************)
EXTENDS Messages

VARIABLES
    handler,    \* who authenticates: "default" or "password"
    stream,     \* all the client sends
    pos,        \* how much of it were messages
    place,      \* what may come next, or how the dialogue ended
    answers,    \* the code in each answer
    given       \* what the remote was given of the stream

dialogueVars == <<handler, stream, pos, place, answers, given>>

Left == Len(stream) - pos

DialogueInit ==
    /\ handler \in {"default", "password"}
    /\ pos = 0 /\ place = "INIT" /\ answers = <<>> /\ given = <<>>

Answer(code, next) == answers' = Append(answers, code) /\ place' = next /\ UNCHANGED given

Greeted(m) ==
    /\ place = "INIT"
    /\ \/ handler = "default" /\ Answer(None, "CMD")
       \/ /\ handler = "password"
          /\ Answer(IF \E i \in 3..Len(m) : m[i] = Username THEN Username ELSE None, "AUTH")

Named(m) ==
    /\ place = "AUTH"
    /\ (Accepted(m) /\ Answer(0, "CMD")) \/ (~Accepted(m) /\ Answer(1, "closed"))

(* A CONNECT that is refused with more behind it may abort the server; a UDP*)
(* association that has more behind it is not answered.                     *)
Connected ==
    /\ answers' = Append(answers, 0) /\ place' = "STREAM"
    /\ \E n \in pos'..Len(stream) : given' = SubSeq(stream, pos' + 1, n)
Commanded(m) ==
    /\ place = "CMD"
    /\ \/ Answer(1, "CMD")
       \/ m[2] = Connect /\ (Connected \/ (Left' > 0 /\ Answer(1, "aborted")))
       \/ m[2] = Udp /\ Answer(0, "UDP")
       \/ m[2] = Udp /\ Left' > 0 /\ place' = "closed" /\ UNCHANGED <<answers, given>>

(* The next n bytes are a message. *)
Exchange ==
    /\ \E n \in 1..Left :
         LET m == SubSeq(stream, pos + 1, pos + n) IN
         /\ Belongs(m, place) /\ pos' = pos + n
         /\ Greeted(m) \/ Named(m) \/ Commanded(m)
    /\ UNCHANGED <<handler, stream>>

(* What comes next begins no message, or nothing may come.                  *)
Violation ==
    /\ \/ /\ place \in {"INIT", "AUTH", "CMD"}
          /\ \E n \in 1..Left : Malformed(SubSeq(stream, pos + 1, pos + n), place)
       \/ place = "UDP" /\ Left > 0
    /\ place' = "closed"
    /\ UNCHANGED <<handler, stream, pos, answers, given>>

(* The client or the network gives up. *)
Loss ==
    /\ place \in {"INIT", "AUTH", "CMD", "UDP"} /\ place' = "lost"
    /\ UNCHANGED <<handler, stream, pos, answers, given>>

DialogueNext == Exchange \/ Violation \/ Loss

DialogueSpec == DialogueInit /\ [][DialogueNext]_dialogueVars
=============================================================================
