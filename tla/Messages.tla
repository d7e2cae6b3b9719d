------------------------------- MODULE Messages -------------------------------
(***************************************************************************)
(* The messages of a SOCKS5 handshake as whole byte strings: method choice,*)
(* name and password, command, by the codes of server.h.                   *)
(***************************************************************************)
EXTENDS Integers, Sequences

CONSTANT Users      \* PasswordServerHandler's user2pass: pairs of name and password

None == 0       \* METHOD_NONE
Username == 2   \* METHOD_USERNAME
Ipv4 == 1
Domain == 3
Ipv6 == 4
Connect == 1
Udp == 3

IsMethods(m) == Len(m) >= 3 /\ m[1] = 5 /\ m[2] \in 1..10 /\ Len(m) = 2 + m[2]
IsPassword(m) ==
    Len(m) >= 3 /\ m[1] = 1 /\ Len(m) >= 3 + m[2] /\ Len(m) = 3 + m[2] + m[3 + m[2]]
IsCommand(m) ==
    /\ Len(m) >= 7 /\ m[1] = 5
    /\ \/ m[4] = Ipv4 /\ Len(m) = 10
       \/ m[4] = Ipv6 /\ Len(m) = 22
       \/ m[4] = Domain /\ Len(m) = 7 + m[5]
Accepted(m) ==
    \E u \in Users : m = <<1, Len(u[1])>> \o u[1] \o <<Len(u[2])>> \o u[2]

(* What a client may send in each state, and what begins no such message.   *)
Belongs(m, place) ==
    CASE place = "INIT" -> IsMethods(m) [] place = "AUTH" -> IsPassword(m) [] OTHER -> IsCommand(m)
Malformed(m, place) ==
    CASE place = "INIT" -> Len(m) >= 3 /\ (m[1] # 5 \/ m[2] \notin 1..10)
      [] place = "AUTH" -> Len(m) >= 5 /\ m[1] # 1
      [] OTHER -> Len(m) >= 4 /\ (m[1] # 5 \/ m[4] \notin {Ipv4, Ipv6, Domain})
=============================================================================
