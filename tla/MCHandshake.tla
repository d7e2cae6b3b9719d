----------------------------- MODULE MCHandshake -----------------------------
(* Handshake with messages of every kind, right and wrong, one behind       *)
(* another.                                                                 *)
EXTENDS Handshake

Greetings == {<<5, 1, 0>>, <<5, 2, 0, 2>>}
NotGreetings == {<<4, 1, 0>>, <<5, 0, 0>>, <<5, 11, 0>>}
Right == <<1, 1, 7, 1, 9>>
Passwords == {Right, <<1, 1, 7, 1, 8>>, <<1, 1, 7, 0>>, <<1, 0, 1, 9>>, <<2, 1, 7, 1, 9>>}
ByName == <<5, 1, 0, 3, 2, 97, 98, 200, 80>>
Commands == {
    ByName,                                          \* CONNECT to a name
    <<5, 1, 0, 1, 10, 0, 0, 1, 1, 187>>,             \* CONNECT to port 443
    <<5, 1, 0, 4>> \o [n \in 1..16 |-> 0] \o <<0, 22>>,
    <<5, 1, 0, 3, 0, 0, 80>>,                        \* an empty name
    <<5, 3, 0, 1, 0, 0, 0, 0, 0, 0>>,                \* UDP ASSOCIATE
    <<5, 2, 0, 1, 10, 0, 0, 1, 0, 80>>,              \* BIND
    <<5, 1, 0, 2, 10, 0, 0, 1, 0, 80>>}              \* no such address type
MCStreams ==
    NotGreetings
    \union {g \o c \o r : g \in Greetings, c \in Commands, r \in {<<>>, <<5>>, ByName}}
    \union {g \o p \o ByName : g \in Greetings, p \in Passwords}
    \union {<<5, 2, 0, 2>> \o Right \o c \o ByName : c \in Commands}
MCUsers == {<< <<7>>, <<9>> >>}
=============================================================================
