------------------------------ MODULE MCUdpRelay ------------------------------
(* UdpRelay with a client that moves between ports, a stranger, remotes of  *)
(* both families, and every kind of right and wrong datagram.               *)
EXTENDS UdpRelay

V6(n) == <<32, 1>> \o [i \in 1..13 |-> 0] \o <<n>>
C4 == <<10, 0, 0, 1>>
R4 == <<10, 0, 0, 2>>
S4 == <<10, 0, 0, 3>>
H4 == <<10, 0, 0, 9>>

MCFds == 0..7
MCForeign == {0, 2}
MCCandidates == {<<>>, <<4, 16>>, <<16>>}
MCClientIps == {C4, V6(1)}
MCHostIp == [f \in {4, 16} |-> IF f = 4 THEN H4 ELSE V6(9)]
MCLocalPort == [p \in {"client", "remote"} |-> IF p = "client" THEN 1001 ELSE 1002]

From(ip, port, to, bytes) ==
    [src |-> [ip |-> ip, port |-> port],
     dst |-> [ip |-> MCHostIp[Len(ip)], port |-> MCLocalPort[to]],
     data |-> bytes, by |-> "others"]
Header4 == <<0, 0, 0, 1>> \o R4
MCTraffic == {
    From(C4, 5000, "client", Header4 \o <<0, 53, 7>>),
    From(C4, 5001, "client", Header4 \o <<1, 187, 8>>),          \* another port; port 443
    From(C4, 5000, "client", <<1, 1, 0, 4>> \o V6(2) \o <<200, 53, 9>>),
    From(V6(1), 5000, "client", Header4 \o <<0, 53, 7>>),
    From(S4, 5000, "client", Header4 \o <<0, 53, 7>>),           \* not the client
    From(C4, 5002, "client", <<0, 0, 1, 1>> \o R4 \o <<0, 53, 7>>), \* a fragment
    From(C4, 5000, "client", Header4 \o <<0, 53>>),              \* no payload
    From(C4, 5000, "client", SubSeq(Header4, 1, 7)),             \* too short
    From(C4, 5000, "client", <<0, 0, 0, 3, 1, 97, 0, 53, 7>>),   \* for a name
    From(C4, 5000, "client", <<0, 0, 0, 1>> \o H4 \o <<3, 234, 6>>), \* for udp_remote itself
    From(R4, 53, "remote", <<42>>),
    From(V6(2), 400, "remote", <<>>),
    From(C4, 5000, "remote", Header4 \o <<0, 53, 7>>)}
=============================================================================
