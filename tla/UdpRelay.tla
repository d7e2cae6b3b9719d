------------------------------ MODULE UdpRelay ------------------------------
(***************************************************************************)
(* A UDP association of server.cpp with the sockets it needs: the listener, *)
(* the client's connection, cmd_udp()'s two sockets, each made by           *)
(* _net_listen (NetListen), and the datagrams relayed between them, byte by *)
(* byte (parse_udp_packet, pack_udp_packet).  The network may lose a        *)
(* datagram, deliver it again, and in any order: what was sent once stays   *)
(* deliverable.                                                             *)
(***************************************************************************)
EXTENDS NetListen, FiniteSets

CONSTANTS
    Traffic,     \* the datagrams that others may send
    ClientIps,   \* where the client may be
    HostIp,      \* this host's address in each family
    LocalPort,   \* the ports of the sockets "client" and "remote"
    MaxRecv,     \* bound: how many different datagrams are received
    MaxData,     \* the largest datagram
    SignedChar,  \* is char signed (as on x86)
    Asserts      \* a build with assertions

Byte == 0..255
Bytes == Seq(Byte)
MaxPort == 65535
Ports == 0..MaxPort
(* An Addr: the family is the length of the address.                        *)
Addr == [ip : {b \in Bytes : Len(b) \in Families}, port : Ports]
Datagram == [src : Addr, dst : Addr, data : Bytes, by : {"others", "client", "remote"}]
Peers == {"client", "remote"}

ASSUME RelayAssumption ==
    /\ Traffic \subseteq Datagram /\ \A d \in Traffic : d.by = "others"
    /\ ClientIps \subseteq {b \in Bytes : Len(b) \in Families}
    /\ HostIp \in [Families -> Bytes] /\ \A f \in Families : Len(HostIp[f]) = f
    /\ LocalPort \in [Peers -> Ports] /\ LocalPort["client"] # LocalPort["remote"]
    /\ MaxRecv \in Nat /\ MaxData \in Nat
    /\ SignedChar \in BOOLEAN /\ Asserts \in BOOLEAN

VARIABLES
    listener,   \* Server::listen_fd
    state,      \* of the client: "none", "CMD", "UDP", "done", or "aborted"
    step,       \* who waits for _net_listen: "none", "server", a peer; "reply"
    cfd, caddr, \* client.fd and client.addr
    peer, fam,  \* the descriptors and families of udp_client and udp_remote
    from,       \* client.udp_client_from
    sent,       \* what this association sent; "by" says by which callback
    seen,       \* history: the datagrams it received
    leaked      \* history: descriptors that their owner has forgotten

relayVars == <<from, sent, seen>>
sockVars == <<listener, cfd, caddr, peer, fam, leaked>>
vars == <<listenVars, state, step, sockVars, relayVars>>

FromIp(ip, port) == [ip |-> ip, port |-> port]
Unspecified == FromIp(<<0, 0, 0, 0>>, 0)
IsUnspecified(a) == \A n \in 1..Len(a.ip) : a.ip[n] = 0
IpEq(a, b) == Len(a.ip) = Len(b.ip) /\ a.ip = b.ip
-----------------------------------------------------------------------------
(* A socket of the IPv6 family sees an IPv4 address in its mapped form.     *)
MappedPrefix == <<0, 0, 0, 0, 0, 0, 0, 0, 0, 0, 255, 255>>
View(f, ip) == IF f = 16 /\ Len(ip) = 4 THEN MappedPrefix \o ip ELSE ip
Canonical(ip) ==
    IF Len(ip) = 16 /\ SubSeq(ip, 1, 12) = MappedPrefix THEN SubSeq(ip, 13, 16) ELSE ip

(* Each Slip... is a wrong form of the definition it precedes.              *)

(* parse_udp_packet of b: what its checks accept, and what it takes from it.*)
Ipv4 == 1
Domain == 3
Ipv6 == 4
AddrLen(b) == CASE b[4] = Ipv4 -> 4 [] b[4] = Ipv6 -> 16 [] b[4] = Domain -> 1 + b[5]
SlipParses(b) ==
    Len(b) >= 8 /\ b[4] \in {Ipv4, Ipv6, Domain} /\ Len(b) >= 6 + AddrLen(b)
Parses(b) ==
    /\ Len(b) >= 8 /\ b[3] = 0
    /\ b[4] \in {Ipv4, Ipv6, Domain} /\ Len(b) >= 6 + AddrLen(b)
Widen(c) == IF SignedChar /\ c >= 128 THEN 65280 + c ELSE c
SlipPort(hi, lo) == IF Widen(lo) > 255 THEN Widen(lo) ELSE Widen(hi) * 256 + lo
Port(hi, lo) ==
    IF Widen(lo) > 255 THEN Widen(lo) ELSE ((Widen(hi) * 256) % 65536) + lo
ToAddr(b) ==
    LET n == AddrLen(b)
    IN  FromIp(SubSeq(b, 5, 4 + n), Port(b[5 + n], b[6 + n]))
SlipPayload(b) == SubSeq(b, 8 + AddrLen(b), Len(b))
Payload(b) == SubSeq(b, 7 + AddrLen(b), Len(b))

Relayable(b) == Parses(b) /\ b[4] # Domain

(* pack_udp_packet.                                                         *)
Pack(a, data) ==
    <<0, 0, 0, IF Len(a.ip) = 4 THEN Ipv4 ELSE Ipv6>>
      \o a.ip \o <<a.port \div 256, a.port % 256>> \o data

(* The kernel's sendto() on udp_remote's socket, when it does not fail.     *)
CanSend(a, data) == (fam["remote"] = 4 => Len(a.ip) = 4) /\ Len(data) <= MaxData
SendTo(a, data, by) ==
    LET to == FromIp(Canonical(a.ip), a.port)
        own == FromIp(HostIp[Len(to.ip)], LocalPort["remote"])
    IN  sent' = sent \union {[src |-> own, dst |-> to, data |-> data, by |-> by]}

(* What may arrive at the socket of p; a received one may arrive again.     *)
Reaches(d, p) == d.dst.port = LocalPort[p] /\ d.dst.ip = HostIp[Len(d.dst.ip)]
Arrives(d, p) ==
    /\ Reaches(d, p) /\ (fam[p] = 4 => Len(d.src.ip) = 4)
    /\ d \in seen \/ Cardinality(seen) < MaxRecv
Source(d, p) == FromIp(View(fam[p], d.src.ip), d.src.port)
-----------------------------------------------------------------------------
(* start_listen(); without a listener main() ends.                          *)
Start ==
    /\ listener = None /\ step = "none" /\ Listen("stream")
    /\ step' = "server"
    /\ UNCHANGED <<state, sockVars, relayVars>>
Started ==
    /\ step = "server" /\ at = "done" /\ at' = "idle"
    /\ listener' = IF err THEN None ELSE fd
    /\ step' = IF err THEN "exited" ELSE "none"
    /\ UNCHANGED <<open, ready, call, cands, fd, err, family, state>>
    /\ UNCHANGED <<cfd, caddr, peer, fam, leaked, relayVars>>

(* net_accept(), and the handshake up to CMD.  A client of the IPv6 family  *)
(* needs a listener of that family.                                         *)
Accept ==
    /\ listener # None /\ step = "none" /\ state = "none" /\ state' = "CMD"
    /\ \E ip \in ClientIps :
         /\ family = 4 => Len(ip) = 4
         /\ caddr' = FromIp(View(family, ip), 0)
    /\ \E f \in Fds : Opens(f) /\ cfd' = f
    /\ UNCHANGED <<ready, call, at, cands, fd, err, family>>
    /\ UNCHANGED <<step, listener, peer, fam, leaked, relayVars>>

(* cmd_udp(): a socket for the client's datagrams, then one for the others. *)
Associate ==
    /\ state = "CMD" /\ step = "none" /\ Listen("dgram")
    /\ step' = "client"
    /\ UNCHANGED <<state, sockVars, relayVars>>

(* create_udp_peer() after udp_listen() failed, or succeeded and            *)
(* net_local_addr() failed: the client is told, and may ask again.          *)
CreateFails(p) ==
    /\ step = p /\ at = "done" /\ at' = "idle"
    /\ step' = "none"
    /\ leaked' = leaked \union (IF err THEN {} ELSE {fd})
    /\ UNCHANGED <<open, ready, call, cands, fd, err, family, state>>
    /\ UNCHANGED <<listener, cfd, caddr, peer, fam, relayVars>>

(* create_udp_peer() made a socket; an earlier peer is forgotten.           *)
Create(p) ==
    /\ step = p /\ at = "done" /\ ~err
    /\ leaked' = leaked \union ({peer[p]} \ {None})
    /\ peer' = [peer EXCEPT ![p] = fd] /\ fam' = [fam EXCEPT ![p] = family]
    /\ at' = "idle" /\ step' = IF p = "client" THEN "both" ELSE "reply"
    /\ UNCHANGED <<open, ready, call, cands, fd, err, family>>
    /\ UNCHANGED <<state, listener, cfd, caddr, relayVars>>

AssociateRemote ==
    /\ step = "both" /\ Listen("dgram")
    /\ step' = "remote"
    /\ UNCHANGED <<state, sockVars, relayVars>>

(* The reply: then the two watchers are started.                            *)
Reply ==
    /\ step = "reply" /\ step' = "none" /\ state' = "UDP"
    /\ UNCHANGED <<listenVars, sockVars, relayVars>>

(* on_client_done(), for a failed reply or any other end of the client.     *)
Done ==
    /\ step = "reply" \/ (step = "none" /\ state \in {"CMD", "UDP"})
    /\ CloseFds({cfd, peer["client"], peer["remote"]})
    /\ state' = "done" /\ step' = "none"
    /\ cfd' = None /\ peer' = [p \in Peers |-> None]
    /\ UNCHANGED <<call, at, cands, fd, err, family>>
    /\ UNCHANGED <<listener, caddr, fam, leaked, relayVars>>
-----------------------------------------------------------------------------
(* recvfrom() in either callback.                                           *)
Receive(d, p) ==
    /\ state = "UDP" /\ step = "none" /\ Arrives(d, p)
    /\ seen' = seen \union {d}
    /\ UNCHANGED <<listenVars, step, sockVars>>

(* udp_client_recv_cb: from another address than the client's connection.   *)
ForeignSource(d) ==
    /\ Receive(d, "client") /\ ~IpEq(Source(d, "client"), caddr)
    /\ UNCHANGED <<state, from, sent>>

(* From the client: its address is noted before the datagram is looked at.  *)
SlipFromClient(d) ==
    /\ Receive(d, "client")
    /\ from' = Source(d, "client")
FromClient(d) ==
    /\ Receive(d, "client") /\ IpEq(Source(d, "client"), caddr)
    /\ from' = Source(d, "client")

(* net_sendto()'s assert(len > 0).                                          *)
Asserted(b) == Asserts /\ Relayable(b) /\ Payload(b) = <<>>
Aborts(d) ==
    /\ FromClient(d) /\ Asserted(d.data)
    /\ state' = "aborted"
    /\ UNCHANGED sent

(* It is malformed, for a name (a TODO of the source), or cannot be sent.   *)
DropFromClient(d) ==
    /\ FromClient(d) /\ ~Asserted(d.data)
    /\ UNCHANGED <<state, sent>>

(* The payload goes to the address in the header.                           *)
ToRemote(d) ==
    /\ FromClient(d) /\ ~Asserted(d.data) /\ Relayable(d.data)
    /\ CanSend(ToAddr(d.data), Payload(d.data))
    /\ SendTo(ToAddr(d.data), Payload(d.data), "client")
    /\ UNCHANGED state

(* udp_remote_recv_cb: anything from anybody goes to the client, with its   *)
(* source in the header, if the client's address is known; by udp_remote's  *)
(* socket.                                                                  *)
DropFromRemote(d) ==
    /\ Receive(d, "remote")
    /\ UNCHANGED <<state, from, sent>>
ToClient(d) ==
    /\ Receive(d, "remote") /\ ~IsUnspecified(from)
    /\ LET packet == Pack(Source(d, "remote"), d.data)
       IN  CanSend(from, packet) /\ SendTo(from, packet, "remote")
    /\ UNCHANGED <<state, from>>

Init ==
    /\ ListenInit /\ state = "none" /\ step = "none"
    /\ listener = None /\ cfd = None /\ caddr = Unspecified
    /\ peer = [p \in Peers |-> None] /\ fam = [p \in Peers |-> 4]
    /\ from = Unspecified /\ sent = {} /\ seen = {} /\ leaked = {}

Setup ==
    \/ ListenNext /\ UNCHANGED <<state, step, sockVars, relayVars>>
    \/ Start \/ Started \/ Accept \/ Associate \/ AssociateRemote \/ Reply \/ Done
    \/ \E p \in Peers : CreateFails(p) \/ Create(p)
Relays(d) ==
    \/ ForeignSource(d) \/ DropFromClient(d) \/ ToRemote(d) \/ Aborts(d)
    \/ DropFromRemote(d) \/ ToClient(d)
Next == Setup \/ \E d \in Traffic \union sent : Relays(d)

Spec == Init /\ [][Next]_vars
-----------------------------------------------------------------------------
(* Types; bytes and ports stay in their ranges through parsing and packing. *)
TypeOK ==
    /\ open \subseteq Fds /\ ready \subseteq open /\ leaked \subseteq Fds
    /\ at \in {"idle", "resolve", "loop", "bind", "bound", "return", "done"}
    /\ call \in {"none", "stream", "dgram"} /\ cands \in Seq(Families)
    /\ {fd, listener, cfd} \subseteq Fds \union {None}
    /\ err \in BOOLEAN /\ family \in Families
    /\ state \in {"none", "CMD", "UDP", "done", "aborted"}
    /\ step \in {"none", "server", "client", "both", "remote", "reply", "exited"}
    /\ peer \in [Peers -> Fds \union {None}] /\ fam \in [Peers -> Families]
    /\ caddr \in Addr /\ from \in Addr
    /\ sent \subseteq Datagram /\ seen \subseteq Datagram

(* Whatever fails on the way to a socket, nothing is closed that somebody   *)
(* else owns, by _net_listen's second close() or otherwise; no socket stays *)
(* open that nobody owns, but those known to be leaked; and whoever has a   *)
(* listening or bound socket does not share it.                             *)
Held == {listener, cfd, peer["client"], peer["remote"]} \ {None}
Owned == Foreign \union Held \union leaked
Owns ==
    /\ Owned \subseteq open
    /\ open \subseteq Owned \union (IF at = "idle" THEN {} ELSE {fd})
    /\ ({listener, peer["client"], peer["remote"]} \ {None}) \subseteq ready
    /\ cfd \notin ready
    /\ peer["client"] = peer["remote"] => peer["client"] = None
    /\ \A p \in Peers : peer[p] # None => peer[p] \notin Foreign \union leaked \union {listener}

(* Is b a packet that carries data, with the address a in its header.       *)
IsPacket(b, a, data) ==
    LET n == Len(a.ip)
    IN  /\ Len(b) = 6 + n + Len(data)
        /\ b[3] = 0 /\ b[4] = (IF n = 4 THEN 1 ELSE 4)
        /\ \A i \in 1..n : b[4 + i] = a.ip[i]
        /\ b[5 + n] = a.port \div 256 /\ b[6 + n] = a.port % 256
        /\ \A i \in 1..Len(data) : b[6 + n + i] = data[i]
FromItsClient(e) == Reaches(e, "client") /\ IpEq(Source(e, "client"), caddr)

(* What others receive the client has asked for: the payload of one of its  *)
(* datagrams, unfragmented, sent to the address in its header, whose port   *)
(* is exact if its low byte is less than 128 (parse_udp_packet).            *)
Asked(port) ==
    {port} \union
      (IF SignedChar /\ port >= 65408 THEN {256 * hi + (port % 256) : hi \in 0..255} ELSE {})
AsAsked ==
    \A d \in sent : d.by = "client" =>
      \E e \in seen : FromItsClient(e) /\
        \E ip \in {d.dst.ip, View(16, d.dst.ip)}, port \in Asked(d.dst.port) :
          IsPacket(e.data, FromIp(ip, port), d.data)

(* What the client receives is some datagram that was received for it,      *)
(* behind a header with its source; it is sent to an address the client has *)
(* used, never to another host (udp_client_from).                           *)
AsReceived ==
    \A d \in sent : d.by = "remote" =>
      /\ \E e \in seen : FromItsClient(e) /\ d.dst = FromIp(Canonical(e.src.ip), e.src.port)
      /\ \E e \in seen : Reaches(e, "remote") /\ IsPacket(d.data, Source(e, "remote"), e.data)

(* Only a header without a payload, from the client itself, is stopped by   *)
(* net_sendto()'s assertion.                                                *)
AbortsOnEmpty ==
    /\ state = "aborted" =>
         \E e \in seen : FromItsClient(e) /\ <<e.data[4], Len(e.data)>> \in {<<1, 10>>, <<4, 22>>}
    /\ Asserts => \A d \in sent : d.by = "client" => d.data # <<>>
=============================================================================
