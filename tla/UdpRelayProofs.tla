--------------------------- MODULE UdpRelayProofs ---------------------------
(* Theorems about UdpRelay, for any traffic, addresses, descriptors, address *)
(* candidates, build and number of datagrams.                                *)
EXTENDS UdpRelay, SequenceTheorems, TLAPS

(* One caller at a time waits for _net_listen.                              *)
Calls ==
    /\ at = "idle" <=> step \notin {"server", "client", "remote"}
    /\ step = "server" => call = "stream" /\ listener = None
    /\ step \in Peers => call = "dgram"
    /\ step \in {"client", "both", "remote", "reply"} => state = "CMD"

(* The socket of a running call belongs to nobody yet; after a failure it   *)
(* may be a number that is closed already, never one that is in use.        *)
Socketed ==
    /\ at = "resolve" => fd = None /\ ~err
    /\ at = "loop" => fd \notin open /\ (~err => fd = None)
    /\ at \in {"bind", "bound"} => fd \in open \ Owned /\ cands # <<>>
    /\ at = "bound" => ~err /\ (call = "dgram" => fd \in ready)
    /\ at \in {"return", "done"} =>
         IF err THEN fd \notin Owned ELSE fd \in open \ Owned /\ fd \in ready
    /\ at = "done" /\ err => fd \notin open
    /\ open \subseteq Owned \union (IF at \in {"bind", "bound", "return", "done"} THEN {fd} ELSE {})

(* The client's connection is its own.                                      *)
Connected ==
    /\ state = "none" => cfd = None
    /\ cfd \notin Foreign \union leaked

Descriptors == Calls /\ Socketed /\ Connected /\ Owns

(* Nothing is received before the association, whose client and sockets do  *)
(* not change any more; the client's address comes from a datagram of its.  *)
Relaying ==
    /\ state \in {"none", "CMD"} => seen = {} /\ sent = {}
    /\ from = Unspecified \/ \E e \in seen : FromItsClient(e) /\ from = Source(e, "client")

(* The two halves of TypeOK.                                                *)
SockTypes ==
    /\ open \subseteq Fds /\ ready \subseteq open /\ leaked \subseteq Fds
    /\ at \in {"idle", "resolve", "loop", "bind", "bound", "return", "done"}
    /\ call \in {"none", "stream", "dgram"} /\ cands \in Seq(Families)
    /\ {fd, listener, cfd} \subseteq Fds \union {None}
    /\ err \in BOOLEAN /\ family \in Families
    /\ state \in {"none", "CMD", "UDP", "done", "aborted"}
    /\ step \in {"none", "server", "client", "both", "remote", "reply", "exited"}
    /\ peer \in [Peers -> Fds \union {None}] /\ fam \in [Peers -> Families]
DataTypes == caddr \in Addr /\ from \in Addr /\ sent \subseteq Datagram /\ seen \subseteq Datagram

IndInv == SockTypes /\ DataTypes /\ Descriptors /\ Relaying /\ AsAsked /\ AsReceived /\ AbortsOnEmpty
-----------------------------------------------------------------------------
LEMMA InitDescriptors == Init => SockTypes /\ Descriptors
<1> SUFFICES ASSUME Init PROVE SockTypes /\ Descriptors
  OBVIOUS
<1> USE DEF Init, ListenInit
<1>1. None \notin Fds /\ Foreign \subseteq Fds
  BY ListenAssumption DEF None
<1>2. SockTypes
  <2>1. cands \in Seq(Families)
    BY EmptySeq
  <2>2. peer \in [Peers -> Fds \union {None}] /\ fam \in [Peers -> Families]
    BY DEF Families
  <2>3. open \subseteq Fds /\ ready \subseteq open /\ leaked \subseteq Fds
        /\ {fd, listener, cfd} \subseteq Fds \union {None} /\ err \in BOOLEAN
    BY <1>1
  <2>4. at = "idle" /\ call = "none" /\ family \in Families /\ state = "none" /\ step = "none"
    BY DEF Families
  <2> HIDE DEF Init
  <2> QED BY <2>1, <2>2, <2>3, <2>4 DEF SockTypes
<1>3. Owned = Foreign
  BY DEF Owned, Held, Peers
<1>4. Calls
  BY DEF Calls, Peers
<1>5. Socketed
  BY <1>3 DEF Socketed
<1>6. Connected
  BY <1>1 DEF Connected
<1>7. Owns
  BY <1>1, <1>3 DEF Owns, Peers
<1> QED BY <1>2, <1>4, <1>5, <1>6, <1>7 DEF Descriptors

(* _net_listen changes the descriptors of nobody.                           *)
LEMMA ListenDescriptors ==
    ASSUME SockTypes, Descriptors, ListenNext, UNCHANGED <<state, step, sockVars, relayVars>>
    PROVE  SockTypes' /\ Descriptors'
<1> USE DEF sockVars, relayVars
<1>1. None \notin Fds /\ Foreign \subseteq Fds /\ Candidates \subseteq Seq(Families)
  BY ListenAssumption DEF None
<1>2. Owned' = Owned /\ Owned \subseteq open /\ None \notin Owned
  BY <1>1 DEF Owned, Held, Descriptors, Owns, SockTypes
<1>3. CASE GetAddrInfo
  <2>1. SockTypes'
    BY <1>1, <1>3 DEF GetAddrInfo, SockTypes
  <2>2. Descriptors'
    BY <1>1, <1>2, <1>3 DEF GetAddrInfo, SockTypes, Descriptors, Calls, Socketed, Connected, Owns
  <2> QED BY <2>1, <2>2
<1>4. CASE Socket
  <2>1. Head(cands) \in Families
    BY <1>4 DEF Socket, SockTypes
  <2>2. SockTypes'
    BY <1>1, <1>4, <2>1 DEF Socket, Opens, SockTypes
  <2>3. Descriptors'
    BY <1>1, <1>2, <1>4 DEF Socket, Opens, SockTypes, Descriptors, Calls, Socketed, Connected, Owns
  <2> QED BY <2>2, <2>3
<1>5. CASE SocketFails
  <2>1. SockTypes'
    BY <1>1, <1>5 DEF SocketFails, SockTypes
  <2>2. Descriptors'
    BY <1>1, <1>2, <1>5 DEF SocketFails, SockTypes, Descriptors, Calls, Socketed, Connected, Owns
  <2> QED BY <2>1, <2>2
<1>6. CASE Bind
  <2>1. SockTypes'
    BY <1>1, <1>6 DEF Bind, SockTypes, Descriptors, Socketed
  <2>2. fd \in open \ Owned
    BY <1>6 DEF Bind, Descriptors, Socketed
  <2>3. cfd # fd
    BY <1>1, <2>2 DEF Owned, Held, SockTypes
  <2>4. Descriptors'
    BY <1>1, <1>2, <1>6, <2>2, <2>3 DEF Bind, SockTypes, Descriptors, Calls, Socketed, Connected, Owns
  <2> QED BY <2>1, <2>4
<1>7. CASE BindFails
  <2>1. SockTypes'
    BY <1>1, <1>7 DEF BindFails, CloseFds, SockTypes, Descriptors, Socketed
  <2>2. ({listener, peer["client"], peer["remote"]} \ {None}) \subseteq ready \ {fd}
    BY <1>1, <1>2, <1>7 DEF BindFails, Descriptors, Socketed, Owns, Owned, Held
  <2>3. Descriptors'
    BY <1>1, <1>2, <1>7, <2>2 DEF BindFails, CloseFds, SockTypes, Descriptors, Calls, Socketed, Connected, Owns
  <2> QED BY <2>1, <2>3
<1>8. CASE GiveUp
  <2>1. SockTypes'
    BY <1>1, <1>8 DEF GiveUp, SockTypes
  <2>2. Descriptors'
    BY <1>1, <1>2, <1>8 DEF GiveUp, LoopEnds, NoSocket, SockTypes, Descriptors, Calls, Socketed, Connected, Owns
  <2> QED BY <2>1, <2>2
<1>9. CASE StartListen
  <2>1. fd \in open \ Owned /\ ~err /\ (call = "dgram" => fd \in ready) /\ call # "none"
    BY <1>1, <1>9 DEF StartListen, LoopEnds, NoSocket, Descriptors, Socketed, Calls, Peers, SockTypes
  <2>2. SockTypes'
    BY <1>1, <1>9, <2>1 DEF StartListen, SockTypes
  <2>3. cfd # fd
    BY <1>1, <1>2, <2>1 DEF Owned, Held, SockTypes
  <2>4. Descriptors'
    BY <1>1, <1>2, <1>9, <2>1, <2>3 DEF StartListen, SockTypes, Descriptors, Calls, Socketed, Connected, Owns
  <2> QED BY <2>2, <2>4
<1>10. CASE ListenFails
  <2>1. fd \in open \ Owned
    BY <1>1, <1>10 DEF ListenFails, LoopEnds, NoSocket, Descriptors, Socketed
  <2>2. SockTypes'
    BY <1>1, <1>10 DEF ListenFails, SockTypes
  <2>3. Descriptors'
    BY <1>1, <1>2, <1>10, <2>1 DEF ListenFails, SockTypes, Descriptors, Calls, Socketed, Connected, Owns
  <2> QED BY <2>2, <2>3
<1>11. CASE Return
  <2>1. SockTypes'
    BY <1>1, <1>11 DEF Return, CloseFds, SockTypes
  <2>2. err => fd \notin Owned
    BY <1>11 DEF Return, Descriptors, Socketed
  <2>3. ({listener, peer["client"], peer["remote"]} \ {None}) \subseteq ready'
    BY <1>2, <1>11, <2>2 DEF Return, CloseFds, Descriptors, Owns, Owned, Held
  <2>4. Owned \subseteq open'
    BY <1>2, <1>11, <2>2 DEF Return, CloseFds
  <2>5. Descriptors'
    BY <1>1, <1>2, <1>11, <2>2, <2>3, <2>4
    DEF Return, CloseFds, SockTypes, Descriptors, Calls, Socketed, Connected, Owns
  <2> QED BY <2>1, <2>5
<1> QED BY <1>3, <1>4, <1>5, <1>6, <1>7, <1>8, <1>9, <1>10, <1>11 DEF ListenNext

(* A call that begins.                                                      *)
LEMMA CallDescriptors ==
    ASSUME SockTypes, Descriptors, Start \/ Associate \/ AssociateRemote
    PROVE  SockTypes' /\ Descriptors'
<1> USE DEF sockVars, relayVars
<1>1. Owned' = Owned /\ UNCHANGED <<open, ready, listener, cfd, peer, fam, leaked, state>>
  BY DEF Start, Associate, AssociateRemote, Listen, Owned, Held
<1>2. at = "idle" /\ at' = "resolve" /\ fd' = None /\ ~err' /\ err' \in BOOLEAN
      /\ UNCHANGED <<cands, family>>
  BY DEF Start, Associate, AssociateRemote, Listen
<1>3. \/ step = "none" /\ step' = "server" /\ call' = "stream" /\ listener = None
      \/ state = "CMD" /\ step' \in Peers /\ call' = "dgram"
  BY DEF Start, Associate, AssociateRemote, Listen, Descriptors, Calls, Peers
<1>4. SockTypes'
  BY <1>1, <1>2, <1>3 DEF SockTypes, Peers
<1>5. Calls'
  BY <1>1, <1>2, <1>3 DEF Calls, Peers
<1>6. Socketed' /\ Connected' /\ Owns'
  BY <1>1, <1>2 DEF Descriptors, Socketed, Connected, Owns
<1> QED BY <1>4, <1>5, <1>6 DEF Descriptors

(* The listener; the client's connection.                                   *)
LEMMA ServerDescriptors ==
    ASSUME SockTypes, Descriptors, Started \/ Accept
    PROVE  SockTypes' /\ Descriptors'
<1> USE DEF sockVars, relayVars
<1>1. None \notin Fds /\ Foreign \subseteq Fds
  BY ListenAssumption DEF None
<1>2. CASE Started
  <2>1. listener = None /\ state' = state /\ UNCHANGED <<open, ready, cfd, peer, fam, leaked>>
    BY <1>2 DEF Started, Descriptors, Calls
  <2>2. listener' \in Fds \union {None}
    BY <1>2 DEF Started, SockTypes
  <2>3. SockTypes'
    BY <1>2, <2>2 DEF Started, SockTypes
  <2>4. Calls'
    BY <1>2 DEF Started, Descriptors, Calls, Peers
  <2>5. Connected'
    BY <2>1 DEF Descriptors, Connected
  <2>6. CASE err
    <3>1. listener' = None /\ Owned' = Owned /\ fd \notin open
      BY <1>2, <2>1, <2>6 DEF Started, Owned, Held, Descriptors, Socketed
    <3>2. Socketed' /\ Owns'
      BY <1>2, <2>1, <3>1 DEF Started, Descriptors, Socketed, Owns
    <3> QED BY <2>3, <2>4, <2>5, <3>2 DEF Descriptors
  <2>7. CASE ~err
    <3>1. listener' = fd /\ fd \in open \ Owned /\ fd \in ready /\ fd # None
      BY <1>1, <1>2, <2>7 DEF Started, Descriptors, Socketed, SockTypes
    <3>2. Owned' = Owned \union {fd}
      BY <2>1, <3>1 DEF Owned, Held
    <3>3. Socketed'
      BY <1>2, <2>1, <3>2 DEF Started, Descriptors, Socketed
    <3>4. \A p \in Peers : peer[p] # None => peer[p] # fd
      BY <3>1 DEF Owned, Held, Peers
    <3>5. Owns'
      BY <1>2, <2>1, <3>1, <3>2, <3>4 DEF Started, Descriptors, Owns
    <3> QED BY <2>3, <2>4, <2>5, <3>3, <3>5 DEF Descriptors
  <2> QED BY <2>6, <2>7
<1>3. CASE Accept
  <2> PICK f \in Fds : Opens(f) /\ cfd' = f
    BY <1>3 DEF Accept
  <2>1. f \in Fds \ open /\ open' = open \union {f} /\ f # None /\ cfd = None
    BY <1>1, <1>3 DEF Accept, Opens, Descriptors, Connected
  <2>2. at = "idle" /\ state' = "CMD" /\ step = "none"
        /\ UNCHANGED <<ready, call, at, cands, fd, err, family, step, listener, peer, fam, leaked>>
    BY <1>3 DEF Accept, Descriptors, Calls, Peers
  <2>3. Owned' = Owned \union {f} /\ f \notin Owned
    BY <2>1, <2>2 DEF Owned, Held, Descriptors, Owns
  <2>4. SockTypes'
    BY <2>1, <2>2 DEF SockTypes
  <2>5. Calls' /\ Socketed'
    BY <2>1, <2>2, <2>3 DEF Descriptors, Calls, Socketed, Peers
  <2>6. Connected'
    BY <2>1, <2>2, <2>3 DEF Descriptors, Connected, Owned
  <2>7. Owns'
    BY <2>1, <2>2, <2>3 DEF Descriptors, Owns, SockTypes
  <2> QED BY <2>4, <2>5, <2>6, <2>7 DEF Descriptors
<1> QED BY <1>2, <1>3

(* A peer is made, or not.                                                  *)
LEMMA PeerDescriptors ==
    ASSUME SockTypes, Descriptors, NEW p \in Peers, CreateFails(p) \/ Create(p)
    PROVE  SockTypes' /\ Descriptors'
<1> USE DEF relayVars
<1>1. None \notin Fds /\ Foreign \subseteq Fds
  BY ListenAssumption DEF None
<1>2. CASE CreateFails(p)
  <2>1. at = "done" /\ at' = "idle" /\ step = p /\ step' = "none"
        /\ UNCHANGED <<open, ready, call, cands, fd, err, family, state, listener, cfd, peer, fam>>
    BY <1>2 DEF CreateFails
  <2>2. CASE err
    <3>1. leaked' = leaked /\ Owned' = Owned /\ fd \notin open
      BY <1>2, <2>1, <2>2 DEF CreateFails, Owned, Held, Descriptors, Socketed
    <3>2. SockTypes'
      BY <2>1, <3>1 DEF SockTypes
    <3>3. Descriptors'
      BY <2>1, <3>1 DEF Descriptors, Calls, Socketed, Connected, Owns, Peers
    <3> QED BY <3>2, <3>3
  <2>3. CASE ~err
    <3>1. leaked' = leaked \union {fd} /\ fd \in open \ Owned /\ fd \in Fds
      BY <1>1, <1>2, <2>1, <2>3 DEF CreateFails, Descriptors, Socketed, SockTypes
    <3>2. Owned' = Owned \union {fd}
      BY <2>1, <3>1 DEF Owned, Held
    <3>3. cfd # fd /\ \A q \in Peers : peer[q] # fd
      BY <1>1, <3>1 DEF Owned, Held, Peers
    <3>4. SockTypes'
      BY <2>1, <3>1 DEF SockTypes
    <3>5. Calls' /\ Socketed' /\ Connected'
      BY <2>1, <3>1, <3>2, <3>3 DEF Descriptors, Calls, Socketed, Connected, Peers
    <3>6. Owns'
      BY <2>1, <3>1, <3>2, <3>3 DEF Descriptors, Owns
    <3> QED BY <3>4, <3>5, <3>6 DEF Descriptors
  <2> QED BY <2>2, <2>3
<1>3. CASE Create(p)
  <2>1. at = "done" /\ at' = "idle" /\ step = p /\ step' \in {"both", "reply"} /\ ~err
        /\ UNCHANGED <<open, ready, call, cands, fd, err, family, state, listener, cfd>>
    BY <1>3 DEF Create
  <2>2. fd \in open \ Owned /\ fd \in ready /\ fd # None
    BY <1>1, <2>1 DEF Descriptors, Socketed, SockTypes
  <2>3. peer' = [peer EXCEPT ![p] = fd] /\ fam' = [fam EXCEPT ![p] = family]
        /\ leaked' = leaked \union ({peer[p]} \ {None})
    BY <1>3 DEF Create
  <2>4. peer'[p] = fd /\ \A q \in Peers \ {p} : peer'[q] = peer[q]
    BY <2>3 DEF SockTypes
  <2>5. Held' = (Held \ {peer[p]}) \union {fd}
    <3>1. peer[p] # None => peer[p] \notin {listener, cfd} /\ \A q \in Peers \ {p} : peer[q] # peer[p]
      BY DEF Descriptors, Owns, Peers
    <3> QED BY <2>1, <2>2, <2>4, <3>1 DEF Held, Peers
  <2>6. Owned' = Owned \union {fd}
    BY <2>3, <2>5 DEF Owned, Held, Peers
  <2>7. SockTypes'
    BY <2>1, <2>3 DEF SockTypes
  <2>8. Calls' /\ Socketed'
    BY <2>1, <2>2, <2>6 DEF Descriptors, Calls, Socketed, Peers
  <2>9. cfd # None => cfd # fd /\ cfd # peer[p]
    BY <2>2 DEF Owned, Held, Descriptors, Owns, Peers
  <2>10. Connected'
    BY <1>1, <2>1, <2>3, <2>9 DEF Descriptors, Connected, Calls, SockTypes
  <2>11. \A q \in Peers : peer[q] # fd
    BY <1>1, <2>2 DEF Owned, Held, Peers
  <2>12. fd \notin Foreign \union leaked' \union {listener}
    BY <2>2, <2>3, <2>11 DEF Owned, Held
  <2>13. \A q \in Peers : peer'[q] # None =>
           peer'[q] \notin Foreign \union leaked' \union {listener'}
    <3>1. \A q \in Peers \ {p} : peer[q] # None => peer[q] # peer[p]
      BY DEF Descriptors, Owns, Peers
    <3> QED BY <2>1, <2>3, <2>4, <2>12, <3>1 DEF Descriptors, Owns
  <2>14. peer'["client"] = peer'["remote"] => peer'["client"] = None
    BY <2>4, <2>11 DEF Peers
  <2>15. ({listener', peer'["client"], peer'["remote"]} \ {None}) \subseteq ready'
    BY <2>1, <2>2, <2>4 DEF Descriptors, Owns, Peers
  <2>16. Owns'
    BY <2>1, <2>2, <2>6, <2>13, <2>14, <2>15 DEF Descriptors, Owns
  <2> QED BY <2>7, <2>8, <2>10, <2>16 DEF Descriptors
<1> QED BY <1>2, <1>3

(* The association begins; the client ends.                                 *)
LEMMA ClientDescriptors ==
    ASSUME SockTypes, Descriptors, Reply \/ Done
    PROVE  SockTypes' /\ Descriptors'
<1> USE DEF relayVars
<1>1. None \notin Fds /\ Foreign \subseteq Fds
  BY ListenAssumption DEF None
<1>2. CASE Reply
  <2>1. Owned' = Owned
    BY <1>2 DEF Reply, sockVars, Owned, Held
  <2> QED BY <1>2, <2>1 DEF Reply, sockVars, listenVars, SockTypes, Descriptors, Calls, Socketed,
             Connected, Owns, Peers
<1>3. CASE Done
  <2>1. at = "idle" /\ step' = "none" /\ state' = "done" /\ cfd' = None
        /\ UNCHANGED <<call, at, cands, fd, err, family, listener, fam, leaked>>
    BY <1>3 DEF Done, Descriptors, Calls, Peers
  <2>2. peer' = [q \in Peers |-> None]
        /\ open' = open \ {cfd, peer["client"], peer["remote"]}
        /\ ready' = ready \ {cfd, peer["client"], peer["remote"]}
    BY <1>3 DEF Done, CloseFds
  <2>3. peer'["client"] = None /\ peer'["remote"] = None
    BY <2>2 DEF Peers
  <2>4. Owned' = Foreign \union ({listener} \ {None}) \union leaked
    BY <2>1, <2>3 DEF Owned, Held
  <2>5. {cfd, peer["client"], peer["remote"]} \intersect Owned' \subseteq {None}
    BY <2>4 DEF Descriptors, Owns, Connected, Peers
  <2>6. None \notin Owned' /\ Owned' \subseteq open
    BY <1>1, <2>4 DEF SockTypes, Descriptors, Owns, Owned, Held
  <2>7. open' \subseteq Owned' /\ Owned' \subseteq open'
    BY <2>1, <2>2, <2>4, <2>5, <2>6 DEF Descriptors, Owns, Owned, Held
  <2>8. SockTypes'
    BY <2>1, <2>2 DEF SockTypes
  <2>9. Calls' /\ Socketed' /\ Connected'
    BY <1>1, <2>1, <2>7 DEF Descriptors, Calls, Socketed, Connected, Peers, SockTypes
  <2>10. ({listener} \ {None}) \subseteq ready'
    BY <2>2, <2>4, <2>5 DEF Descriptors, Owns
  <2>11. Owns'
    BY <1>1, <2>1, <2>2, <2>3, <2>7, <2>10 DEF Descriptors, Owns, Peers, SockTypes
  <2> QED BY <2>8, <2>9, <2>11 DEF Descriptors
<1> QED BY <1>2, <1>3

(* Datagrams change no descriptor.                                          *)
LEMMA RelayDescriptors ==
    ASSUME SockTypes, Descriptors, UNCHANGED <<listenVars, step, sockVars>>,
           state' = state \/ (state = "UDP" /\ state' = "aborted")
    PROVE  SockTypes' /\ Descriptors'
<1>1. Owned' = Owned
  BY DEF sockVars, Owned, Held
<1> QED BY <1>1 DEF sockVars, listenVars, SockTypes, Descriptors, Calls, Socketed, Connected, Owns, Peers
-----------------------------------------------------------------------------
(* Sequences of bytes: their elements, parts and concatenations.            *)
Cut(b, m, k) == SubSeq(b, m + 1, m + k)
Join(s, t) == s \o t

LEMMA ByteAt ==
    ASSUME NEW b \in Bytes
    PROVE  Len(b) \in Nat /\ \A i \in 1..Len(b) : b[i] \in Byte
BY ElementOfSeq, LenProperties DEF Bytes

LEMMA Part ==
    ASSUME NEW b \in Bytes, NEW m \in Nat, NEW k \in Nat, m + k <= Len(b)
    PROVE  /\ Cut(b, m, k) \in Bytes /\ Len(Cut(b, m, k)) = k
           /\ \A i \in 1..k : Cut(b, m, k)[i] = b[m + i]
<1> DEFINE from1 == m + 1
           to1 == m + k
<1>1. \A i \in from1..to1 : b[i] \in Byte
  <2> TAKE i \in from1..to1
  <2>1. i \in 1..Len(b)
    BY ByteAt
  <2> QED BY <2>1, ByteAt, Zenon
<1>2. from1 \in Int /\ to1 \in Int
  OBVIOUS
<1>3. /\ SubSeq(b, from1, to1) \in Seq(Byte)
      /\ Len(SubSeq(b, from1, to1)) = IF from1 <= to1 THEN to1 - from1 + 1 ELSE 0
      /\ \A i \in 1..(to1 - from1 + 1) : SubSeq(b, from1, to1)[i] = b[from1 + i - 1]
  <2> HIDE DEF from1, to1
  <2> QED BY <1>1, <1>2, SubSeqProperties
<1> DEFINE c == SubSeq(b, from1, to1)
<1>4. c = Cut(b, m, k)
  BY DEF Cut
<1>5. c \in Seq(Byte) /\ Len(c) = k /\ \A i \in 1..k : c[i] = b[m + i]
  <2>1. to1 - from1 + 1 = k /\ (from1 <= to1 => k > 0) /\ (~(from1 <= to1) => k = 0)
    OBVIOUS
  <2>2. \A i \in 1..k : from1 + i - 1 = m + i
    OBVIOUS
  <2> HIDE DEF from1, to1
  <2>3. c \in Seq(Byte) /\ Len(c) = (IF from1 <= to1 THEN to1 - from1 + 1 ELSE 0)
        /\ \A i \in 1..(to1 - from1 + 1) : c[i] = b[from1 + i - 1]
    BY <1>3
  <2> HIDE DEF c
  <2> QED BY <2>1, <2>2, <2>3
<1> HIDE DEF c
<1> QED BY <1>4, <1>5, Zenon DEF Bytes

LEMMA Joined ==
    ASSUME NEW s \in Bytes, NEW t \in Bytes
    PROVE  /\ Join(s, t) \in Bytes /\ Len(Join(s, t)) = Len(s) + Len(t)
           /\ \A i \in 1..Len(s) : Join(s, t)[i] = s[i]
           /\ \A i \in 1..Len(t) : Join(s, t)[Len(s) + i] = t[i]
<1>1. /\ Join(s, t) \in Seq(Byte) /\ Len(Join(s, t)) = Len(s) + Len(t)
      /\ \A i \in 1..(Len(s) + Len(t)) : Join(s, t)[i] = IF i <= Len(s) THEN s[i] ELSE t[i - Len(s)]
  BY ConcatProperties, Zenon DEF Bytes, Join
<1>2. Len(s) \in Nat /\ Len(t) \in Nat
  BY ByteAt
<1>3. \A i \in 1..Len(s) : Join(s, t)[i] = s[i]
  BY <1>1, <1>2
<1>4. \A i \in 1..Len(t) : Join(s, t)[Len(s) + i] = t[i]
  BY <1>1, <1>2
<1> QED BY <1>1, <1>3, <1>4 DEF Bytes

LEMMA Same ==
    ASSUME NEW s \in Bytes, NEW t \in Bytes, Len(s) = Len(t), \A i \in 1..Len(s) : s[i] = t[i]
    PROVE  s = t
BY SeqEqual DEF Bytes

(* The two forms of an address name the same host.                          *)
LEMMA MappedIsBytes == MappedPrefix \in Bytes /\ Len(MappedPrefix) = 12
<1>1. 0 \in Byte /\ 255 \in Byte
  BY DEF Byte
<1> QED BY <1>1 DEF MappedPrefix, Bytes

LEMMA Mapped ==
    ASSUME NEW ip \in Bytes, Len(ip) = 4
    PROVE  /\ Join(MappedPrefix, ip) \in Bytes /\ Len(Join(MappedPrefix, ip)) = 16
           /\ \A i \in 1..12 : Join(MappedPrefix, ip)[i] = MappedPrefix[i]
           /\ \A i \in 1..4 : Join(MappedPrefix, ip)[12 + i] = ip[i]
<1> DEFINE m == Join(MappedPrefix, ip)
<1>1. /\ m \in Bytes /\ Len(m) = Len(MappedPrefix) + Len(ip)
      /\ \A i \in 1..Len(MappedPrefix) : m[i] = MappedPrefix[i]
      /\ \A i \in 1..Len(ip) : m[Len(MappedPrefix) + i] = ip[i]
  BY MappedIsBytes, Joined, Zenon
<1> HIDE DEF m
<1>2. /\ m \in Bytes /\ Len(m) = 16
      /\ (\A i \in 1..12 : m[i] = MappedPrefix[i]) /\ \A i \in 1..4 : m[12 + i] = ip[i]
  BY <1>1, MappedIsBytes
<1> QED BY <1>2 DEF m

LEMMA Halves ==
    ASSUME NEW b \in Bytes, Len(b) = 16
    PROVE  /\ Cut(b, 0, 12) \in Bytes /\ Len(Cut(b, 0, 12)) = 12
           /\ \A i \in 1..12 : Cut(b, 0, 12)[i] = b[i]
           /\ Cut(b, 12, 4) \in Bytes /\ Len(Cut(b, 12, 4)) = 4
           /\ \A i \in 1..4 : Cut(b, 12, 4)[i] = b[12 + i]
           /\ SubSeq(b, 1, 12) = Cut(b, 0, 12) /\ SubSeq(b, 13, 16) = Cut(b, 12, 4)
<1>1. 0 \in Nat /\ 4 \in Nat /\ 12 \in Nat /\ 0 + 12 <= Len(b) /\ 12 + 4 <= Len(b)
  OBVIOUS
<1>2. /\ Cut(b, 0, 12) \in Bytes /\ Len(Cut(b, 0, 12)) = 12
      /\ \A i \in 1..12 : Cut(b, 0, 12)[i] = b[0 + i]
  BY <1>1, Part, Zenon
<1>3. /\ Cut(b, 12, 4) \in Bytes /\ Len(Cut(b, 12, 4)) = 4
      /\ \A i \in 1..4 : Cut(b, 12, 4)[i] = b[12 + i]
  BY <1>1, Part, Zenon
<1>4. \A i \in 1..12 : 0 + i = i
  OBVIOUS
<1>5. \A i \in 1..12 : Cut(b, 0, 12)[i] = b[i]
  BY <1>2, <1>4, Zenon
<1>6. SubSeq(b, 1, 12) = Cut(b, 0, 12) /\ SubSeq(b, 13, 16) = Cut(b, 12, 4)
  BY DEF Cut
<1> QED BY <1>2, <1>3, <1>5, <1>6, Zenon

LEMMA CanonicalMapped ==
    ASSUME NEW ip \in Bytes, Len(ip) = 4
    PROVE  Canonical(Join(MappedPrefix, ip)) = ip
<1> DEFINE m == Join(MappedPrefix, ip)
<1>1. /\ m \in Bytes /\ Len(m) = 16
      /\ \A i \in 1..12 : m[i] = MappedPrefix[i]
      /\ \A i \in 1..4 : m[12 + i] = ip[i]
  BY Mapped, Zenon
<1> HIDE DEF m
<1>2. Cut(m, 0, 12) = MappedPrefix
  <2>1. Cut(m, 0, 12) \in Bytes /\ Len(Cut(m, 0, 12)) = Len(MappedPrefix)
    BY <1>1, Halves, MappedIsBytes, Zenon
  <2>2. \A i \in 1..Len(Cut(m, 0, 12)) : Cut(m, 0, 12)[i] = MappedPrefix[i]
    BY <1>1, Halves, Zenon
  <2> QED BY <2>1, <2>2, Same, MappedIsBytes, Zenon
<1>3. Cut(m, 12, 4) = ip
  <2>1. Cut(m, 12, 4) \in Bytes /\ Len(Cut(m, 12, 4)) = 4
    BY <1>1, Halves, Zenon
  <2>2. \A i \in 1..4 : Cut(m, 12, 4)[i] = ip[i]
    <3>1. \A i \in 1..4 : Cut(m, 12, 4)[i] = m[12 + i]
      BY <1>1, Halves, Zenon
    <3> QED BY <1>1, <3>1, Zenon
  <2>3. Len(Cut(m, 12, 4)) = Len(ip) /\ \A i \in 1..Len(Cut(m, 12, 4)) : Cut(m, 12, 4)[i] = ip[i]
    BY <2>1, <2>2, Zenon
  <2> QED BY <2>1, <2>3, Same, Zenon
<1>4. SubSeq(m, 1, 12) = MappedPrefix /\ SubSeq(m, 13, 16) = ip
  BY <1>1, <1>2, <1>3, Halves, Zenon
<1>5. Canonical(m) = ip
  BY <1>1, <1>4, Zenon DEF Canonical
<1> QED BY <1>5 DEF m

LEMMA ViewIs ==
    ASSUME NEW f, NEW ip
    PROVE  View(f, ip) = IF f = 16 /\ Len(ip) = 4 THEN Join(MappedPrefix, ip) ELSE ip
BY Zenon DEF View, Join

LEMMA Viewed ==
    ASSUME NEW f \in Families, NEW ip \in Bytes, Len(ip) \in Families
    PROVE  /\ View(f, ip) \in Bytes /\ Len(View(f, ip)) \in Families
           /\ Canonical(View(f, ip)) = Canonical(ip)
<1>1. CASE f = 16 /\ Len(ip) = 4
  <2>1. View(f, ip) = Join(MappedPrefix, ip)
    BY <1>1, ViewIs, Zenon
  <2>2. Canonical(ip) = ip
    BY <1>1 DEF Canonical
  <2>3. 16 \in Families
    BY DEF Families
  <2> DEFINE m == Join(MappedPrefix, ip)
  <2>4. m \in Bytes /\ Len(m) = 16
    BY <1>1, Mapped, Zenon
  <2>5. Canonical(m) = ip
    BY <1>1, CanonicalMapped, Zenon
  <2>6. View(f, ip) = m
    BY <2>1
  <2> HIDE DEF m
  <2> QED BY <2>2, <2>3, <2>4, <2>5, <2>6, Zenon
<1>2. CASE ~(f = 16 /\ Len(ip) = 4)
  BY <1>2, ViewIs, Zenon
<1> QED BY <1>1, <1>2

LEMMA Canonized ==
    ASSUME NEW ip \in Bytes, Len(ip) \in Families
    PROVE  /\ Canonical(ip) \in Bytes /\ Len(Canonical(ip)) \in Families
           /\ ip \in {Canonical(ip), View(16, Canonical(ip))}
<1>1. CASE Len(ip) = 16 /\ Cut(ip, 0, 12) = MappedPrefix
  <2> DEFINE c == Cut(ip, 12, 4)
             m == Join(MappedPrefix, c)
  <2>1. c \in Bytes /\ Len(c) = 4 /\ \A i \in 1..4 : c[i] = ip[12 + i]
    BY <1>1, Halves, Zenon
  <2>2. \A i \in 1..12 : ip[i] = MappedPrefix[i]
    BY <1>1, Halves, Zenon
  <2>3. Canonical(ip) = c
    BY <1>1, Halves, Zenon DEF Canonical
  <2>4. /\ m \in Bytes /\ Len(m) = 16
        /\ \A i \in 1..12 : m[i] = MappedPrefix[i]
        /\ \A i \in 1..4 : m[12 + i] = c[i]
    BY <2>1, Mapped, Zenon
  <2>5. View(16, c) = m
    BY <2>1, ViewIs, Zenon
  <2> HIDE DEF c, m
  <2>6. \A i \in 1..16 : ip[i] = m[i]
    <3> TAKE i \in 1..16
    <3>1. CASE i <= 12
      <4>1. i \in 1..12
        BY <3>1
      <4> QED BY <2>2, <2>4, <4>1, Zenon
    <3>2. CASE i > 12
      <4> DEFINE j == i - 12
      <4>1. j \in 1..4 /\ i = 12 + j
        BY <3>2
      <4> HIDE DEF j
      <4>2. c[j] = ip[12 + j] /\ m[12 + j] = c[j]
        BY <2>1, <2>4, <4>1, Zenon
      <4> QED BY <4>1, <4>2, Zenon
    <3> QED BY <3>1, <3>2
  <2>7. ip = m
    <3>1. Len(ip) = Len(m) /\ \A i \in 1..Len(ip) : ip[i] = m[i]
      BY <1>1, <2>4, <2>6, Zenon
    <3> QED BY <2>4, <3>1, Same, Zenon
  <2>8. 4 \in Families
    BY DEF Families
  <2> QED BY <2>1, <2>3, <2>5, <2>7, <2>8, Zenon
<1>2. CASE ~(Len(ip) = 16 /\ Cut(ip, 0, 12) = MappedPrefix)
  <2>1. Canonical(ip) = ip
    BY <1>2, Halves, Zenon DEF Canonical
  <2> QED BY <2>1, Zenon
<1> QED BY <1>1, <1>2

(* What pack_udp_packet makes is a packet.                                  *)
Build(h, ip, p, data) == Join(Join(Join(h, ip), p), data)

Fields(h, ip, n, p, data) ==
    /\ h \in Bytes /\ Len(h) = 4
    /\ ip \in Bytes /\ n \in Nat /\ Len(ip) = n
    /\ p \in Bytes /\ Len(p) = 2 /\ data \in Bytes

Laid(b, h, ip, n, p, data) ==
    /\ b \in Bytes /\ Len(b) = 6 + n + Len(data)
    /\ b[3] = h[3] /\ b[4] = h[4] /\ \A i \in 1..n : b[4 + i] = ip[i]
    /\ b[5 + n] = p[1] /\ b[6 + n] = p[2]
    /\ \A i \in 1..Len(data) : b[6 + n + i] = data[i]

LEMMA Assembled ==
    ASSUME NEW h, NEW ip, NEW n, NEW p, NEW data, Fields(h, ip, n, p, data)
    PROVE  Laid(Build(h, ip, p, data), h, ip, n, p, data)
<1> DEFINE hi == Join(h, ip)
           hip == Join(hi, p)
           b == Build(h, ip, p, data)
<1>0. /\ h \in Bytes /\ Len(h) = 4 /\ ip \in Bytes /\ n \in Nat /\ Len(ip) = n
      /\ p \in Bytes /\ Len(p) = 2 /\ data \in Bytes
  BY Zenon DEF Fields
<1>1. /\ hi \in Bytes /\ Len(hi) = Len(h) + Len(ip)
      /\ \A i \in 1..Len(h) : hi[i] = h[i]
      /\ \A i \in 1..Len(ip) : hi[Len(h) + i] = ip[i]
  BY <1>0, Joined, Zenon
<1>2. b = Join(hip, data)
  BY Zenon DEF Build
<1> HIDE DEF b
<1> HIDE DEF hi
<1>3. /\ hip \in Bytes /\ Len(hip) = Len(hi) + Len(p)
      /\ \A i \in 1..Len(hi) : hip[i] = hi[i]
      /\ \A i \in 1..Len(p) : hip[Len(hi) + i] = p[i]
  BY <1>0, <1>1, Joined, Zenon
<1> HIDE DEF hip
<1>4. /\ b \in Bytes /\ Len(b) = Len(hip) + Len(data)
      /\ \A i \in 1..Len(hip) : b[i] = hip[i]
      /\ \A i \in 1..Len(data) : b[Len(hip) + i] = data[i]
  <2>1. /\ Join(hip, data) \in Bytes /\ Len(Join(hip, data)) = Len(hip) + Len(data)
        /\ \A i \in 1..Len(hip) : Join(hip, data)[i] = hip[i]
        /\ \A i \in 1..Len(data) : Join(hip, data)[Len(hip) + i] = data[i]
    BY <1>0, <1>3, Joined, Zenon
  <2> QED BY <1>0, <1>2, <2>1
<1>5. Len(hi) = 4 + n
  BY <1>0, <1>1, Zenon
<1>6. Len(hip) = 6 + n
  BY <1>0, <1>3, <1>5
<1>7. \A i \in 1..(4 + n) : b[i] = hi[i]
  <2> TAKE i \in 1..(4 + n)
  <2>1. i \in 1..Len(hi) /\ i \in 1..Len(hip)
    BY <1>0, <1>5, <1>6
  <2> QED BY <1>0, <1>3, <1>4, <2>1, Zenon
<1>8. b[3] = h[3] /\ b[4] = h[4]
  <2>1. b[3] = hi[3] /\ b[4] = hi[4]
    BY <1>0, <1>7
  <2>2. hi[3] = h[3] /\ hi[4] = h[4]
    BY <1>0, <1>1
  <2> QED BY <1>0, <2>1, <2>2, Zenon
<1>9. \A i \in 1..n : b[4 + i] = ip[i]
  <2> TAKE i \in 1..n
  <2>1. 4 + i \in 1..(4 + n)
    BY <1>0
  <2>2. hi[4 + i] = ip[i]
    BY <1>0, <1>1, Zenon
  <2> QED BY <1>0, <1>7, <2>1, <2>2, Zenon
<1>10. b[5 + n] = p[1] /\ b[6 + n] = p[2]
  <2>1. /\ 1 \in 1..2 /\ 2 \in 1..2 /\ 5 + n \in 1..(6 + n) /\ 6 + n \in 1..(6 + n)
        /\ 5 + n = (4 + n) + 1 /\ 6 + n = (4 + n) + 2
    BY <1>0
  <2>2. hip[(4 + n) + 1] = p[1] /\ hip[(4 + n) + 2] = p[2]
    BY <1>0, <1>3, <1>5, <2>1, Zenon
  <2>3. b[5 + n] = hip[5 + n] /\ b[6 + n] = hip[6 + n]
    BY <1>0, <1>4, <1>6, <2>1, Zenon
  <2>4. hip[5 + n] = hip[(4 + n) + 1] /\ hip[6 + n] = hip[(4 + n) + 2]
    BY <1>0, <2>1, Zenon
  <2> QED BY <1>0, <2>2, <2>3, <2>4, Zenon
<1>11. Len(b) = 6 + n + Len(data)
  BY <1>4, <1>6, Zenon
<1>12. \A i \in 1..Len(data) : b[6 + n + i] = data[i]
  BY <1>4, <1>6, Zenon
<1>13. Laid(b, h, ip, n, p, data)
  BY <1>4, <1>8, <1>9, <1>10, <1>11, <1>12, Zenon DEF Laid
<1> QED BY <1>13 DEF b

LEMMA AddrParts ==
    ASSUME NEW a \in Addr
    PROVE  /\ a.ip \in Bytes /\ Len(a.ip) \in Families /\ a.port \in Ports
           /\ Len(a.ip) \in Nat
BY DEF Addr, Families

LEMMA PortRange == \A port : port \in Ports <=> port \in Int /\ 0 <= port /\ port <= 65535
<1>1. MaxPort = 65535
  BY SMT DEF MaxPort
<1>2. MaxPort \in Int
  BY <1>1, SMT
<1>3. \A port : port \in Ports <=> port \in Int /\ 0 <= port /\ port <= MaxPort
  BY <1>2, SMT DEF Ports
<1> QED BY <1>1, <1>3, SMT

LEMMA PortBytes ==
    ASSUME NEW port \in Ports
    PROVE  <<port \div 256, port % 256>> \in Bytes
<1> DEFINE x == port \div 256
           y == port % 256
<1>1. x \in Byte /\ y \in Byte
  BY PortRange, SMT DEF Byte
<1> HIDE DEF x, y
<1>2. <<x, y>> \in Bytes
  BY <1>1, SMT DEF Bytes
<1> QED BY <1>2 DEF x, y

LEMMA Packed ==
    ASSUME NEW a \in Addr, NEW data \in Bytes
    PROVE  Pack(a, data) \in Bytes /\ IsPacket(Pack(a, data), a, data)
<1> DEFINE n == Len(a.ip)
           t == IF Len(a.ip) = 4 THEN Ipv4 ELSE Ipv6
           h == <<0, 0, 0, t>>
           p == <<a.port \div 256, a.port % 256>>
           b == Build(h, a.ip, p, data)
<1>1. t \in Byte /\ 0 \in Byte /\ t = IF n = 4 THEN 1 ELSE 4
  BY DEF Ipv4, Ipv6, Byte
<1>2. b = Pack(a, data)
  BY Zenon DEF Pack, Build, Join
<1>3. a.ip \in Bytes /\ n \in Nat /\ a.port \in Ports /\ Len(a.ip) = n
  BY AddrParts
<1> HIDE DEF t
<1>4. h \in Bytes /\ Len(h) = 4 /\ h[3] = 0 /\ h[4] = t
  BY <1>1 DEF Bytes
<1>5. p \in Bytes
  BY <1>3, PortBytes, Zenon
<1>6. Len(p) = 2 /\ p[1] = a.port \div 256 /\ p[2] = a.port % 256
  OBVIOUS
<1> HIDE DEF h, p, n
<1> HIDE DEF b
<1>7. /\ b \in Bytes /\ Len(b) = 6 + n + Len(data)
      /\ b[3] = h[3] /\ b[4] = h[4] /\ \A i \in 1..n : b[4 + i] = a.ip[i]
      /\ b[5 + n] = p[1] /\ b[6 + n] = p[2]
      /\ \A i \in 1..Len(data) : b[6 + n + i] = data[i]
  <2>1. Fields(h, a.ip, n, p, data)
    BY <1>3, <1>4, <1>5, <1>6 DEF Fields
  <2>2. Laid(b, h, a.ip, n, p, data)
    BY <2>1, Assembled, Zenon DEF b
  <2> QED BY <2>2, Zenon DEF Laid
<1>8. b[3] = 0 /\ b[4] = IF n = 4 THEN 1 ELSE 4
  BY <1>1, <1>4, <1>7, Zenon
<1>9. b[5 + n] = a.port \div 256 /\ b[6 + n] = a.port % 256
  BY <1>6, <1>7, Zenon
<1>10. IsPacket(b, a, data)
  BY <1>7, <1>8, <1>9, Zenon DEF IsPacket, n
<1> QED BY <1>2, <1>7, <1>10, Zenon

(* A port that parse_udp_packet computes.                                   *)
BigEndian(hi, lo) == 256 * hi + lo

LEMMA PortOf ==
    ASSUME NEW hi \in Byte, NEW lo \in Byte
    PROVE  /\ Port(hi, lo) \in Ports
           /\ BigEndian(hi, lo) \in Asked(Port(hi, lo))
           /\ BigEndian(hi, lo) \div 256 = hi /\ BigEndian(hi, lo) % 256 = lo
<1> DEFINE port == BigEndian(hi, lo)
<1>0. port = 256 * hi + lo
  BY DEF BigEndian
<1>1. port \in Ports
  BY PortRange, SMT DEF BigEndian, Byte
<1>2. port \div 256 = hi /\ port % 256 = lo
  BY SMT DEF BigEndian, Byte
<1>3. CASE SignedChar /\ lo >= 128
  <2> DEFINE low == 65280 + lo
  <2>1. Port(hi, lo) = low
    BY <1>3, SMT DEF Port, Widen, Byte
  <2>2. low % 256 = lo /\ low >= 65408
    BY <1>3, SMT DEF Byte
  <2>3. low \in Ports
    BY PortRange, SMT DEF Byte
  <2>4. port = 256 * hi + (low % 256)
    BY <1>0, <2>2
  <2> HIDE DEF low, port
  <2>5. port \in Asked(low)
    BY <1>3, <2>2, <2>4, SMT DEF Asked, Byte
  <2> QED BY <1>2, <2>1, <2>3, <2>5, Zenon DEF port
<1>4. CASE ~(SignedChar /\ lo >= 128)
  <2>1. Widen(lo) = lo
    BY <1>4, SMT DEF Widen, Byte
  <2>2. Widen(hi) = hi \/ Widen(hi) = 65280 + hi
    BY SMT DEF Widen, Byte
  <2>3. (hi * 256) % 65536 = 256 * hi /\ ((65280 + hi) * 256) % 65536 = 256 * hi
    BY SMT DEF Byte
  <2>4. (Widen(hi) * 256) % 65536 = 256 * hi
    BY <2>2, <2>3, SMT
  <2>5. Port(hi, lo) = port
    BY <1>0, <2>1, <2>4, SMT DEF Port, Byte
  <2> HIDE DEF port
  <2>6. port \in Asked(port)
    BY SMT DEF Asked, Byte
  <2> QED BY <1>1, <1>2, <2>5, <2>6, Zenon DEF port
<1> QED BY <1>3, <1>4

(* What parse_udp_packet takes from a packet is in it.                      *)
LEMMA Parsed ==
    ASSUME NEW b \in Bytes, Relayable(b)
    PROVE  /\ ToAddr(b) \in Addr /\ Payload(b) \in Bytes
           /\ \E port \in Asked(ToAddr(b).port) :
                IsPacket(b, FromIp(ToAddr(b).ip, port), Payload(b))
<1> DEFINE n == AddrLen(b)
           ip == SubSeq(b, 5, 4 + n)
           data == SubSeq(b, 7 + n, Len(b))
           k == Len(b) - (6 + n)
           hi == b[5 + n]
           lo == b[6 + n]
<1>1. b[3] = 0 /\ ((b[4] = 1 /\ n = 4) \/ (b[4] = 4 /\ n = 16)) /\ Len(b) >= 6 + n
  BY SMT DEF Relayable, Parses, AddrLen, Ipv4, Ipv6, Domain
<1>2. ToAddr(b) = FromIp(ip, Port(hi, lo)) /\ Payload(b) = data
  BY Zenon DEF ToAddr, Payload
<1>3. Len(b) \in Nat
  BY ByteAt
<1> HIDE DEF n, ip, data
<1>4. /\ 4 \in Nat /\ n \in Nat /\ 4 + n <= Len(b) /\ 6 + n \in Nat /\ k \in Nat
      /\ (6 + n) + k <= Len(b) /\ 5 + n \in 1..Len(b) /\ 6 + n \in 1..Len(b)
  <2>1. n \in Nat /\ Len(b) >= 6 + n
    BY <1>1, SMT
  <2>2. k \in Nat /\ (6 + n) + k <= Len(b)
    BY <1>3, <2>1, SMT
  <2> QED BY <1>3, <2>1, <2>2, SMT
<1>5. ip = Cut(b, 4, n) /\ data = Cut(b, 6 + n, k)
  <2>1. 4 + 1 = 5 /\ (6 + n) + 1 = 7 + n /\ (6 + n) + k = Len(b)
    BY <1>3, <1>4, SMT
  <2> QED BY <2>1, Zenon DEF Cut, ip, data
<1>6. hi \in Byte /\ lo \in Byte
  BY <1>4, ByteAt, Zenon
<1> HIDE DEF ip, data, k, hi, lo
<1>7. ip \in Bytes /\ Len(ip) = n /\ \A i \in 1..n : ip[i] = b[4 + i]
  BY <1>4, <1>5, Part, Zenon
<1>8. data \in Bytes /\ Len(data) = k /\ \A i \in 1..k : data[i] = b[6 + n + i]
  BY <1>4, <1>5, Part, Zenon
<1> DEFINE port == BigEndian(hi, lo)
           got == Port(hi, lo)
<1>9. got \in Ports /\ port \in Asked(got) /\ port \div 256 = hi /\ port % 256 = lo
  <2>1. \A h, l \in Byte : /\ Port(h, l) \in Ports /\ BigEndian(h, l) \in Asked(Port(h, l))
                             /\ BigEndian(h, l) \div 256 = h /\ BigEndian(h, l) % 256 = l
    <3> TAKE h, l \in Byte
    <3> QED BY PortOf, Zenon
  <2> QED BY <1>6, <2>1, SMT
<1> HIDE DEF got, port
<1>10. ToAddr(b).ip = ip /\ ToAddr(b).port = got
  BY <1>2 DEF FromIp, got
<1>11. ToAddr(b) \in Addr
  <2>1. Len(ip) \in Families
    BY <1>1, <1>7, SMT DEF Families
  <2>2. FromIp(ip, got) \in Addr
    BY <1>7, <1>9, <2>1, SMT DEF FromIp, Addr
  <2> QED BY <1>2, <2>2, Zenon DEF got
<1>12. Len(b) = 6 + n + Len(data)
  BY <1>3, <1>4, <1>8, SMT DEF k
<1>13. IsPacket(b, FromIp(ip, port), data)
  <2>1. FromIp(ip, port).ip = ip /\ FromIp(ip, port).port = port
    BY DEF FromIp
  <2>2. b[4] = IF n = 4 THEN 1 ELSE 4
    BY <1>1
  <2>3. b[5 + n] = hi /\ b[6 + n] = lo
    BY DEF hi, lo
  <2>4. b[3] = 0
    BY <1>1
  <2>5. \A i \in 1..Len(ip) : b[4 + i] = ip[i]
    BY <1>7, Zenon
  <2>6. \A i \in 1..Len(data) : b[6 + n + i] = data[i]
    BY <1>8, Zenon
  <2> QED BY <1>7, <1>9, <1>12, <2>1, <2>2, <2>3, <2>4, <2>5, <2>6, Zenon DEF IsPacket
<1> QED BY <1>2, <1>8, <1>9, <1>10, <1>11, <1>13, Zenon
-----------------------------------------------------------------------------
(* The parts of AsAsked and AsReceived that are about one datagram.          *)
AskedBy(e, d) ==
    FromItsClient(e) /\
      \E ip \in {d.dst.ip, View(16, d.dst.ip)}, port \in Asked(d.dst.port) :
        IsPacket(e.data, FromIp(ip, port), d.data)
GoesTo(e, d) == FromItsClient(e) /\ d.dst = FromIp(Canonical(e.src.ip), e.src.port)
Carries(e, d) == Reaches(e, "remote") /\ IsPacket(d.data, Source(e, "remote"), e.data)
Empty(e) == FromItsClient(e) /\ <<e.data[4], Len(e.data)>> \in {<<1, 10>>, <<4, 22>>}

LEMMA ByDatagram ==
    /\ AsAsked <=> \A d \in sent : d.by = "client" => \E e \in seen : AskedBy(e, d)
    /\ AsReceived <=> \A d \in sent : d.by = "remote" =>
                        (\E e \in seen : GoesTo(e, d)) /\ \E e \in seen : Carries(e, d)
    /\ AbortsOnEmpty <=> /\ state = "aborted" => \E e \in seen : Empty(e)
                         /\ Asserts => \A d \in sent : d.by = "client" => d.data # <<>>
<1>1. AsAsked <=> \A d \in sent : d.by = "client" => \E e \in seen : AskedBy(e, d)
  BY Zenon DEF AsAsked, AskedBy
<1>2. AsReceived <=> \A d \in sent : d.by = "remote" =>
                       (\E e \in seen : GoesTo(e, d)) /\ \E e \in seen : Carries(e, d)
  BY Zenon DEF AsReceived, GoesTo, Carries
<1>3. AbortsOnEmpty <=> /\ state = "aborted" => \E e \in seen : Empty(e)
                        /\ Asserts => \A d \in sent : d.by = "client" => d.data # <<>>
  BY Zenon DEF AbortsOnEmpty, Empty
<1> QED BY <1>1, <1>2, <1>3, Zenon

(* While the client and the families stay, so does what a datagram means.   *)
LEMMA Meaning ==
    ASSUME UNCHANGED <<caddr, fam>>
    PROVE  /\ \A e : FromItsClient(e)' <=> FromItsClient(e)
           /\ \A e, p : Source(e, p)' = Source(e, p)
           /\ AsAsked' <=> \A d \in sent' : d.by = "client" => \E e \in seen' : AskedBy(e, d)
           /\ AsReceived' <=> \A d \in sent' : d.by = "remote" =>
                                (\E e \in seen' : GoesTo(e, d)) /\ \E e \in seen' : Carries(e, d)
           /\ AbortsOnEmpty' <=> /\ state' = "aborted" => \E e \in seen' : Empty(e)
                                 /\ Asserts => \A d \in sent' : d.by = "client" => d.data # <<>>
<1>1. \A e, p : Source(e, p)' = Source(e, p)
  BY DEF Source
<1>2. \A e : FromItsClient(e)' <=> FromItsClient(e)
  BY <1>1 DEF FromItsClient, IpEq
<1>3. AsAsked' <=> \A d \in sent' : d.by = "client" => \E e \in seen' : AskedBy(e, d)
  BY <1>2, Zenon DEF AsAsked, AskedBy
<1>4. AsReceived' <=> \A d \in sent' : d.by = "remote" =>
                        (\E e \in seen' : GoesTo(e, d)) /\ \E e \in seen' : Carries(e, d)
  <2>1. \A e, d : IsPacket(d.data, Source(e, "remote"), e.data)' <=>
                 IsPacket(d.data, Source(e, "remote"), e.data)
    BY <1>1
  <2> QED BY <1>2, <2>1, Zenon DEF AsReceived, GoesTo, Carries
<1>5. AbortsOnEmpty' <=> /\ state' = "aborted" => \E e \in seen' : Empty(e)
                         /\ Asserts => \A d \in sent' : d.by = "client" => d.data # <<>>
  BY <1>2, Zenon DEF AbortsOnEmpty, Empty
<1> QED BY <1>1, <1>2, <1>3, <1>4, <1>5, Zenon

Data == DataTypes /\ Relaying /\ AsAsked /\ AsReceived /\ AbortsOnEmpty

LEMMA InitData == Init => Data
<1> SUFFICES ASSUME Init PROVE Data
  OBVIOUS
<1>1. Unspecified \in Addr
  <2>1. 0 \in Byte
    BY DEF Byte
  <2>2. <<0, 0, 0, 0>> \in Bytes /\ Len(<<0, 0, 0, 0>>) \in Families
    BY <2>1 DEF Bytes, Families
  <2>3. 0 \in Ports
    BY PortRange, SMT
  <2> QED BY <2>2, <2>3 DEF Unspecified, FromIp, Addr
<1>2. DataTypes
  BY <1>1 DEF Init, DataTypes
<1>3. Relaying
  BY DEF Init, Relaying
<1>4. AsAsked /\ AsReceived /\ AbortsOnEmpty
  BY DEF Init, AsAsked, AsReceived, AbortsOnEmpty
<1> QED BY <1>2, <1>3, <1>4 DEF Data

(* A step that receives nothing.                                            *)
LEMMA QuietData ==
    ASSUME Data, UNCHANGED <<caddr, fam, relayVars>>,
           state' \in {state, "UDP", "done"}
    PROVE  Data'
<1>1. UNCHANGED <<caddr, fam>> /\ UNCHANGED <<from, sent, seen>>
  BY DEF relayVars
<1>2. DataTypes'
  BY <1>1 DEF Data, DataTypes
<1>3. Relaying'
  <2>1. state' \in {"none", "CMD"} => state \in {"none", "CMD"}
    OBVIOUS
  <2> QED BY <1>1, <2>1, Meaning DEF Data, Relaying
<1>4. AsAsked'
  BY <1>1, Meaning, ByDatagram DEF Data
<1>5. AsReceived'
  BY <1>1, Meaning, ByDatagram DEF Data
<1>6. AbortsOnEmpty'
  BY <1>1, Meaning, ByDatagram DEF Data
<1> QED BY <1>2, <1>3, <1>4, <1>5, <1>6 DEF Data

(* A step before anything is received.                                      *)
LEMMA EarlyData ==
    ASSUME Data, state \in {"none", "CMD"}, state' = "CMD", UNCHANGED relayVars, caddr' \in Addr
    PROVE  Data'
<1>1. seen' = {} /\ sent' = {} /\ from' = Unspecified /\ from' \in Addr
  BY DEF Data, DataTypes, Relaying, relayVars
<1>2. DataTypes'
  BY <1>1 DEF DataTypes
<1>3. Relaying'
  BY <1>1 DEF Relaying
<1>4. AsAsked' /\ AsReceived' /\ AbortsOnEmpty'
  BY <1>1 DEF AsAsked, AsReceived, AbortsOnEmpty
<1> QED BY <1>2, <1>3, <1>4 DEF Data

(* What a step that receives d has to show.                                 *)
LEMMA ReceiveData ==
    ASSUME Data, NEW d \in Datagram, seen' = seen \union {d}, UNCHANGED <<caddr, fam>>,
           state = "UDP", state' = "UDP" \/ (state' = "aborted" /\ Empty(d)),
           from' \in Addr, from' = from \/ (FromItsClient(d) /\ from' = Source(d, "client")),
           sent' \subseteq Datagram,
           \A x \in sent' :
             \/ x \in sent
             \/ x.by = "client" /\ AskedBy(d, x) /\ (Asserts => x.data # <<>>)
             \/ x.by = "remote" /\ Carries(d, x) /\ \E e \in seen : GoesTo(e, x)
    PROVE  Data'
<1>1. DataTypes'
  BY DEF Data, DataTypes
<1>2. Relaying'
  <2>1. from = Unspecified \/ \E e \in seen : FromItsClient(e) /\ from = Source(e, "client")
    BY DEF Data, Relaying
  <2>2. from' = Unspecified \/ \E e \in seen' : FromItsClient(e) /\ from' = Source(e, "client")
    BY <2>1
  <2>3. (from = Unspecified \/ \E e \in seen : FromItsClient(e) /\ from = Source(e, "client"))'
    BY <2>2, Meaning
  <2> QED BY <2>3 DEF Relaying
<1>3. AsAsked'
  <2>1. \A x \in sent : x.by = "client" => \E e \in seen : AskedBy(e, x)
    BY ByDatagram DEF Data
  <2>2. \A x \in sent' : x.by = "client" => \E e \in seen' : AskedBy(e, x)
    BY <2>1
  <2> QED BY <2>2, Meaning, Zenon
<1>4. AsReceived'
  <2>1. \A x \in sent : x.by = "remote" =>
          (\E e \in seen : GoesTo(e, x)) /\ \E e \in seen : Carries(e, x)
    BY ByDatagram DEF Data
  <2>2. \A x \in sent' : x.by = "remote" =>
          (\E e \in seen' : GoesTo(e, x)) /\ \E e \in seen' : Carries(e, x)
    BY <2>1
  <2> QED BY <2>2, Meaning, Zenon
<1>5. AbortsOnEmpty'
  <2>1. Asserts => \A x \in sent : x.by = "client" => x.data # <<>>
    BY ByDatagram DEF Data
  <2>2. Asserts => \A x \in sent' : x.by = "client" => x.data # <<>>
    BY <2>1
  <2>3. state' = "aborted" => \E e \in seen' : Empty(e)
    OBVIOUS
  <2> QED BY <2>2, <2>3, Meaning, Zenon
<1> QED BY <1>1, <1>2, <1>3, <1>4, <1>5 DEF Data

LEMMA DatagramParts ==
    ASSUME NEW d \in Datagram
    PROVE  d.src \in Addr /\ d.dst \in Addr /\ d.data \in Bytes
BY DEF Datagram

LEMMA AddrOf ==
    ASSUME NEW ip \in Bytes, Len(ip) \in Families, NEW port \in Ports
    PROVE  FromIp(ip, port) \in Addr /\ FromIp(ip, port).ip = ip /\ FromIp(ip, port).port = port
BY DEF FromIp, Addr

LEMMA SourceType ==
    ASSUME SockTypes, NEW d \in Datagram, NEW p \in Peers
    PROVE  /\ Source(d, p) \in Addr /\ Source(d, p).port = d.src.port
           /\ Canonical(Source(d, p).ip) = Canonical(d.src.ip)
<1>1. d.src.ip \in Bytes /\ Len(d.src.ip) \in Families /\ d.src.port \in Ports
  BY DatagramParts, AddrParts, Zenon
<1>2. fam[p] \in Families
  BY DEF SockTypes
<1> DEFINE ip == View(fam[p], d.src.ip)
<1>3. ip \in Bytes /\ Len(ip) \in Families /\ Canonical(ip) = Canonical(d.src.ip)
  BY <1>1, <1>2, Viewed, Zenon
<1> HIDE DEF ip
<1>4. Source(d, p) = FromIp(ip, d.src.port)
  BY DEF Source, ip
<1> DEFINE a == FromIp(ip, d.src.port)
<1>5. a \in Addr /\ a.ip = ip /\ a.port = d.src.port
  BY <1>1, <1>3, AddrOf, Zenon
<1> HIDE DEF a
<1>6. Source(d, p) = a
  BY <1>4 DEF a
<1> QED BY <1>3, <1>5, <1>6

(* What sendto() adds.                                                      *)
LEMMA Sends ==
    ASSUME NEW a \in Addr, NEW data \in Bytes, NEW by \in Peers, SendTo(a, data, by),
           sent \subseteq Datagram
    PROVE  /\ sent' \subseteq Datagram
           /\ \A x \in sent' : x \in sent \/
                (x.by = by /\ x.data = data /\ x.dst = FromIp(Canonical(a.ip), a.port))
<1> DEFINE to == FromIp(Canonical(a.ip), a.port)
           own == FromIp(HostIp[Len(to.ip)], LocalPort["remote"])
           new == [src |-> own, dst |-> to, data |-> data, by |-> by]
<1>1. a.ip \in Bytes /\ Len(a.ip) \in Families /\ a.port \in Ports
  BY AddrParts
<1>2. Canonical(a.ip) \in Bytes /\ Len(Canonical(a.ip)) \in Families
  BY <1>1, Canonized, Zenon
<1>3. to \in Addr
  BY <1>1, <1>2, AddrOf, Zenon
<1>4. Len(to.ip) \in Families
  BY <1>3, AddrParts, Zenon
<1>5. HostIp[Len(to.ip)] \in Bytes /\ Len(HostIp[Len(to.ip)]) \in Families
      /\ LocalPort["remote"] \in Ports
  <2> HIDE DEF to
  <2> QED BY <1>4, RelayAssumption DEF Peers
<1>6. own \in Addr
  BY <1>5, AddrOf, Zenon
<1>7. sent' = sent \union {new}
  BY Zenon DEF SendTo
<1> HIDE DEF to, own
<1>8. new \in Datagram
  BY <1>3, <1>6 DEF Datagram, Peers
<1>9. new.by = by /\ new.data = data /\ new.dst = to
  OBVIOUS
<1> HIDE DEF new
<1> QED BY <1>7, <1>8, <1>9 DEF to

LEMMA EmptyPayload ==
    ASSUME NEW b \in Bytes, Relayable(b), Payload(b) = <<>>
    PROVE  <<b[4], Len(b)>> \in {<<1, 10>>, <<4, 22>>}
<1> PICK port \in Asked(ToAddr(b).port) : IsPacket(b, FromIp(ToAddr(b).ip, port), Payload(b))
  BY Parsed
<1> DEFINE n == Len(ToAddr(b).ip)
<1>1. n \in Families
  BY Parsed, AddrParts, Zenon
<1>2. FromIp(ToAddr(b).ip, port).ip = ToAddr(b).ip
  BY DEF FromIp
<1> HIDE DEF n
<1>3. Len(b) = 6 + n + Len(Payload(b)) /\ b[4] = IF n = 4 THEN 1 ELSE 4
  BY <1>2, Zenon DEF IsPacket, n
<1>4. Len(Payload(b)) = 0
  BY EmptySeq
<1> QED BY <1>1, <1>3, <1>4 DEF Families

(* One datagram that is received.                                           *)
LEMMA RelayData ==
    ASSUME SockTypes, Data, NEW d \in Traffic \union sent, Relays(d)
    PROVE  Data' /\ UNCHANGED <<listenVars, step, sockVars>>
           /\ (state' = state \/ (state = "UDP" /\ state' = "aborted"))
<1>1. d \in Datagram /\ d.data \in Bytes /\ sent \subseteq Datagram
  <2>1. d \in Datagram /\ sent \subseteq Datagram
    BY RelayAssumption, Zenon DEF Data, DataTypes
  <2> QED BY <2>1, DatagramParts, Zenon
<1>2. from \in Addr
  BY DEF Data, DataTypes
<1>3. ASSUME NEW p \in Peers, Receive(d, p)
      PROVE  /\ Reaches(d, p) /\ seen' = seen \union {d} /\ UNCHANGED <<caddr, fam>> /\ state = "UDP"
             /\ UNCHANGED <<listenVars, step, sockVars>>
  BY <1>3 DEF Receive, Arrives, sockVars
<1>4. ASSUME FromClient(d)
      PROVE  /\ Receive(d, "client") /\ FromItsClient(d)
             /\ from' = Source(d, "client") /\ from' \in Addr
  <2>1. Receive(d, "client") /\ from' = Source(d, "client") /\ IpEq(Source(d, "client"), caddr)
    BY <1>4, Zenon DEF FromClient
  <2>2. Reaches(d, "client")
    BY <1>3, <2>1, Zenon DEF Peers
  <2>3. Source(d, "client") \in Addr
    BY <1>1, SourceType, Zenon DEF Peers
  <2> QED BY <2>1, <2>2, <2>3, Zenon DEF FromItsClient
<1>5. CASE ForeignSource(d)
  <2>1. Receive(d, "client") /\ UNCHANGED <<state, from, sent>>
    BY <1>5, Zenon DEF ForeignSource
  <2>2. /\ seen' = seen \union {d} /\ UNCHANGED <<caddr, fam>> /\ state = "UDP"
        /\ UNCHANGED <<listenVars, step, sockVars>>
    BY <1>3, <2>1, Zenon DEF Peers
  <2>3. Data'
    BY <1>1, <1>2, <2>1, <2>2, ReceiveData
  <2> QED BY <2>1, <2>2, <2>3
<1>6. CASE DropFromClient(d)
  <2>1. FromClient(d) /\ UNCHANGED <<state, sent>>
    BY <1>6, Zenon DEF DropFromClient
  <2>2. /\ seen' = seen \union {d} /\ UNCHANGED <<caddr, fam>> /\ state = "UDP"
        /\ UNCHANGED <<listenVars, step, sockVars>>
    BY <1>3, <1>4, <2>1, Zenon DEF Peers
  <2>3. FromItsClient(d) /\ from' = Source(d, "client") /\ from' \in Addr
    BY <1>4, <2>1, Zenon
  <2>4. Data'
    BY <1>1, <2>1, <2>2, <2>3, ReceiveData
  <2> QED BY <2>1, <2>2, <2>4
<1>7. CASE Aborts(d)
  <2>1. FromClient(d) /\ Asserted(d.data) /\ state' = "aborted" /\ sent' = sent
    BY <1>7, Zenon DEF Aborts
  <2>2. /\ seen' = seen \union {d} /\ UNCHANGED <<caddr, fam>> /\ state = "UDP"
        /\ UNCHANGED <<listenVars, step, sockVars>>
    BY <1>3, <1>4, <2>1, Zenon DEF Peers
  <2>3. FromItsClient(d) /\ from' = Source(d, "client") /\ from' \in Addr
    BY <1>4, <2>1, Zenon
  <2>4. Empty(d)
    BY <1>1, <2>1, <2>3, EmptyPayload, Zenon DEF Asserted, Empty
  <2>5. Data'
    BY <1>1, <2>1, <2>2, <2>3, <2>4, ReceiveData
  <2> QED BY <2>1, <2>2, <2>5
<1>8. CASE ToRemote(d)
  <2> DEFINE a == ToAddr(d.data)
             data == Payload(d.data)
  <2>1. FromClient(d) /\ ~Asserted(d.data) /\ Relayable(d.data) /\ SendTo(a, data, "client")
        /\ state' = state
    BY <1>8, Zenon DEF ToRemote
  <2>2. /\ seen' = seen \union {d} /\ UNCHANGED <<caddr, fam>> /\ state = "UDP"
        /\ UNCHANGED <<listenVars, step, sockVars>>
    BY <1>3, <1>4, <2>1, Zenon DEF Peers
  <2>3. FromItsClient(d) /\ from' = Source(d, "client") /\ from' \in Addr
    BY <1>4, <2>1, Zenon
  <2>4. /\ a \in Addr /\ data \in Bytes
        /\ \E port \in Asked(a.port) : IsPacket(d.data, FromIp(a.ip, port), data)
    BY <1>1, <2>1, Parsed, Zenon
  <2>5. Asserts => data # <<>>
    BY <2>1, Zenon DEF Asserted
  <2> HIDE DEF a, data
  <2>6. /\ sent' \subseteq Datagram
        /\ \A x \in sent' : x \in sent \/
             (x.by = "client" /\ x.data = data /\ x.dst = FromIp(Canonical(a.ip), a.port))
    BY <1>1, <2>1, <2>4, Sends, Zenon DEF Peers
  <2>7. a.ip \in {Canonical(a.ip), View(16, Canonical(a.ip))}
    BY <2>4, AddrParts, Canonized, Zenon
  <2>8. ASSUME NEW x \in sent', x.data = data, x.dst = FromIp(Canonical(a.ip), a.port)
        PROVE  AskedBy(d, x)
    <3>1. x.dst.ip = Canonical(a.ip) /\ x.dst.port = a.port
      BY <2>8 DEF FromIp
    <3>2. a.ip \in {x.dst.ip, View(16, x.dst.ip)}
      BY <2>7, <3>1
    <3>3. \E port \in Asked(x.dst.port) : IsPacket(d.data, FromIp(a.ip, port), x.data)
      BY <2>4, <2>8, <3>1
    <3> QED BY <2>3, <3>2, <3>3, Zenon DEF AskedBy
  <2>9. Data'
    BY <1>1, <2>1, <2>2, <2>3, <2>5, <2>6, <2>8, ReceiveData
  <2> QED BY <2>1, <2>2, <2>9
<1>9. CASE DropFromRemote(d)
  <2>1. Receive(d, "remote") /\ UNCHANGED <<state, from, sent>>
    BY <1>9, Zenon DEF DropFromRemote
  <2>2. /\ seen' = seen \union {d} /\ UNCHANGED <<caddr, fam>> /\ state = "UDP"
        /\ UNCHANGED <<listenVars, step, sockVars>>
    BY <1>3, <2>1, Zenon DEF Peers
  <2>3. Data'
    BY <1>1, <1>2, <2>1, <2>2, ReceiveData
  <2> QED BY <2>1, <2>2, <2>3
<1>10. CASE ToClient(d)
  <2> DEFINE s == Source(d, "remote")
             packet == Pack(s, d.data)
  <2>1. Receive(d, "remote") /\ ~IsUnspecified(from) /\ SendTo(from, packet, "remote")
        /\ UNCHANGED <<state, from>>
    BY <1>10, Zenon DEF ToClient
  <2>2. /\ Reaches(d, "remote") /\ seen' = seen \union {d} /\ UNCHANGED <<caddr, fam>>
        /\ state = "UDP" /\ UNCHANGED <<listenVars, step, sockVars>>
    BY <1>3, <2>1, Zenon DEF Peers
  <2>3. s \in Addr
    BY <1>1, SourceType, Zenon DEF Peers
  <2>4. packet \in Bytes /\ IsPacket(packet, s, d.data)
    BY <1>1, <2>3, Packed, Zenon
  <2> HIDE DEF s, packet
  <2>5. /\ sent' \subseteq Datagram
        /\ \A x \in sent' : x \in sent \/
             (x.by = "remote" /\ x.data = packet /\ x.dst = FromIp(Canonical(from.ip), from.port))
    BY <1>1, <1>2, <2>1, <2>4, Sends, Zenon DEF Peers
  <2>6. from # Unspecified
    BY <2>1 DEF IsUnspecified, Unspecified, FromIp
  <2>7. PICK e \in seen : FromItsClient(e) /\ from = Source(e, "client")
    BY <2>6, Zenon DEF Data, Relaying
  <2>8. e \in Datagram
    BY <2>7 DEF Data, DataTypes
  <2>9. from.port = e.src.port /\ Canonical(from.ip) = Canonical(e.src.ip)
    BY <2>7, <2>8, SourceType, Zenon DEF Peers
  <2>10. ASSUME NEW x \in sent', x.data = packet, x.dst = FromIp(Canonical(from.ip), from.port)
         PROVE  Carries(d, x) /\ \E y \in seen : GoesTo(y, x)
    <3>1. Carries(d, x)
      BY <2>2, <2>4, <2>10 DEF Carries, s
    <3>2. GoesTo(e, x)
      BY <2>7, <2>9, <2>10 DEF GoesTo
    <3> QED BY <2>7, <3>1, <3>2, Zenon
  <2>11. Data'
    BY <1>1, <1>2, <2>1, <2>2, <2>5, <2>10, ReceiveData
  <2> QED BY <2>1, <2>2, <2>11
<1> QED BY <1>5, <1>6, <1>7, <1>8, <1>9, <1>10, Zenon DEF Relays
-----------------------------------------------------------------------------
(* The steps of Setup, but for those of RelayDescriptors.                   *)
LEMMA SetupDescriptors ==
    ASSUME SockTypes, Descriptors, Setup
    PROVE  SockTypes' /\ Descriptors'
<1>1. CASE ListenNext /\ UNCHANGED <<state, step, sockVars, relayVars>>
  BY <1>1, ListenDescriptors, Zenon
<1>2. CASE Start \/ Associate \/ AssociateRemote
  BY <1>2, CallDescriptors, Zenon
<1>3. CASE Started \/ Accept
  BY <1>3, ServerDescriptors, Zenon
<1>4. CASE \E p \in Peers : CreateFails(p) \/ Create(p)
  BY <1>4, PeerDescriptors, Zenon
<1>5. CASE Reply \/ Done
  BY <1>5, ClientDescriptors, Zenon
<1> QED BY <1>1, <1>2, <1>3, <1>4, <1>5, Zenon DEF Setup

LEMMA SetupData ==
    ASSUME SockTypes, Calls, Data, Setup
    PROVE  Data'
<1>1. CASE Accept
  <2>1. state = "none" /\ state' = "CMD" /\ UNCHANGED relayVars
    BY <1>1, Zenon DEF Accept
  <2>2. PICK ip \in ClientIps : caddr' = FromIp(View(family, ip), 0)
    BY <1>1, Zenon DEF Accept
  <2>3. ip \in Bytes /\ Len(ip) \in Families /\ family \in Families
    BY <2>2, RelayAssumption DEF SockTypes
  <2>4. View(family, ip) \in Bytes /\ Len(View(family, ip)) \in Families
    BY <2>3, Viewed, Zenon
  <2>5. 0 \in Ports
    BY PortRange, SMT
  <2>6. caddr' \in Addr
    BY <2>2, <2>4, <2>5, AddrOf, Zenon
  <2> QED BY <2>1, <2>6, EarlyData
<1>2. CASE \E p \in Peers : Create(p)
  <2> PICK p \in Peers : Create(p)
    BY <1>2
  <2>1. step = p /\ state' = state /\ caddr' = caddr /\ UNCHANGED relayVars
    BY Zenon DEF Create
  <2>2. state = "CMD"
    BY <2>1 DEF Calls, Peers
  <2>3. caddr \in Addr
    BY DEF Data, DataTypes
  <2> QED BY <2>1, <2>2, <2>3, EarlyData
<1>3. CASE \/ ListenNext /\ UNCHANGED <<state, step, sockVars, relayVars>>
           \/ Start \/ Started \/ Associate \/ AssociateRemote \/ Reply \/ Done
           \/ \E p \in Peers : CreateFails(p)
  <2>1. UNCHANGED <<caddr, fam, relayVars>> /\ state' \in {state, "UDP", "done"}
    BY <1>3 DEF Start, Started, Associate, AssociateRemote, Reply, Done, CreateFails, sockVars
  <2> QED BY <2>1, QuietData
<1> QED BY <1>1, <1>2, <1>3, Zenon DEF Setup

LEMMA Stutters ==
    ASSUME SockTypes, Descriptors, Data, UNCHANGED vars
    PROVE  SockTypes' /\ Descriptors' /\ Data'
<1>1. UNCHANGED <<listenVars, step, sockVars>> /\ state' = state /\ UNCHANGED relayVars
  BY DEF vars
<1>2. SockTypes' /\ Descriptors'
  BY <1>1, RelayDescriptors, Zenon
<1>3. UNCHANGED <<caddr, fam>>
  BY <1>1 DEF sockVars
<1>4. Data'
  BY <1>1, <1>3, QuietData
<1> QED BY <1>2, <1>4

(* The inductive invariant.                                                 *)
THEOREM Invariance == Spec => []IndInv
<1>1. Init => IndInv
  BY InitDescriptors, InitData, Zenon DEF IndInv, Data
<1>2. ASSUME IndInv, [Next]_vars PROVE IndInv'
  <2>1. SockTypes /\ Descriptors /\ Data
    BY <1>2, Zenon DEF IndInv, Data
  <2>2. CASE Setup
    <3>1. SockTypes' /\ Descriptors'
      BY <2>1, <2>2, SetupDescriptors, Zenon
    <3>2. Data'
      BY <2>1, <2>2, SetupData, Zenon DEF Descriptors
    <3> QED BY <3>1, <3>2, Zenon DEF IndInv, Data
  <2>3. CASE \E d \in Traffic \union sent : Relays(d)
    <3> PICK d \in Traffic \union sent : Relays(d)
      BY <2>3
    <3>1. Data' /\ UNCHANGED <<listenVars, step, sockVars>>
          /\ (state' = state \/ (state = "UDP" /\ state' = "aborted"))
      BY <2>1, RelayData, Zenon
    <3>2. SockTypes' /\ Descriptors'
      BY <2>1, <3>1, RelayDescriptors, Zenon
    <3> QED BY <3>1, <3>2, Zenon DEF IndInv, Data
  <2>4. CASE UNCHANGED vars
    BY <2>1, <2>4, Stutters, Zenon DEF IndInv, Data
  <2> QED BY <1>2, <2>2, <2>3, <2>4, Zenon DEF Next
<1> QED BY <1>1, <1>2, PTL DEF Spec

(* Whatever is sent to it, an association computes bytes, ports and          *)
(* addresses (parse_udp_packet, pack_udp_packet, net_sendto).               *)
THEOREM TypeCorrect == Spec => []TypeOK
<1>1. IndInv => TypeOK
  BY Zenon DEF IndInv, SockTypes, DataTypes, TypeOK
<1> QED BY <1>1, Invariance, PTL

(* However often and wherever a call fails, _net_listen, start_listen() and *)
(* cmd_udp() close nothing that others own, and lose only the descriptors   *)
(* of half an association that is tried again, or whose address is unknown. *)
THEOREM DescriptorsOwned == Spec => []Owns
<1>1. IndInv => Owns
  BY Zenon DEF IndInv, Descriptors
<1> QED BY <1>1, Invariance, PTL

(* However datagrams are lost, repeated and reordered, udp_client_recv_cb   *)
(* sends others what the client asked for, where it asked for it.           *)
THEOREM RequestsKept == Spec => []AsAsked
<1>1. IndInv => AsAsked
  BY Zenon DEF IndInv
<1> QED BY <1>1, Invariance, PTL

(* And udp_remote_recv_cb sends the client what it received, with the       *)
(* address it came from, and to an address that the client has used.        *)
THEOREM RepliesKept == Spec => []AsReceived
<1>1. IndInv => AsReceived
  BY Zenon DEF IndInv
<1> QED BY <1>1, Invariance, PTL

(* A datagram that aborts the program is the client's and has no payload.   *)
THEOREM AbortsForEmptyOnly == Spec => []AbortsOnEmpty
<1>1. IndInv => AbortsOnEmpty
  BY Zenon DEF IndInv
<1> QED BY <1>1, Invariance, PTL
=============================================================================
