---------------------------- MODULE TimersProofs ----------------------------
(***************************************************************************)
(* Theorems about Timers, for any set of clients, timeouts and lateness of *)
(* the loop.  Every action changes the lists for one client: Moves says how*)
(* and Kept what follows for everybody else and for the timer.             *)
(***************************************************************************)
EXTENDS Timers, TLAPS

(* A client is touched in a list, removed from it, or neither; a walk never *)
(* touches.                                                                 *)
Moves(c) ==
    /\ timeouts' = [l \in Lists |-> timeouts'[l]]
    /\ \A l \in Lists : \/ timeouts'[l] = timeouts[l]
                        \/ timeouts'[l] = Remove(timeouts[l], c)
                        \/ Idle /\ timeouts'[l] = Touch(timeouts[l], c)

ListsOK ==
    /\ timeouts = [l \in Lists |-> timeouts[l]]
    /\ \A l \in Lists : Members(l) \subseteq Clients /\ timeouts[l] \in [Members(l) -> Nat]

(* For one list after a step that moves c: it is a list still, every member *)
(* but c is where and what it was, and c, if it is there, has the time it   *)
(* had or the current one.                                                  *)
LEMMA OneList ==
    ASSUME IndInv, NEW c \in Clients, Moves(c), NEW l \in Lists
    PROVE  /\ Members(l)' \subseteq Clients
           /\ timeouts'[l] \in [Members(l)' -> Nat]
           /\ \A d \in Clients : d # c => (d \in Members(l)' <=> d \in Members(l))
           /\ \A d \in Members(l)' : \/ d \in Members(l) /\ timeouts'[l][d] = timeouts[l][d]
                                     \/ Idle /\ timeouts'[l][d] = now
           /\ \A d \in Members(l) : d # c => timeouts'[l][d] = timeouts[l][d]
  <1>1. Members(l) \subseteq Clients /\ timeouts[l] \in [Members(l) -> Nat] /\ now \in Nat
    BY DEF IndInv, Types
  <1>2. CASE timeouts'[l] = timeouts[l]
    BY <1>1, <1>2 DEF Members
  <1>3. CASE timeouts'[l] = Remove(timeouts[l], c)
    BY <1>1, <1>3 DEF Members, Remove
  <1>4. CASE Idle /\ timeouts'[l] = Touch(timeouts[l], c)
    BY <1>1, <1>4 DEF Members, Touch
  <1> QED BY <1>2, <1>3, <1>4 DEF Moves

(* A step that moves c and leaves the clock and the timer alone keeps the   *)
(* lists and the global part of the invariant.                              *)
LEMMA Kept ==
    ASSUME TimersAssumption, IndInv, NEW c \in Clients, Moves(c),
           UNCHANGED <<now, timerVars>>
    PROVE  ListsOK' /\ Global'
  <1>1. ListsOK'
    BY OneList DEF ListsOK, Moves
  <1>2. ASSUME NEW l \in Lists, NEW d \in Members(l)'
        PROVE  InTime(l, d)'
    <2>1. CASE d \in Members(l) /\ timeouts'[l][d] = timeouts[l][d]
      BY <2>1 DEF IndInv, Global, InTime, Idle, Deadline, timerVars
    <2>2. CASE Idle /\ timeouts'[l][d] = now
      BY <2>2 DEF TimersAssumption, IndInv, Global, InTime, Idle, Deadline, timerVars, Types
    <2> QED BY <2>1, <2>2, OneList
  <1>3. Global'
    BY <1>2 DEF IndInv, Global, Idle, timerVars
  <1> QED BY <1>1, <1>3

(* The other clients of such a step keep their part of the invariant.       *)
LEMMA Others ==
    ASSUME IndInv, NEW c \in Clients, Moves(c),
           NEW d \in Clients, d # c, conn'[d] = conn[d], since'[d] = since[d]
    PROVE  Local(d)'
  <1>1. \A l \in Lists : /\ d \in Members(l)' <=> d \in Members(l)
                         /\ d \in Members(l) => timeouts'[l][d] = timeouts[l][d]
    BY OneList
  <1>2. "client" \in Lists /\ "remote" \in Lists /\ "idle" \in Lists
    BY DEF Lists
  <1>3. Local(d)
    BY DEF IndInv
  <1> QED BY <1>1, <1>2, <1>3 DEF Local, Established

(* All of a step of one client but what it does to that client.             *)
LEMMA ClientStep ==
    ASSUME TimersAssumption, IndInv, NEW c \in Clients, Moves(c),
           UNCHANGED <<now, timerVars>>,
           NEW r \in Conn, conn' = [conn EXCEPT ![c] = r],
           NEW m \in Moments, since' = [since EXCEPT ![c] = m],
           Local(c)'
    PROVE  IndInv'
  <1>1. conn \in [Clients -> Conn] /\ since \in [Clients -> Moments]
    BY DEF IndInv, Types
  <1>2. conn' \in [Clients -> Conn] /\ since' \in [Clients -> Moments]
    BY <1>1
  <1>3. ListsOK' /\ Global'
    BY Kept
  <1>4. Types'
    BY <1>2, <1>3 DEF IndInv, Types, ListsOK, timerVars
  <1>5. \A d \in Clients : d # c => conn'[d] = conn[d] /\ since'[d] = since[d]
    BY <1>1
  <1>6. \A d \in Clients : Local(d)'
    BY <1>5, Others
  <1> QED BY <1>3, <1>4, <1>6 DEF IndInv
(* What an update of one list, and of the idle list if there was a read,    *)
(* does to the lists, seen from c.                                          *)
LEMMA Updated ==
    ASSUME IndInv, NEW c \in Clients, Idle, NEW l \in {"client", "remote"},
           NEW pending \in BOOLEAN, NEW read \in BOOLEAN,
           UpdatePending(l, c, pending, read)
    PROVE  /\ Moves(c)
           /\ c \in Members(l)' <=> pending
           /\ pending => timeouts'[l][c] = now
           /\ c \in Members("idle")' <=> read \/ c \in Members("idle")
           /\ read => timeouts'["idle"][c] = now
           /\ ~read => timeouts'["idle"] = timeouts["idle"]
           /\ \A k \in {"client", "remote"} : k # l => timeouts'[k] = timeouts[k]
  <1> DEFINE f == IF pending THEN Touch(timeouts[l], c) ELSE Remove(timeouts[l], c)
             g == IF read THEN Touch(timeouts["idle"], c) ELSE timeouts["idle"]
  <1>1. timeouts = [k \in Lists |-> timeouts[k]] /\ l \in Lists /\ "idle" \in Lists /\ l # "idle"
    BY DEF IndInv, Types, Lists
  <1>2. timeouts' = [timeouts EXCEPT ![l] = f, !["idle"] = g]
    BY <1>1 DEF UpdatePending
  <1>3. f = Touch(timeouts[l], c) \/ f = Remove(timeouts[l], c)
    OBVIOUS
  <1>4. c \in DOMAIN f <=> pending
    BY DEF Touch, Remove
  <1>5. pending => f[c] = now
    BY DEF Touch
  <1>6. c \in DOMAIN g <=> read \/ c \in Members("idle")
    BY DEF Members, Touch
  <1>7. read => g[c] = now
    BY DEF Touch
  <1>8. g = timeouts["idle"] \/ g = Touch(timeouts["idle"], c)
    OBVIOUS
  <1>9. ~read => g = timeouts["idle"]
    OBVIOUS
  <1> HIDE DEF f, g
  <1>10. timeouts' = [k \in Lists |-> timeouts'[k]] /\ timeouts'[l] = f /\ timeouts'["idle"] = g
         /\ \A k \in Lists : k # l /\ k # "idle" => timeouts'[k] = timeouts[k]
    BY <1>1, <1>2
  <1>11. Moves(c)
    BY <1>1, <1>3, <1>8, <1>10 DEF Moves
  <1> QED BY <1>4, <1>5, <1>6, <1>7, <1>9, <1>10, <1>11 DEF Members, Lists

(* Accept: a client that was gone is in client_timeouts, from now on.       *)
LEMMA AcceptStep ==
    ASSUME TimersAssumption, IndInv, NEW c \in Clients, Accept(c)
    PROVE  IndInv'
  <1> DEFINE r == [conn[c] EXCEPT !.state = "handshake"]
             m == [since[c] EXCEPT !.accepted = now]
  <1>1. conn[c] \in Conn /\ since[c] \in Moments /\ now \in Nat
    BY DEF IndInv, Types
  <1>2. r \in Conn /\ m \in Moments
    BY <1>1 DEF Conn, Moments
  <1>3. /\ r.state = "handshake" /\ r.cbuf = conn[c].cbuf /\ r.rbuf = conn[c].rbuf
        /\ m.accepted = now
    BY <1>1 DEF Conn, Moments
  <1>4. conn' = [conn EXCEPT ![c] = r] /\ since' = [since EXCEPT ![c] = m]
    BY DEF Accept
  <1> HIDE DEF r, m
  <1>5. conn'[c] = r /\ since'[c] = m
    BY <1>4 DEF IndInv, Types
  <1>6. /\ timeouts' = [timeouts EXCEPT !["client"] = Touch(timeouts["client"], c)]
        /\ Idle
    BY DEF Accept
  <1>7. /\ timeouts' = [k \in Lists |-> timeouts'[k]]
        /\ timeouts'["client"] = Touch(timeouts["client"], c)
        /\ timeouts'["remote"] = timeouts["remote"]
        /\ timeouts'["idle"] = timeouts["idle"]
    BY <1>6 DEF IndInv, Types, Lists
  <1>8. Moves(c)
    BY <1>6, <1>7 DEF Moves, Lists
  <1>9. c \in Members("client")' /\ timeouts'["client"][c] = now
    BY <1>7 DEF Members, Touch
  <1>10. Local(c) /\ conn[c].state = "none"
    BY DEF IndInv, Accept, Live
  <1>11. Local(c)'
    BY <1>1, <1>3, <1>5, <1>7, <1>9, <1>10 DEF Local, Established, Members, Conn
  <1>12. UNCHANGED <<now, timerVars>>
    BY DEF Accept
  <1> QED BY <1>2, <1>4, <1>8, <1>11, <1>12, ClientStep

(* Channel l of client c was written to or flushed, and holds bytes iff     *)
(* pending; the other channel is as it was; r and m are c's new record and  *)
(* moments.                                                                 *)
StreamEffect(c, l, pending, read, r, m) ==
    /\ r.state = "STREAM"
    /\ conn[c].state = "STREAM" \/ (read /\ l = "client")
    /\ IF read THEN m.heard = now ELSE m.heard = since[c].heard
    /\ l = "client" =>
         /\ r.cbuf = pending /\ (pending => m.toClient = now)
         /\ r.rbuf = "pending" <=> conn[c].rbuf = "pending"
         /\ r.rbuf = "pending" => m.toRemote = since[c].toRemote
    /\ l = "remote" =>
         /\ r.rbuf = "pending" <=> pending
         /\ pending => m.toRemote = now
         /\ r.cbuf = conn[c].cbuf /\ m.toClient = since[c].toClient

(* A step of a stream.                                                      *)
LEMMA StreamStep ==
    ASSUME TimersAssumption, IndInv, NEW c \in Clients, Idle, UNCHANGED <<now, timerVars>>,
           NEW l \in {"client", "remote"}, NEW pending \in BOOLEAN, NEW read \in BOOLEAN,
           UpdatePending(l, c, pending, read),
           NEW r \in Conn, conn' = [conn EXCEPT ![c] = r],
           NEW m \in Moments, since' = [since EXCEPT ![c] = m],
           StreamEffect(c, l, pending, read, r, m)
    PROVE  IndInv'
  <1>1. Local(c) /\ conn[c] \in Conn
    BY DEF IndInv, Types
  <1>2. conn'[c] = r /\ since'[c] = m
    BY DEF IndInv, Types
  <1>3. /\ Moves(c)
        /\ c \in Members(l)' <=> pending
        /\ pending => timeouts'[l][c] = now
        /\ c \in Members("idle")' <=> read \/ c \in Members("idle")
        /\ read => timeouts'["idle"][c] = now
        /\ ~read => timeouts'["idle"] = timeouts["idle"]
        /\ \A k \in {"client", "remote"} : k # l => timeouts'[k] = timeouts[k]
    BY Updated
  <1>4. Local(c)'
    <2>1. CASE l = "client"
      BY <1>1, <1>2, <1>3, <2>1 DEF Local, Established, Members, Conn, StreamEffect
    <2>2. CASE l = "remote"
      BY <1>1, <1>2, <1>3, <2>2 DEF Local, Established, Members, Conn, StreamEffect
    <2> QED BY <2>1, <2>2
  <1> QED BY <1>3, <1>4, ClientStep

(* Connect: the handshake is over and the session a stream.                 *)
LEMMA ConnectStep ==
    ASSUME TimersAssumption, IndInv, NEW c \in Clients, Connect(c)
    PROVE  IndInv'
  <1>1. conn[c] \in Conn /\ since[c] \in Moments /\ now \in Nat /\ 0 \in Nat /\ Local(c)
    BY DEF IndInv, Types
  <1>2. PICK pending \in BOOLEAN, early \in BOOLEAN :
          /\ UpdatePending("client", c, pending, TRUE)
          /\ conn' = [conn EXCEPT ![c] = [state |-> "STREAM", cbuf |-> pending, rbuf |-> IF early THEN "early" ELSE "empty"]]
          /\ since' = [since EXCEPT ![c] = [Never EXCEPT !.heard = now, !.toClient = When(pending)]]
    BY DEF Connect
  <1> DEFINE r == [state |-> "STREAM", cbuf |-> pending, rbuf |-> IF early THEN "early" ELSE "empty"]
             m == [Never EXCEPT !.heard = now, !.toClient = When(pending)]
             read == TRUE
  <1>3. /\ r \in Conn /\ r.state = "STREAM"
        /\ r.cbuf = pending /\ r.rbuf # "pending" /\ conn[c].rbuf # "pending"
    BY <1>1 DEF Conn, Local, Connect
  <1>4. /\ m \in Moments
        /\ m.heard = now /\ (pending => m.toClient = now)
    BY <1>1 DEF Moments, Never, When
  <1>5. /\ conn' = [conn EXCEPT ![c] = r] /\ since' = [since EXCEPT ![c] = m]
        /\ UpdatePending("client", c, pending, read)
    BY <1>2
  <1>6. Idle /\ UNCHANGED <<now, timerVars>>
    BY DEF Connect
  <1> HIDE DEF r, m
  <1>7. StreamEffect(c, "client", pending, read, r, m)
    BY <1>3, <1>4 DEF StreamEffect
  <1>8. read \in BOOLEAN /\ "client" \in {"client", "remote"}
    OBVIOUS
  <1> HIDE DEF read
  <1> QED BY <1>3, <1>4, <1>5, <1>6, <1>7, <1>8, StreamStep

(* RemoteRecv: the client's channel is written to.                          *)
LEMMA RemoteRecvStep ==
    ASSUME TimersAssumption, IndInv, NEW c \in Clients, RemoteRecv(c)
    PROVE  IndInv'
  <1>1. conn[c] \in Conn /\ since[c] \in Moments /\ now \in Nat /\ 0 \in Nat /\ Local(c)
    BY DEF IndInv, Types
  <1>2. PICK pending \in BOOLEAN :
          /\ UpdatePending("client", c, pending, TRUE)
          /\ conn' = [conn EXCEPT ![c] = [conn[c] EXCEPT !.cbuf = pending]]
          /\ since' = [since EXCEPT ![c] = [since[c] EXCEPT !.toClient = When(pending), !.heard = now]]
    BY DEF RemoteRecv
  <1> DEFINE r == [conn[c] EXCEPT !.cbuf = pending]
             m == [since[c] EXCEPT !.toClient = When(pending), !.heard = now]
             read == TRUE
  <1>3. /\ r \in Conn /\ r.state = "STREAM"
        /\ conn[c].state = "STREAM" /\ r.cbuf = pending /\ r.rbuf = conn[c].rbuf
    BY <1>1 DEF Conn, Local, RemoteRecv
  <1>4. /\ m \in Moments
        /\ m.heard = now /\ (pending => m.toClient = now) /\ m.toRemote = since[c].toRemote
    BY <1>1 DEF Moments, Never, When
  <1>5. /\ conn' = [conn EXCEPT ![c] = r] /\ since' = [since EXCEPT ![c] = m]
        /\ UpdatePending("client", c, pending, read)
    BY <1>2
  <1>6. Idle /\ UNCHANGED <<now, timerVars>>
    BY DEF RemoteRecv
  <1> HIDE DEF r, m
  <1>7. StreamEffect(c, "client", pending, read, r, m)
    BY <1>3, <1>4 DEF StreamEffect
  <1>8. read \in BOOLEAN /\ "client" \in {"client", "remote"}
    OBVIOUS
  <1> HIDE DEF read
  <1> QED BY <1>3, <1>4, <1>5, <1>6, <1>7, <1>8, StreamStep

(* RecvStream: the remote's channel is written to.                          *)
LEMMA RecvStreamStep ==
    ASSUME TimersAssumption, IndInv, NEW c \in Clients, RecvStream(c)
    PROVE  IndInv'
  <1>1. conn[c] \in Conn /\ since[c] \in Moments /\ now \in Nat /\ 0 \in Nat /\ Local(c)
    BY DEF IndInv, Types
  <1>2. PICK pending \in BOOLEAN :
          /\ UpdatePending("remote", c, pending, TRUE)
          /\ conn' = [conn EXCEPT ![c] = [conn[c] EXCEPT !.rbuf = IF pending THEN "pending" ELSE "empty"]]
          /\ since' = [since EXCEPT ![c] = [since[c] EXCEPT !.toRemote = When(pending), !.heard = now]]
    BY DEF RecvStream
  <1> DEFINE r == [conn[c] EXCEPT !.rbuf = IF pending THEN "pending" ELSE "empty"]
             m == [since[c] EXCEPT !.toRemote = When(pending), !.heard = now]
             read == TRUE
  <1>3. /\ r \in Conn /\ r.state = "STREAM"
        /\ conn[c].state = "STREAM" /\ r.cbuf = conn[c].cbuf /\ (r.rbuf = "pending" <=> pending)
    BY <1>1 DEF Conn, Local, RecvStream
  <1>4. /\ m \in Moments
        /\ m.heard = now /\ (pending => m.toRemote = now) /\ m.toClient = since[c].toClient
    BY <1>1 DEF Moments, Never, When
  <1>5. /\ conn' = [conn EXCEPT ![c] = r] /\ since' = [since EXCEPT ![c] = m]
        /\ UpdatePending("remote", c, pending, read)
    BY <1>2
  <1>6. Idle /\ UNCHANGED <<now, timerVars>>
    BY DEF RecvStream
  <1> HIDE DEF r, m
  <1>7. StreamEffect(c, "remote", pending, read, r, m)
    BY <1>3, <1>4 DEF StreamEffect
  <1>8. read \in BOOLEAN /\ "remote" \in {"client", "remote"}
    OBVIOUS
  <1> HIDE DEF read
  <1> QED BY <1>3, <1>4, <1>5, <1>6, <1>7, <1>8, StreamStep

(* ClientSend: the client's channel is flushed.                             *)
LEMMA ClientSendStep ==
    ASSUME TimersAssumption, IndInv, NEW c \in Clients, ClientSend(c)
    PROVE  IndInv'
  <1>1. conn[c] \in Conn /\ since[c] \in Moments /\ now \in Nat /\ 0 \in Nat /\ Local(c)
    BY DEF IndInv, Types
  <1>2. PICK pending \in BOOLEAN :
          /\ UpdatePending("client", c, pending, FALSE)
          /\ conn' = [conn EXCEPT ![c] = [conn[c] EXCEPT !.cbuf = pending]]
          /\ since' = [since EXCEPT ![c] = [since[c] EXCEPT !.toClient = When(pending)]]
    BY DEF ClientSend
  <1> DEFINE r == [conn[c] EXCEPT !.cbuf = pending]
             m == [since[c] EXCEPT !.toClient = When(pending)]
             read == FALSE
  <1>3. /\ r \in Conn /\ r.state = "STREAM"
        /\ conn[c].state = "STREAM" /\ r.cbuf = pending /\ r.rbuf = conn[c].rbuf
    BY <1>1 DEF Conn, Local, ClientSend
  <1>4. /\ m \in Moments
        /\ m.heard = since[c].heard /\ (pending => m.toClient = now) /\ m.toRemote = since[c].toRemote
    BY <1>1 DEF Moments, Never, When
  <1>5. /\ conn' = [conn EXCEPT ![c] = r] /\ since' = [since EXCEPT ![c] = m]
        /\ UpdatePending("client", c, pending, read)
    BY <1>2
  <1>6. Idle /\ UNCHANGED <<now, timerVars>>
    BY DEF ClientSend
  <1> HIDE DEF r, m
  <1>7. StreamEffect(c, "client", pending, read, r, m)
    BY <1>3, <1>4 DEF StreamEffect
  <1>8. read \in BOOLEAN /\ "client" \in {"client", "remote"}
    OBVIOUS
  <1> HIDE DEF read
  <1> QED BY <1>3, <1>4, <1>5, <1>6, <1>7, <1>8, StreamStep

(* RemoteSend: the remote's channel is flushed.                             *)
LEMMA RemoteSendStep ==
    ASSUME TimersAssumption, IndInv, NEW c \in Clients, RemoteSend(c)
    PROVE  IndInv'
  <1>1. conn[c] \in Conn /\ since[c] \in Moments /\ now \in Nat /\ 0 \in Nat /\ Local(c)
    BY DEF IndInv, Types
  <1>2. PICK pending \in BOOLEAN :
          /\ UpdatePending("remote", c, pending, FALSE)
          /\ conn' = [conn EXCEPT ![c] = [conn[c] EXCEPT !.rbuf = IF pending THEN "pending" ELSE "empty"]]
          /\ since' = [since EXCEPT ![c] = [since[c] EXCEPT !.toRemote = When(pending)]]
    BY DEF RemoteSend
  <1> DEFINE r == [conn[c] EXCEPT !.rbuf = IF pending THEN "pending" ELSE "empty"]
             m == [since[c] EXCEPT !.toRemote = When(pending)]
             read == FALSE
  <1>3. /\ r \in Conn /\ r.state = "STREAM"
        /\ conn[c].state = "STREAM" /\ r.cbuf = conn[c].cbuf /\ (r.rbuf = "pending" <=> pending)
    BY <1>1 DEF Conn, Local, RemoteSend
  <1>4. /\ m \in Moments
        /\ m.heard = since[c].heard /\ (pending => m.toRemote = now) /\ m.toClient = since[c].toClient
    BY <1>1 DEF Moments, Never, When
  <1>5. /\ conn' = [conn EXCEPT ![c] = r] /\ since' = [since EXCEPT ![c] = m]
        /\ UpdatePending("remote", c, pending, read)
    BY <1>2
  <1>6. Idle /\ UNCHANGED <<now, timerVars>>
    BY DEF RemoteSend
  <1> HIDE DEF r, m
  <1>7. StreamEffect(c, "remote", pending, read, r, m)
    BY <1>3, <1>4 DEF StreamEffect
  <1>8. read \in BOOLEAN /\ "remote" \in {"client", "remote"}
    OBVIOUS
  <1> HIDE DEF read
  <1> QED BY <1>3, <1>4, <1>5, <1>6, <1>7, <1>8, StreamStep
(* Associate: the handshake is over and the session an association.         *)
LEMMA AssociateStep ==
    ASSUME TimersAssumption, IndInv, NEW c \in Clients, Associate(c)
    PROVE  IndInv'
  <1> DEFINE r == [conn[c] EXCEPT !.state = "UDP"]
             m == [Never EXCEPT !.heard = now]
  <1>1. conn[c] \in Conn /\ now \in Nat /\ 0 \in Nat /\ Local(c) /\ conn[c].state = "handshake"
    BY DEF IndInv, Types, Associate
  <1>2. r \in Conn /\ r.state = "UDP" /\ r.cbuf = conn[c].cbuf /\ r.rbuf = conn[c].rbuf
    BY <1>1 DEF Conn
  <1>3. m \in Moments /\ m.heard = now
    BY <1>1 DEF Moments, Never
  <1>4. conn' = [conn EXCEPT ![c] = r] /\ since' = [since EXCEPT ![c] = m]
    BY DEF Associate
  <1> HIDE DEF r, m
  <1>5. conn'[c] = r /\ since'[c] = m
    BY <1>4 DEF IndInv, Types
  <1>6. /\ timeouts' = [k \in Lists |-> timeouts'[k]]
        /\ timeouts'["client"] = Remove(timeouts["client"], c)
        /\ timeouts'["remote"] = timeouts["remote"]
        /\ timeouts'["idle"] = Touch(timeouts["idle"], c)
    BY DEF IndInv, Types, Lists, Associate
  <1>7. Moves(c)
    BY <1>6 DEF Moves, Lists, Associate
  <1>8. c \notin Members("client")' /\ c \in Members("idle")' /\ timeouts'["idle"][c] = now
    BY <1>6 DEF Members, Touch, Remove
  <1>9. Local(c)'
    BY <1>1, <1>2, <1>3, <1>5, <1>6, <1>8 DEF Local, Established, Members, Conn
  <1>10. UNCHANGED <<now, timerVars>>
    BY DEF Associate
  <1> QED BY <1>2, <1>3, <1>4, <1>7, <1>9, <1>10, ClientStep

(* Datagram: the association was not idle.                                  *)
LEMMA DatagramStep ==
    ASSUME TimersAssumption, IndInv, NEW c \in Clients, Datagram(c)
    PROVE  IndInv'
  <1> DEFINE m == [since[c] EXCEPT !.heard = now]
  <1>1. conn[c] \in Conn /\ since[c] \in Moments /\ now \in Nat /\ Local(c) /\ conn[c].state = "UDP"
    BY DEF IndInv, Types, Datagram
  <1>2. m \in Moments /\ m.heard = now
    BY <1>1 DEF Moments
  <1>3. conn' = [conn EXCEPT ![c] = conn[c]] /\ since' = [since EXCEPT ![c] = m]
    BY DEF Datagram, IndInv, Types
  <1> HIDE DEF m
  <1>4. conn' = conn /\ since'[c] = m
    BY <1>3 DEF IndInv, Types, Datagram
  <1>5. /\ timeouts' = [k \in Lists |-> timeouts'[k]]
        /\ timeouts'["client"] = timeouts["client"]
        /\ timeouts'["remote"] = timeouts["remote"]
        /\ timeouts'["idle"] = Touch(timeouts["idle"], c)
    BY DEF IndInv, Types, Lists, Datagram
  <1>6. Moves(c)
    BY <1>5 DEF Moves, Lists, Datagram
  <1>7. c \in Members("idle")' /\ timeouts'["idle"][c] = now
    BY <1>5 DEF Members, Touch
  <1>8. Local(c)'
    BY <1>1, <1>2, <1>4, <1>5, <1>7 DEF Local, Established, Members, Conn
  <1>9. UNCHANGED <<now, timerVars>>
    BY DEF Datagram
  <1> QED BY <1>1, <1>2, <1>3, <1>6, <1>8, <1>9, ClientStep

(* The end of a client: it is in no list.                                   *)
LEMMA EndsStep ==
    ASSUME TimersAssumption, IndInv, NEW c \in Clients, Ends(c), UNCHANGED <<now, timerVars>>
    PROVE  IndInv'
  <1>1. /\ Gone \in Conn /\ Gone.state = "none" /\ Gone.cbuf = FALSE /\ Gone.rbuf = "empty"
        /\ Never \in Moments
    BY DEF Gone, Never, Conn, Moments
  <1>2. conn' = [conn EXCEPT ![c] = Gone] /\ since' = [since EXCEPT ![c] = Never]
    BY DEF Ends
  <1>3. conn'[c] = Gone
    BY <1>2 DEF IndInv, Types
  <1>4. /\ timeouts' = [k \in Lists |-> timeouts'[k]]
        /\ \A l \in Lists : timeouts'[l] = Remove(timeouts[l], c)
    BY DEF Ends
  <1>5. Moves(c)
    BY <1>4 DEF Moves
  <1>6. \A l \in Lists : c \notin Members(l)'
    BY <1>4 DEF Members, Remove
  <1>7. Local(c)'
    BY <1>1, <1>3, <1>6 DEF Local, Established, Lists
  <1> QED BY <1>1, <1>2, <1>5, <1>7, ClientStep

(* The steps of the clock and of the timer change no client.                *)
LEMMA TimerStep ==
    ASSUME IndInv, UNCHANGED connVars, Global',
           now' \in Nat, due' \in Nat, walk' \in Lists \cup {"none"}, todo' \subseteq Lists,
           wait' \in [Lists -> Nat]
    PROVE  IndInv'
  <1>1. Types'
    BY DEF IndInv, Types, connVars, Members
  <1>2. \A c \in Clients : Local(c)'
    BY DEF IndInv, Local, connVars, Members, Established
  <1> QED BY <1>1, <1>2 DEF IndInv

(* Tick: the clock stops before the loop is too late.                       *)
LEMMA TickStep ==
    ASSUME TimersAssumption, IndInv, Tick
    PROVE  IndInv'
  <1>1. PICK t \in (now + 1)..(due + Lag) : now' = t
    BY DEF Tick
  <1>2. /\ now \in Nat /\ due \in Nat /\ Lag \in Nat /\ Timeout \in [Lists -> Nat \ {0}]
        /\ \A l \in Lists : \A c \in Members(l) : timeouts[l][c] \in Nat
        /\ Idle /\ Global
    BY DEF IndInv, Types, TimersAssumption, Tick
  <1>3. now' \in Nat /\ now < now' /\ now' <= due + Lag
    BY <1>1, <1>2
  <1>4. UNCHANGED <<connVars, timerVars>>
    BY DEF Tick
  <1>5. ASSUME NEW l \in Lists, NEW c \in Members(l)
        PROVE  InTime(l, c)'
    <2>1. timeouts[l][c] <= now /\ due <= timeouts[l][c] + Timeout[l] /\ timeouts[l][c] \in Nat
      BY <1>2 DEF Global, InTime, Deadline
    <2>2. Timeout[l] \in Nat
      BY <1>2
    <2> QED BY <1>2, <1>3, <1>4, <2>1, <2>2 DEF InTime, Deadline, Idle, connVars, timerVars
  <1>6. Global'
    <2>1. \A l \in Lists : due <= now' + Timeout[l]
      BY <1>2, <1>3 DEF Global
    <2> QED BY <1>2, <1>3, <1>4, <1>5, <2>1 DEF Global, Idle, Members, connVars, timerVars
  <1> QED BY <1>3, <1>4, <1>6, TimerStep DEF IndInv, Types, timerVars

(* TimerFires: nothing has been walked.                                     *)
LEMMA TimerFiresStep ==
    ASSUME TimersAssumption, IndInv, TimerFires
    PROVE  IndInv'
  <1>1. /\ walk' \in Lists /\ todo' = Lists \ {walk'} /\ walk' # "none"
        /\ UNCHANGED <<connVars, now, due, wait>>
    BY DEF TimerFires, Lists
  <1>2. \A l \in Lists : \A c \in Members(l) : InTime(l, c)'
    BY <1>1 DEF IndInv, Global, InTime, Deadline, Idle, connVars
  <1>3. Global'
    BY <1>1, <1>2 DEF IndInv, Global, Idle, Members, connVars
  <1> QED BY <1>1, <1>3, TimerStep DEF IndInv, Types

(* What a walk returns is no later than any deadline in its list.           *)
LEMMA Returned ==
    ASSUME TimersAssumption, IndInv, walk \in Lists, NEW r \in 1..Timeout[walk], Returns(walk, r),
           NEW l \in Lists, l \notin todo, NEW c \in Members(l)
    PROVE  now + [wait EXCEPT ![walk] = r][l] <= Deadline(l, c)
  <1>1. CASE l = walk
    BY <1>1 DEF Returns, IndInv, Types
  <1>2. CASE l # walk
    BY <1>2 DEF IndInv, Types, Global, InTime, Idle, Lists
  <1> QED BY <1>1, <1>2

(* WalkEnds: one more list has been walked.                                 *)
LEMMA WalkEndsStep ==
    ASSUME TimersAssumption, IndInv, WalkEnds
    PROVE  IndInv'
  <1>1. PICK r \in 1..Timeout[walk] : Returns(walk, r) /\ wait' = [wait EXCEPT ![walk] = r]
    BY DEF WalkEnds
  <1>2. /\ walk \in Lists /\ walk # "none" /\ walk' \in todo /\ todo' = todo \ {walk'}
        /\ walk' # "none" /\ walk' \in Lists /\ todo' \subseteq Lists
        /\ UNCHANGED <<connVars, now, due>>
    BY DEF WalkEnds, IndInv, Types, Lists
  <1>3. /\ wait \in [Lists -> Nat] /\ r \in Nat /\ wait' \in [Lists -> Nat]
        /\ \A l \in Lists : wait'[l] <= Timeout[l]
    BY <1>1, <1>2 DEF IndInv, Types, Global, TimersAssumption
  <1>4. ASSUME NEW l \in Lists, NEW c \in Members(l)
        PROVE  InTime(l, c)'
    <2>1. l # walk' /\ l \notin todo' => now + wait'[l] <= Deadline(l, c)
      BY <1>1, <1>2, Returned
    <2> QED BY <1>2, <2>1 DEF IndInv, Global, InTime, Deadline, Idle, connVars
  <1>5. Global'
    BY <1>2, <1>3, <1>4 DEF IndInv, Global, Idle, Members, connVars
  <1> QED BY <1>2, <1>3, <1>5, TimerStep DEF IndInv, Types

(* LastWalkEnds: the timer is due before every deadline, those of clients   *)
(* that are yet to come included.                                           *)
LEMMA LastWalkEndsStep ==
    ASSUME TimersAssumption, IndInv, LastWalkEnds
    PROVE  IndInv'
  <1>1. PICK r \in 1..Timeout[walk], k \in Lists :
          /\ Returns(walk, r)
          /\ \A m \in Lists : [wait EXCEPT ![walk] = r][k] <= [wait EXCEPT ![walk] = r][m]
          /\ due' = now + [wait EXCEPT ![walk] = r][k]
    BY DEF LastWalkEnds
  <1> DEFINE w == [wait EXCEPT ![walk] = r]
  <1>2. /\ walk \in Lists /\ todo = {} /\ walk' = "none" /\ wait' = Timeout
        /\ UNCHANGED <<connVars, now, todo>>
        /\ Timeout \in [Lists -> Nat \ {0}] /\ now \in Nat
    BY DEF LastWalkEnds, IndInv, Types, TimersAssumption
  <1>3. w \in [Lists -> Nat] /\ \A l \in Lists : w[l] <= Timeout[l]
    BY <1>1, <1>2 DEF IndInv, Types, Global
  <1>4. \A l \in Lists : \A c \in Members(l) : now + w[l] <= Deadline(l, c)
    BY <1>1, <1>2, Returned
  <1>5. (\A m \in Lists : w[k] <= w[m]) /\ due' = now + w[k]
    BY <1>1
  <1> HIDE DEF w
  <1>6. due' \in Nat
    BY <1>2, <1>3, <1>5
  <1>7. \A l \in Lists : due' <= now + w[l] /\ due' <= now + Timeout[l]
    BY <1>2, <1>3, <1>5
  <1>8. \A l \in Lists : \A c \in Members(l) : timeouts[l][c] \in Nat
    BY DEF IndInv, Types
  <1>9. \A l \in Lists : \A c \in Members(l) : due' <= Deadline(l, c)
    BY <1>2, <1>3, <1>4, <1>6, <1>7, <1>8 DEF Deadline
  <1>10. \A l \in Lists : \A c \in Members(l) : InTime(l, c)'
    BY <1>2, <1>9 DEF IndInv, Global, InTime, Deadline, Idle, connVars
  <1>11. now <= due' + Lag /\ walk' \notin todo'
    BY <1>2, <1>3, <1>5 DEF TimersAssumption
  <1>12. Global'
    BY <1>2, <1>7, <1>10, <1>11 DEF Global, Idle, Members, connVars
  <1> QED BY <1>2, <1>6, <1>12, TimerStep DEF IndInv, Types

(* The inductive invariant holds at first and is kept.                      *)
THEOREM Invariance ==
    Spec => []IndInv
  <1>1. Init => IndInv
    <2> SUFFICES ASSUME Init PROVE IndInv
      OBVIOUS
    <2>1. /\ \A l \in Lists : timeouts[l] = [m \in {} |-> 0] /\ Members(l) = {}
          /\ timeouts = [l \in Lists |-> timeouts[l]]
      BY DEF Init, Members
    <2>2. PICK l \in Lists : (\A m \in Lists : Timeout[l] <= Timeout[m]) /\ due = Timeout[l]
      BY DEF Init
    <2>3. Timeout \in [Lists -> Nat \ {0}] /\ Lag \in Nat
      BY TimersAssumption DEF TimersAssumption
    <2>4. Types
      BY <2>1, <2>2, <2>3 DEF Init, Types, Gone, Never, Conn, Moments
    <2>5. \A c \in Clients : Local(c)
      BY <2>1 DEF Init, Local, Established, Gone, Lists
    <2>6. Global
      BY <2>1, <2>2, <2>3 DEF Init, Global, Idle
    <2> QED BY <2>4, <2>5, <2>6 DEF IndInv
  <1>2. IndInv /\ [Next]_vars => IndInv'
    <2> SUFFICES ASSUME IndInv, [Next]_vars PROVE IndInv'
      OBVIOUS
    <2> USE TimersAssumption
    <2>1. CASE UNCHANGED vars
      BY <2>1 DEF vars, IndInv, Types, Local, Global, InTime, Deadline, Members, Established, Idle
    <2>2. ASSUME NEW c \in Clients, Callback(c) PROVE IndInv'
      <3>1. CASE Accept(c)
        BY <3>1, AcceptStep
      <3>2. CASE Handshake(c)
        BY <3>2, <2>1 DEF Handshake
      <3>3. CASE Connect(c)
        BY <3>3, ConnectStep
      <3>4. CASE Associate(c)
        BY <3>4, AssociateStep
      <3>5. CASE RemoteRecv(c)
        BY <3>5, RemoteRecvStep
      <3>6. CASE RecvStream(c)
        BY <3>6, RecvStreamStep
      <3>7. CASE ClientSend(c)
        BY <3>7, ClientSendStep
      <3>8. CASE RemoteSend(c)
        BY <3>8, RemoteSendStep
      <3>9. CASE Datagram(c)
        BY <3>9, DatagramStep
      <3>10. CASE Close(c)
        BY <3>10, EndsStep DEF Close
      <3> QED BY <2>2, <3>1, <3>2, <3>3, <3>4, <3>5, <3>6, <3>7, <3>8, <3>9, <3>10 DEF Callback
    <2>3. ASSUME NEW c \in Clients, Expires(c) PROVE IndInv'
      BY <2>3, EndsStep DEF Expires
    <2>4. CASE Tick
      BY <2>4, TickStep
    <2>5. CASE TimerFires
      BY <2>5, TimerFiresStep
    <2>6. CASE WalkEnds
      BY <2>6, WalkEndsStep
    <2>7. CASE LastWalkEnds
      BY <2>7, LastWalkEndsStep
    <2> QED BY <2>1, <2>2, <2>3, <2>4, <2>5, <2>6, <2>7 DEF Next
  <1> QED BY <1>1, <1>2, PTL DEF Spec

(* The values of all variables, and no deleted client in a list.            *)
THEOREM TypeCorrect ==
    Spec => []TypeOK
  <1>1. IndInv => TypeOK
    BY DEF IndInv, TypeOK, Types, Local, Live, Established, Lists
  <1> QED BY <1>1, Invariance, PTL

(* The one timer is due before the first deadline of all three lists.       *)
THEOREM TimerDue ==
    Spec => []TimerInTime
  <1>1. IndInv => TimerInTime
    BY DEF IndInv, TimerInTime, Global, InTime
  <1> QED BY <1>1, Invariance, PTL

(* Handshakes, stalled streams and idle sessions end in time.               *)
THEOREM Timely ==
    Spec => []EndsInTime
  <1>1. IndInv => EndsInTime
    <2> SUFFICES ASSUME IndInv, NEW c \in Clients
                 PROVE  EndsInTime!(c)
      BY DEF EndsInTime
    <2>1. Local(c) /\ conn[c] \in Conn
      BY DEF IndInv, Types
    <2>2. \A l \in Lists : c \in Members(l) => now <= timeouts[l][c] + Timeout[l] + Lag
      BY DEF IndInv, Global, InTime, Deadline
    <2>3. "client" \in Lists /\ "remote" \in Lists /\ "idle" \in Lists
      BY DEF Lists
    <2> QED BY <2>1, <2>2, <2>3 DEF Local
  <1> QED BY <1>1, Invariance, PTL

(* The timer ends only those that have outstayed one of their timeouts.     *)
THEOREM ForCause ==
    Spec => EndedForCause
  <1>1. IndInv /\ [Next]_vars => [walk # "none" => \A c \in Clients : Live(c) /\ ~Live(c)' => Cause(c)]_vars
    <2> SUFFICES ASSUME IndInv, Next, walk # "none", NEW c \in Clients, Live(c), ~Live(c)'
                 PROVE  Cause(c)
      OBVIOUS
    <2>1. Expires(c)
      <3>1. conn' # conn
        BY DEF Live
      <3>2. PICK d \in Clients : Expires(d)
        BY <3>1 DEF Next, Callback, Idle, Accept, Handshake, Connect, Associate, RemoteRecv, RecvStream,
             ClientSend, RemoteSend, Datagram, Close, Tick, TimerFires, WalkEnds, LastWalkEnds, connVars
      <3>3. conn' = [conn EXCEPT ![d] = Gone]
        BY <3>2 DEF Expires, Ends
      <3>4. d # c => conn'[c] = conn[c]
        BY <3>3 DEF IndInv, Types
      <3> QED BY <3>2, <3>4 DEF Live
    <2>2. Local(c) /\ conn[c] \in Conn /\ walk \in Lists
      BY DEF IndInv, Types
    <2>3. c \in Members(walk) /\ timeouts[walk][c] + Timeout[walk] <= now
      BY <2>1 DEF Expires, Deadline
    <2>4. CASE walk = "client"
      BY <2>2, <2>3, <2>4 DEF Local, Cause
    <2>5. CASE walk = "remote"
      BY <2>2, <2>3, <2>5 DEF Local, Cause
    <2>6. CASE walk = "idle"
      BY <2>2, <2>3, <2>6 DEF Local, Cause
    <2> QED BY <2>2, <2>4, <2>5, <2>6 DEF Lists
  <1> QED BY <1>1, Invariance, PTL DEF Spec, EndedForCause
=============================================================================
