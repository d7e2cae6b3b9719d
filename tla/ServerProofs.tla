---------------------------- MODULE ServerProofs ----------------------------
(* Theorems about Server, for any set of clients, input and build.          *)
EXTENDS Server, FiniteSetTheorems, TLAPS

(* clients() asserts that no list is longer than client_timeouts: if that   *)
(* one is empty they all are.                                               *)
LEMMA NoneLeft ==
    ASSUME NEW rt \in SUBSET Clients, NEW it \in SUBSET Clients,
           Asserts, ClientsAsserts({}, rt, it)
    PROVE  rt = {} /\ it = {}
<1>1. IsFiniteSet(rt) /\ IsFiniteSet(it)
  BY ServerAssumption, FS_Subset
<1>2. Cardinality({}) = 0
  BY FS_EmptySet
<1>3. Cardinality(rt) \in Nat /\ Cardinality(it) \in Nat
  BY <1>1, FS_CardinalityType
<1>4. Cardinality(rt) = 0 /\ Cardinality(it) = 0
  BY <1>2, <1>3 DEF ClientsAsserts
<1> QED BY <1>1, <1>4, FS_EmptySet

(* With assertions on, a loop that is broken has no client.                 *)
LEMMA NotBroken ==
    ASSUME IndInv, Up, NEW c \in Clients, Live(c)
    PROVE  Asserts => proc = "running"
BY DEF IndInv, Global, Up

(* A server that listens and has no client yet.                            *)
LEMMA InitIndInv == Init => IndInv
<1> SUFFICES ASSUME Init PROVE IndInv
  OBVIOUS
<1>1. Types
  <2>1. 0 \in 0..MaxInput
    BY ServerAssumption
  <2>2. [state |-> "none", input |-> 0, cbuf |-> FALSE, rbuf |-> FALSE,
         ceof |-> FALSE, reof |-> FALSE, udp |-> "none", auth |-> "no"] \in Conn
    BY <2>1 DEF Conn, States
  <2>3. conn \in [Clients -> Conn]
    BY <2>2, Zenon DEF Init
  <2>4. proc \in Fates
    BY DEF Init, Fates
  <2>5. listening \in BOOLEAN /\ term_req \in BOOLEAN /\ timerOn \in BOOLEAN
        /\ faulted \in BOOLEAN
    BY DEF Init
  <2>6. client_timeouts \subseteq Clients /\ remote_timeouts \subseteq Clients
        /\ idle_timeouts \subseteq Clients /\ ints \in 0..2
        /\ cur \in Clients \cup {"none", "timer", "force"}
    BY DEF Init
  <2> QED BY <2>3, <2>4, <2>5, <2>6 DEF Types
<1>2. \A c \in Clients : Local(c)
  BY DEF Init, Local, Live, Established, Handshaking
<1>3. Global
  BY DEF Init, Global, TimerArmed
<1> QED BY <1>1, <1>2, <1>3 DEF IndInv

(* A step that changes one client, its memberships and which callback runs. *)
LEMMA ClientStep ==
    ASSUME IndInv, NEW c \in Clients,
           Asserts => proc = "running",
           conn' \in [Clients -> Conn],
           client_timeouts' \in SUBSET Clients,
           remote_timeouts' \in SUBSET Clients,
           idle_timeouts' \in SUBSET Clients,
           faulted' \in BOOLEAN,
           cur' \in Clients \cup {"none", "timer", "force"},
           cur = "timer" => cur' = "timer",
           UNCHANGED <<listening, term_req, ints, timerOn, proc>>,
           \A d \in Clients \ {c} :
             /\ conn'[d] = conn[d]
             /\ d \in client_timeouts' <=> d \in client_timeouts
             /\ d \in remote_timeouts' <=> d \in remote_timeouts
             /\ d \in idle_timeouts' <=> d \in idle_timeouts,
           Local(c)'
    PROVE  IndInv'
<1>1. Types'
  BY DEF IndInv, Types
<1>2. ASSUME NEW d \in Clients PROVE Local(d)'
  <2>1. CASE d = c
    BY <2>1
  <2>2. CASE d # c
    <3>1. Local(d)
      BY DEF IndInv
    <3> QED BY <2>2, <3>1 DEF Local, Live, Established, Handshaking
  <2> QED BY <2>1, <2>2
<1>3. Global'
  BY DEF IndInv, Global, TimerArmed
<1> QED BY <1>1, <1>2, <1>3 DEF IndInv

(* A failed assertion, or undefined behaviour.                              *)
LEMMA FailsStep ==
    ASSUME IndInv, NEW x \in Fates \ {"running", "breaking", "exited", "clients() == 0"},
           Fails(x)
    PROVE  IndInv'
<1>1. Types' /\ (\A c \in Clients : Local(c)')
  BY DEF IndInv, Types, Fails, lists, loopVars, Local, Live, Established, Handshaking
<1>2. Global'
  BY DEF IndInv, Global, TimerArmed, Fails, lists, loopVars
<1> QED BY <1>1, <1>2 DEF IndInv

(* on_client_done(): the lists lose the client, and what check_term_cb()    *)
(* decides is decided with the lists it leaves.                             *)
LEMMA DeleteStep ==
    ASSUME IndInv, Up, NEW c \in Clients, Live(c),
           NEW next \in {"none", "timer", "force"}, cur = "timer" => next = "timer",
           NEW closed, Delete(c, next, closed), faulted' \in BOOLEAN
    PROVE  IndInv'
<1>1. Asserts => proc = "running"
  BY NotBroken
<1>2. conn[c] \in Conn /\ conn' = [conn EXCEPT ![c] = conn'[c]] /\ conn'[c] \in Conn
      /\ conn'[c].state = "none" /\ conn'[c].auth \notin {"twice", "open"}
  <2>1. conn[c] \in Conn /\ conn \in [Clients -> Conn]
    BY DEF IndInv, Types
  <2>2. conn[c].auth # "twice" /\ (conn[c].auth = "open" <=> conn[c].state = "AUTH")
    BY DEF IndInv, Local
  <2> DEFINE a == IF conn[c].state = "AUTH" THEN AuthEnd(conn[c].auth) ELSE conn[c].auth
             r == [conn[c] EXCEPT !.state = "none", !.auth = a]
  <2>3. a \in {"no", "ended"}
    BY <2>1, <2>2 DEF Conn, AuthEnd
  <2>4. conn' = [conn EXCEPT ![c] = r]
    BY <2>1 DEF Delete
  <2> HIDE DEF a
  <2>5. r \in Conn /\ r.state = "none" /\ r.auth = a
    BY <2>1, <2>3 DEF Conn, States
  <2> HIDE DEF r
  <2>6. conn'[c] = r
    BY <2>1, <2>4
  <2> QED BY <2>1, <2>3, <2>4, <2>5, <2>6
<1>3. Types'
  <2>1. conn' \in [Clients -> Conn]
    BY <1>2 DEF IndInv, Types
  <2>2. proc' \in Fates /\ term_req' \in BOOLEAN /\ timerOn' \in BOOLEAN
    BY DEF IndInv, Types, Delete, CheckTerm, Fates
  <2> QED BY <2>1, <2>2 DEF IndInv, Types, Delete
<1>4. ASSUME NEW d \in Clients PROVE Local(d)'
  <2>1. CASE d = c
    BY <1>2, <2>1 DEF Delete, Local, Live, Established, Handshaking
  <2>2. CASE d # c
    <3>1. conn'[d] = conn[d] /\ Local(d)
      BY <1>2, <2>2 DEF IndInv, Types
    <3> QED BY <2>2, <3>1 DEF Delete, Local, Live, Established, Handshaking
  <2> QED BY <2>1, <2>2
<1>5. Global'
  <2>1. CASE proc' = "breaking" /\ Asserts
    <3>1. proc = "running" /\ client_timeouts' = {} /\ term_req
          /\ ClientsAsserts({}, remote_timeouts', idle_timeouts')
      BY <1>1, <2>1 DEF Delete, CheckTerm
    <3>2. idle_timeouts' = {}
      BY <1>3, <2>1, <3>1, NoneLeft DEF Types
    <3>3. \A d \in Clients : ~Live(d)'
      BY <1>3, <1>4, <2>1, <3>1, <3>2
      DEF Types, Conn, States, Local, Live, Handshaking, Established
    <3> QED BY <2>1, <3>1, <3>3 DEF IndInv, Global, TimerArmed, Delete, CheckTerm
  <2>2. CASE ~(proc' = "breaking" /\ Asserts)
    <3>1. proc' # "exited" \/ ~Asserts
      BY <1>1 DEF Delete, CheckTerm
    <3> QED BY <2>2, <3>1 DEF IndInv, Global, TimerArmed, Delete, CheckTerm
  <2> QED BY <2>1, <2>2
<1> QED BY <1>3, <1>4, <1>5 DEF IndInv

(* on_client_done() in any of its outcomes.                                 *)
LEMMA DoneStep ==
    ASSUME IndInv, Up, NEW c \in Clients, Live(c),
           NEW next \in {"none", "timer", "force"}, cur = "timer" => next = "timer",
           Done(c, next)
    PROVE  IndInv'
<1>1. CASE Delete(c, next, Closes(c)) /\ UNCHANGED faulted
  BY <1>1, DeleteStep DEF IndInv, Types
<1>2. CASE UninitialisedPeer(c) /\ Fails("crashed")
  BY <1>2, FailsStep DEF Fates
<1> QED BY <1>1, <1>2 DEF Done

(* What one field-by-field update of a client leaves: used for every action *)
(* of a single client.                                                      *)
LEMMA Updated ==
    ASSUME Types, NEW c \in Clients, NEW r \in Conn, conn' = [conn EXCEPT ![c] = r]
    PROVE  /\ conn' \in [Clients -> Conn]
           /\ conn'[c] = r
           /\ \A d \in Clients \ {c} : conn'[d] = conn[d]
BY DEF Types

(* on_connection(): a client in its handshake, timed.                      *)
LEMMA AcceptStep == ASSUME IndInv, NEW c \in Clients, Accept(c) PROVE IndInv'
<1> DEFINE r == [state |-> "INIT", input |-> 0, cbuf |-> FALSE, rbuf |-> FALSE,
                 ceof |-> FALSE, reof |-> FALSE, udp |-> "none", auth |-> "no"]
<1>1. r \in Conn
  BY ServerAssumption DEF Conn, States
<1>2. conn' = [conn EXCEPT ![c] = r]
  BY DEF Accept
<1>3. r.state = "INIT" /\ r.auth = "no"
  OBVIOUS
<1> HIDE DEF r
<1>4. /\ conn' \in [Clients -> Conn] /\ conn'[c] = r
      /\ \A d \in Clients \ {c} : conn'[d] = conn[d]
  BY <1>1, <1>2, Updated DEF IndInv
<1>5. Asserts => proc = "running"
  BY DEF Accept, Idle, Up, IndInv, Global
<1>6. Local(c)'
  <2>1. c \notin remote_timeouts
    BY DEF Accept, IndInv, Local
  <2> QED BY <1>3, <1>4, <2>1 DEF Accept, Local, Live, Established, Handshaking
<1> QED BY <1>4, <1>5, <1>6, ClientStep DEF Accept, Idle, IndInv, Types, loopVars

(* The methods are read and auth_begin() has chosen one.                   *)
LEMMA MethodsStep == ASSUME IndInv, NEW c \in Clients, Methods(c) PROVE IndInv'
<1>1. PICK pending \in BOOLEAN :
        conn' = [conn EXCEPT ![c].state = "AUTH", ![c].input = @ - 1,
                             ![c].cbuf = pending, ![c].auth = "open"]
  BY DEF Methods
<1> DEFINE r == [conn[c] EXCEPT !.state = "AUTH", !.input = @ - 1,
                                !.cbuf = pending, !.auth = "open"]
<1>2. r \in Conn /\ r.state = "AUTH" /\ r.auth = "open"
  BY ServerAssumption DEF IndInv, Types, Conn, States, Methods, Iterates
<1>3. conn' = [conn EXCEPT ![c] = r]
  BY <1>1 DEF IndInv, Types, Conn
<1> HIDE DEF r
<1>4. /\ conn' \in [Clients -> Conn] /\ conn'[c] = r
      /\ \A d \in Clients \ {c} : conn'[d] = conn[d]
  BY <1>2, <1>3, Updated DEF IndInv
<1>5. Asserts => proc = "running"
  BY NotBroken DEF Methods, Iterates, InLoop, Live
<1>6. Local(c)'
  BY <1>2, <1>4 DEF Methods, Iterates, unlisted, lists, IndInv, Local, Live, Established, Handshaking
<1> QED
  BY <1>4, <1>5, <1>6, ClientStep
  DEF Methods, Iterates, InLoop, unlisted, lists, loopVars, IndInv, Types

(* client_recv_cb outside STREAM: only the input grows.                     *)
LEMMA RecvStep ==
    ASSUME IndInv, NEW c \in Clients, NEW k \in 1..MaxInput, Recv(c, k) PROVE IndInv'
<1> DEFINE r == [conn[c] EXCEPT !.input = @ + k]
<1>1. r \in Conn /\ r.state = conn[c].state /\ r.auth = conn[c].auth
      /\ r.cbuf = conn[c].cbuf /\ r.rbuf = conn[c].rbuf
  BY ServerAssumption DEF IndInv, Types, Conn, Recv
<1>2. conn' = [conn EXCEPT ![c] = r]
  BY DEF IndInv, Types, Conn, Recv
<1> HIDE DEF r
<1>3. /\ conn' \in [Clients -> Conn] /\ conn'[c] = r
      /\ \A d \in Clients \ {c} : conn'[d] = conn[d]
  BY <1>1, <1>2, Updated DEF IndInv
<1>4. conn[c].state # "none" /\ conn[c].state # "STREAM"
  BY DEF Recv, Handshaking
<1>5. Asserts => proc = "running"
  BY <1>4, NotBroken DEF Recv, Idle, Live
<1>6. Local(c)'
  BY <1>1, <1>3, <1>4 DEF Recv, lists, IndInv, Local, Live, Established, Handshaking
<1> QED BY <1>3, <1>5, <1>6, ClientStep DEF Recv, Idle, lists, loopVars, IndInv, Types

(* A session moves bytes: the callbacks of state STREAM and client_send_cb   *)
(* change what is pending in the two channels, the lists and which ends have *)
(* finished, all for one client.                                             *)
LEMMA RelayStep ==
    ASSUME IndInv, Idle, NEW c \in Clients, Live(c),
           NEW cb \in BOOLEAN, NEW rb \in BOOLEAN, NEW ce \in BOOLEAN, NEW re \in BOOLEAN,
           conn' = [conn EXCEPT ![c] = [conn[c] EXCEPT !.cbuf = cb, !.rbuf = rb,
                                                       !.ceof = ce, !.reof = re]],
           conn[c].state = "STREAM" \/ ~Asserts,
           conn[c].state # "STREAM" => rb = conn[c].rbuf,
           \/ client_timeouts' = Touched(client_timeouts, c, cb)
           \/ client_timeouts' = client_timeouts /\ cb = conn[c].cbuf,
           \/ remote_timeouts' = Touched(remote_timeouts, c, rb) /\ conn[c].state = "STREAM"
           \/ remote_timeouts' = remote_timeouts /\ rb = conn[c].rbuf,
           idle_timeouts' \in {idle_timeouts, idle_timeouts \cup {c}},
           UNCHANGED <<loopVars, cur, proc, faulted>>
    PROVE  IndInv'
<1> DEFINE r == [conn[c] EXCEPT !.cbuf = cb, !.rbuf = rb, !.ceof = ce, !.reof = re]
<1>1. r \in Conn /\ r.state = conn[c].state /\ r.auth = conn[c].auth
      /\ r.cbuf = cb /\ r.rbuf = rb /\ r.input = conn[c].input
  BY DEF IndInv, Types, Conn
<1>2. conn' = [conn EXCEPT ![c] = r]
  OBVIOUS
<1> HIDE DEF r
<1>3. /\ conn' \in [Clients -> Conn] /\ conn'[c] = r
      /\ \A d \in Clients \ {c} : conn'[d] = conn[d]
  BY <1>1, <1>2, Updated DEF IndInv
<1>4. Asserts => proc = "running"
  BY NotBroken DEF Idle
<1>5. Local(c)'
  <2>1. Local(c)
    BY DEF IndInv
  <2> QED BY <1>1, <1>3, <2>1 DEF Touched, Local, Live, Established, Handshaking
<1> QED BY <1>3, <1>4, <1>5, ClientStep DEF Touched, loopVars, IndInv, Types

(* client_recv_cb in STREAM.                                               *)
LEMMA RecvStreamStep == ASSUME IndInv, NEW c \in Clients, RecvStream(c) PROVE IndInv'
<1>1. CASE ~conn[c].rbuf /\ Done(c, "none")
  BY <1>1, DoneStep DEF RecvStream, Idle, Live
<1>2. CASE ~(~conn[c].rbuf /\ Done(c, "none"))
  <2>1. PICK pending \in BOOLEAN :
          /\ conn' = [conn EXCEPT ![c].rbuf = pending]
          /\ remote_timeouts' = Touched(remote_timeouts, c, pending)
          /\ idle_timeouts' = idle_timeouts \cup {c}
          /\ UNCHANGED <<client_timeouts, loopVars, cur, proc, fds, faulted>>
    BY <1>2 DEF RecvStream
  <2>2. conn' = [conn EXCEPT ![c] =
                   [conn[c] EXCEPT !.cbuf = conn[c].cbuf, !.rbuf = pending,
                                   !.ceof = conn[c].ceof, !.reof = conn[c].reof]]
    BY <2>1 DEF IndInv, Types, Conn
  <2>3. conn[c].cbuf \in BOOLEAN /\ conn[c].ceof \in BOOLEAN /\ conn[c].reof \in BOOLEAN
    BY DEF IndInv, Types, Conn
  <2> QED BY <2>1, <2>2, <2>3, RelayStep DEF RecvStream, Live
<1> QED BY <1>1, <1>2

(* client_recv_cb at end of file: on_client_eof or an error.               *)
LEMMA RecvEofStep == ASSUME IndInv, NEW c \in Clients, RecvEof(c) PROVE IndInv'
<1>1. CASE conn[c].state # "STREAM" \/ conn[c].reof
  BY <1>1, DoneStep DEF RecvEof, Idle
<1>2. CASE ~(conn[c].state # "STREAM" \/ conn[c].reof)
  <2>1. conn' = [conn EXCEPT ![c] =
                   [conn[c] EXCEPT !.cbuf = conn[c].cbuf, !.rbuf = conn[c].rbuf,
                                   !.ceof = TRUE, !.reof = conn[c].reof]]
    BY <1>2 DEF RecvEof, IndInv, Types, Conn
  <2>2. conn[c].cbuf \in BOOLEAN /\ conn[c].rbuf \in BOOLEAN /\ conn[c].reof \in BOOLEAN
    BY DEF IndInv, Types, Conn
  <2> QED BY <1>2, <2>1, <2>2, RelayStep DEF RecvEof, lists
<1> QED BY <1>1, <1>2

(* remote_recv_cb with data, or failing.                                   *)
LEMMA RemoteRecvStep == ASSUME IndInv, NEW c \in Clients, RemoteRecv(c) PROVE IndInv'
<1>1. CASE Done(c, "none")
  BY <1>1, DoneStep DEF RemoteRecv, Idle, Live
<1>2. CASE ~Done(c, "none")
  <2>1. PICK pending \in BOOLEAN :
          /\ conn' = [conn EXCEPT ![c].cbuf = pending]
          /\ client_timeouts' = Touched(client_timeouts, c, pending)
          /\ idle_timeouts' = idle_timeouts \cup {c}
          /\ UNCHANGED <<remote_timeouts, loopVars, cur, proc, fds, faulted>>
    BY <1>2 DEF RemoteRecv
  <2>2. conn' = [conn EXCEPT ![c] =
                   [conn[c] EXCEPT !.cbuf = pending, !.rbuf = conn[c].rbuf,
                                   !.ceof = conn[c].ceof, !.reof = conn[c].reof]]
    BY <2>1 DEF IndInv, Types, Conn
  <2>3. conn[c].rbuf \in BOOLEAN /\ conn[c].ceof \in BOOLEAN /\ conn[c].reof \in BOOLEAN
    BY DEF IndInv, Types, Conn
  <2> QED BY <2>1, <2>2, <2>3, RelayStep DEF RemoteRecv, Live
<1> QED BY <1>1, <1>2

(* remote_recv_cb at end of file: on_remote_eof.                           *)
LEMMA RemoteEofStep == ASSUME IndInv, NEW c \in Clients, RemoteEof(c) PROVE IndInv'
<1>1. CASE conn[c].ceof
  BY <1>1, DoneStep DEF RemoteEof, Idle, Live
<1>2. CASE ~conn[c].ceof
  <2>1. conn' = [conn EXCEPT ![c] =
                   [conn[c] EXCEPT !.cbuf = conn[c].cbuf, !.rbuf = conn[c].rbuf,
                                   !.ceof = conn[c].ceof, !.reof = TRUE]]
    BY <1>2 DEF RemoteEof, IndInv, Types, Conn
  <2>2. conn[c].cbuf \in BOOLEAN /\ conn[c].rbuf \in BOOLEAN /\ conn[c].ceof \in BOOLEAN
    BY DEF IndInv, Types, Conn
  <2> QED BY <1>2, <2>1, <2>2, RelayStep DEF RemoteEof, Live, lists
<1> QED BY <1>1, <1>2

(* client_send_cb, with update_client_timeout()'s assertion.               *)
LEMMA ClientSendStep == ASSUME IndInv, NEW c \in Clients, ClientSend(c) PROVE IndInv'
<1>1. CASE Done(c, "none")
  BY <1>1, DoneStep DEF ClientSend, Idle
<1>2. CASE Asserts /\ conn[c].state # "STREAM" /\ Fails("state == STREAM")
  BY <1>2, FailsStep DEF Fates
<1>3. CASE /\ ~Done(c, "none")
           /\ ~(Asserts /\ conn[c].state # "STREAM" /\ Fails("state == STREAM"))
  <2>1. PICK pending \in BOOLEAN :
          /\ conn' = [conn EXCEPT ![c].cbuf = pending]
          /\ client_timeouts' = Touched(client_timeouts, c, pending)
    BY <1>3 DEF ClientSend
  <2>2. conn' = [conn EXCEPT ![c] =
                   [conn[c] EXCEPT !.cbuf = pending, !.rbuf = conn[c].rbuf,
                                   !.ceof = conn[c].ceof, !.reof = conn[c].reof]]
    BY <2>1 DEF IndInv, Types, Conn
  <2>3. conn[c].rbuf \in BOOLEAN /\ conn[c].ceof \in BOOLEAN /\ conn[c].reof \in BOOLEAN
    BY DEF IndInv, Types, Conn
  <2>4. Idle /\ Live(c) /\ (conn[c].state = "STREAM" \/ ~Asserts)
        /\ UNCHANGED <<remote_timeouts, idle_timeouts, loopVars, cur, proc, faulted>>
    BY <1>3 DEF ClientSend
  <2> QED BY <2>1, <2>2, <2>3, <2>4, RelayStep
<1> QED BY <1>1, <1>2, <1>3

(* remote_send_cb.                                                         *)
LEMMA RemoteSendStep == ASSUME IndInv, NEW c \in Clients, RemoteSend(c) PROVE IndInv'
<1>1. CASE Done(c, "none")
  BY <1>1, DoneStep DEF RemoteSend, Idle, Live
<1>2. CASE ~Done(c, "none")
  <2>1. PICK pending \in BOOLEAN :
          /\ conn' = [conn EXCEPT ![c].rbuf = pending]
          /\ remote_timeouts' = Touched(remote_timeouts, c, pending)
          /\ UNCHANGED <<client_timeouts, idle_timeouts, loopVars, cur, proc, fds, faulted>>
    BY <1>2 DEF RemoteSend
  <2>2. conn' = [conn EXCEPT ![c] =
                   [conn[c] EXCEPT !.cbuf = conn[c].cbuf, !.rbuf = pending,
                                   !.ceof = conn[c].ceof, !.reof = conn[c].reof]]
    BY <2>1 DEF IndInv, Types, Conn
  <2>3. conn[c].cbuf \in BOOLEAN /\ conn[c].ceof \in BOOLEAN /\ conn[c].reof \in BOOLEAN
    BY DEF IndInv, Types, Conn
  <2> QED BY <2>1, <2>2, <2>3, RelayStep DEF RemoteSend, Live
<1> QED BY <1>1, <1>2

-----------------------------------------------------------------------------
(* The handshake loop.                                                      *)

(* The loop leaves the handshake for later bytes.                          *)
LEMMA ReturnStep == ASSUME IndInv, NEW c \in Clients, Return(c) PROVE IndInv'
<1>1. c \notin {"none", "timer", "force"}
  BY ServerAssumption
<1>2. Types'
  BY DEF Return, unlisted, lists, loopVars, IndInv, Types
<1>3. \A d \in Clients : Local(d)'
  BY DEF Return, unlisted, lists, IndInv, Local, Live, Established, Handshaking
<1>4. Global'
  BY <1>1 DEF Return, InLoop, unlisted, lists, loopVars, IndInv, Global, TimerArmed, Live
<1> QED BY <1>2, <1>3, <1>4 DEF IndInv

(* The loop ends the client.                                               *)
LEMMA RejectStep == ASSUME IndInv, NEW c \in Clients, Reject(c) PROVE IndInv'
<1>1. c \notin {"none", "timer", "force"}
  BY ServerAssumption
<1> QED BY <1>1, DoneStep DEF Reject, InLoop, Live, Handshaking

(* auth_perform() is done: auth_end(), state CMD.                          *)
LEMMA AuthenticatedStep ==
    ASSUME IndInv, NEW c \in Clients, Authenticated(c) PROVE IndInv'
<1>1. PICK used \in {0, 1}, pending \in BOOLEAN :
        conn' = [conn EXCEPT ![c].state = "CMD", ![c].input = @ - used,
                             ![c].cbuf = pending, ![c].auth = AuthEnd(@)]
  BY DEF Authenticated
<1> DEFINE r == [conn[c] EXCEPT !.state = "CMD", !.input = @ - used,
                                !.cbuf = pending, !.auth = AuthEnd(@)]
<1>2. conn[c].auth = "open"
  BY DEF Authenticated, Iterates, IndInv, Local
<1>3. r \in Conn /\ r.state = "CMD" /\ r.auth = "ended"
  BY <1>2, ServerAssumption
  DEF IndInv, Types, Conn, States, AuthEnd, Authenticated, Iterates
<1>4. conn' = [conn EXCEPT ![c] = r]
  BY <1>1 DEF IndInv, Types, Conn
<1> HIDE DEF r
<1>5. /\ conn' \in [Clients -> Conn] /\ conn'[c] = r
      /\ \A d \in Clients \ {c} : conn'[d] = conn[d]
  BY <1>3, <1>4, Updated DEF IndInv
<1>6. Asserts => proc = "running"
  BY NotBroken DEF Authenticated, Iterates, InLoop, Live
<1>7. Local(c)'
  BY <1>3, <1>5
  DEF Authenticated, Iterates, unlisted, lists, IndInv, Local, Live, Established, Handshaking
<1> QED
  BY <1>5, <1>6, <1>7, ClientStep
  DEF Authenticated, Iterates, InLoop, unlisted, lists, loopVars, IndInv, Types

(* The steps of state CMD that stay there: an error was answered.           *)
LEMMA ErrorReplyStep ==
    ASSUME IndInv, NEW c \in Clients, Iterates(c, "CMD"),
           NEW udp \in {"none", "client", "both"}, RepliesError(c, udp),
           UNCHANGED <<lists, loopVars, proc>>, cur' \in {cur, "none"}, faulted' \in BOOLEAN
    PROVE  IndInv'
<1>1. PICK pending \in BOOLEAN :
        conn' = [conn EXCEPT ![c].input = @ - 1, ![c].cbuf = pending, ![c].udp = udp]
  BY DEF RepliesError
<1> DEFINE r == [conn[c] EXCEPT !.input = @ - 1, !.cbuf = pending, !.udp = udp]
<1>2. r \in Conn /\ r.state = "CMD" /\ r.auth = conn[c].auth /\ r.rbuf = conn[c].rbuf
  <2>1. conn[c] \in Conn /\ conn[c].state = "CMD" /\ conn[c].input > 0
    BY DEF IndInv, Types, Iterates
  <2>2. conn[c].input - 1 \in 0..MaxInput
    BY <2>1, ServerAssumption DEF Conn
  <2> QED BY <2>1, <2>2 DEF Conn
<1>3. conn' = [conn EXCEPT ![c] = r]
  BY <1>1 DEF IndInv, Types, Conn
<1> HIDE DEF r
<1>4. /\ conn' \in [Clients -> Conn] /\ conn'[c] = r
      /\ \A d \in Clients \ {c} : conn'[d] = conn[d]
  BY <1>2, <1>3, Updated DEF IndInv
<1>5. Asserts => proc = "running"
  BY NotBroken DEF Iterates, InLoop, Live
<1>6. Local(c)'
  BY <1>2, <1>4 DEF Iterates, lists, IndInv, Local, Live, Established, Handshaking
<1>7. cur # "timer"
  BY ServerAssumption DEF Iterates, InLoop
<1> QED BY <1>4, <1>5, <1>6, <1>7, ClientStep DEF lists, loopVars, IndInv, Types

(* A command that is not supported.                                        *)
LEMMA UnsupportedStep == ASSUME IndInv, NEW c \in Clients, Unsupported(c) PROVE IndInv'
<1>1. conn[c].udp \in {"none", "client", "both"}
  BY DEF IndInv, Types, Conn
<1> QED BY <1>1, ErrorReplyStep DEF Unsupported, unlisted, IndInv, Types

(* cmd_connect() when tcp_connect() fails.                                 *)
LEMMA ConnectFailsStep == ASSUME IndInv, NEW c \in Clients, ConnectFails(c) PROVE IndInv'
<1>1. conn[c].udp \in {"none", "client", "both"}
  BY DEF IndInv, Types, Conn
<1>2. CASE Asserts /\ conn[c].input > 1
  BY <1>2, FailsStep DEF ConnectFails, Fates
<1>3. CASE ~(Asserts /\ conn[c].input > 1)
  BY <1>1, <1>3, ErrorReplyStep DEF ConnectFails, unlisted, IndInv, Types
<1> QED BY <1>2, <1>3

(* cmd_udp() when a peer cannot be created.                                *)
LEMMA AssociateFailsStep ==
    ASSUME IndInv, NEW c \in Clients, AssociateFails(c) PROVE IndInv'
<1>1. PICK opens \in 0..2 :
        /\ Associates(c, opens)
        /\ \/ RepliesError(c, conn[c].udp) /\ faulted' = (faulted \/ opens = 1)
           \/ RepliesError(c, "client") /\ faulted' = TRUE
        /\ UNCHANGED <<lists, loopVars, cur, proc>>
  BY DEF AssociateFails
<1>2. conn[c].udp \in {"none", "client", "both"} /\ faulted' \in BOOLEAN
  BY <1>1 DEF IndInv, Types, Conn
<1> QED BY <1>1, <1>2, ErrorReplyStep DEF Associates

(* A session begins: a stream or a UDP association.                         *)
LEMMA SessionStep ==
    ASSUME IndInv, NEW c \in Clients, Iterates(c, "CMD"), NEW st \in {"STREAM", "UDP"},
           NEW pending \in BOOLEAN, NEW rb \in BOOLEAN, NEW udp \in {"none", "client", "both"},
           conn' = [conn EXCEPT ![c] =
                      [conn[c] EXCEPT !.state = st, !.cbuf = pending, !.rbuf = rb,
                                      !.input = 0, !.udp = udp]],
           st = "STREAM" => client_timeouts' = Touched(client_timeouts, c, pending),
           st = "UDP" => client_timeouts' = client_timeouts \ {c},
           idle_timeouts' = idle_timeouts \cup {c},
           UNCHANGED <<remote_timeouts, loopVars, cur, proc, faulted>>
    PROVE  IndInv'
<1> DEFINE r == [conn[c] EXCEPT !.state = st, !.cbuf = pending, !.rbuf = rb,
                                !.input = 0, !.udp = udp]
<1>1. r \in Conn /\ r.state = st /\ r.auth = conn[c].auth /\ r.cbuf = pending /\ r.input = 0
  <2>1. conn[c] \in Conn /\ 0 \in 0..MaxInput /\ st \in States
    BY ServerAssumption DEF IndInv, Types, States
  <2> QED BY <2>1 DEF Conn
<1>2. conn' = [conn EXCEPT ![c] = r]
  OBVIOUS
<1> HIDE DEF r
<1>3. /\ conn' \in [Clients -> Conn] /\ conn'[c] = r
      /\ \A d \in Clients \ {c} : conn'[d] = conn[d]
  BY <1>1, <1>2, Updated DEF IndInv
<1>4. Asserts => proc = "running"
  BY NotBroken DEF Iterates, InLoop, Live
<1>5. Local(c)'
  <2>1. Local(c) /\ conn[c].state = "CMD"
    BY DEF IndInv, Iterates
  <2> QED BY <1>1, <1>3, <2>1 DEF Touched, Local, Live, Established, Handshaking
<1> QED BY <1>3, <1>4, <1>5, ClientStep DEF Touched, loopVars, IndInv, Types

(* cmd_connect() in full.                                                  *)
LEMMA ConnectStep == ASSUME IndInv, NEW c \in Clients, Connect(c) PROVE IndInv'
<1>1. PICK pending \in BOOLEAN :
        /\ conn' = [conn EXCEPT ![c].state = "STREAM", ![c].cbuf = pending,
                                ![c].rbuf = conn[c].input > 1, ![c].input = 0]
        /\ client_timeouts' = Touched(client_timeouts, c, pending)
  BY DEF Connect
<1>2. conn' = [conn EXCEPT ![c] =
                 [conn[c] EXCEPT !.state = "STREAM", !.cbuf = pending,
                                 !.rbuf = (conn[c].input > 1), !.input = 0,
                                 !.udp = conn[c].udp]]
  BY <1>1 DEF IndInv, Types, Conn
<1>3. (conn[c].input > 1) \in BOOLEAN /\ conn[c].udp \in {"none", "client", "both"}
  BY DEF IndInv, Types, Conn
<1> QED BY <1>1, <1>2, <1>3, SessionStep DEF Connect

(* cmd_udp() in full.                                                      *)
LEMMA AssociateStep == ASSUME IndInv, NEW c \in Clients, Associate(c) PROVE IndInv'
<1>1. PICK pending \in BOOLEAN :
        conn' = [conn EXCEPT ![c].state = "UDP", ![c].cbuf = pending, ![c].input = 0,
                             ![c].udp = "both"]
  BY DEF Associate
<1>2. conn' = [conn EXCEPT ![c] =
                 [conn[c] EXCEPT !.state = "UDP", !.cbuf = pending, !.rbuf = conn[c].rbuf,
                                 !.input = 0, !.udp = "both"]]
  BY <1>1 DEF IndInv, Types, Conn
<1>3. conn[c].rbuf \in BOOLEAN
  BY DEF IndInv, Types, Conn
<1> QED BY <1>2, <1>3, SessionStep DEF Associate, Associates

(* The reply to CONNECT or to the association fails: the client is deleted. *)
LEMMA ReplyFailsStep ==
    ASSUME IndInv, NEW c \in Clients, ConnectReplyFails(c) \/ AssociateReplyFails(c)
    PROVE  IndInv'
<1>1. cur # "timer" /\ Up /\ Live(c)
  BY ServerAssumption DEF ConnectReplyFails, AssociateReplyFails, Associates, Iterates, InLoop, Live
<1>2. CASE Fails("crashed")
  BY <1>2, FailsStep DEF Fates
<1>3. CASE Delete(c, "none", Closes(c) - 1) /\ faulted' = TRUE
  BY <1>1, <1>3, DeleteStep
<1>4. CASE Delete(c, "none", 1) /\ UNCHANGED faulted
  BY <1>1, <1>4, DeleteStep DEF IndInv, Types
<1> QED BY <1>2, <1>3, <1>4 DEF ConnectReplyFails, AssociateReplyFails

(* Any iteration of the handshake loop.                                    *)
LEMMA LoopStepStep == ASSUME IndInv, NEW c \in Clients, LoopStep(c) PROVE IndInv'
BY ReturnStep, RejectStep, MethodsStep, AuthenticatedStep, UnsupportedStep, ConnectFailsStep,
   ConnectStep, ReplyFailsStep, AssociateFailsStep, AssociateStep DEF LoopStep
-----------------------------------------------------------------------------
(* The timer, the interrupts and the end.                                   *)

(* on_timer() begins.                                                      *)
LEMMA TimerFiresStep == ASSUME IndInv, TimerFires PROVE IndInv'
<1>1. Types' /\ (\A c \in Clients : Local(c)')
  BY DEF TimerFires, lists, IndInv, Types, Local, Live, Established, Handshaking
<1>2. Global'
  BY DEF TimerFires, lists, IndInv, Global, TimerArmed, Live
<1> QED BY <1>1, <1>2 DEF IndInv

(* on_timer() ends: the timer runs again.                                  *)
LEMMA TimerEndsStep == ASSUME IndInv, TimerEnds PROVE IndInv'
<1>1. Types' /\ (\A c \in Clients : Local(c)')
  BY DEF TimerEnds, lists, IndInv, Types, Local, Live, Established, Handshaking
<1>2. Global'
  BY DEF TimerEnds, lists, IndInv, Global, TimerArmed, Live
<1> QED BY <1>1, <1>2 DEF IndInv

(* A member of a list is alive, so the callback of its timeout may end it.  *)
LEMMA ExpiresStep == ASSUME IndInv, NEW c \in Clients, Expires(c) PROVE IndInv'
<1>1. Live(c)
  BY DEF Expires, IndInv, Local
<1> QED BY <1>1, DoneStep DEF Expires

(* force_term() ends a member of client_timeouts.                          *)
LEMMA ForcesStep == ASSUME IndInv, NEW c \in Clients, Forces(c) PROVE IndInv'
<1>1. Live(c)
  BY DEF Forces, IndInv, Local
<1> QED BY <1>1, DoneStep DEF Forces

(* stop_listen() with a termination request: the listener closes, and the   *)
(* loop is broken only if nobody is left (for the build with assertions).   *)
LEMMA StopListenStep ==
    ASSUME IndInv, Up, NEW req \in BOOLEAN, StopListen(req), cur # "timer",
           cur' \in {cur, "none"}, ints' \in 0..2,
           UNCHANGED <<conn, lists, faulted>>
    PROVE  IndInv'
<1>1. Types'
  <2>1. proc' \in Fates /\ term_req' \in BOOLEAN /\ timerOn' \in BOOLEAN /\ listening' = FALSE
    BY DEF IndInv, Types, StopListen, CheckTerm, Fates
  <2> QED BY <2>1 DEF IndInv, Types, lists
<1>2. \A c \in Clients : Local(c)'
  BY DEF lists, IndInv, Local, Live, Established, Handshaking
<1>3. Global'
  <2>1. listening' = FALSE /\ proc' # "clients() == 0" /\ proc' # "exited"
    BY DEF StopListen, CheckTerm, Up
  <2>2. TimerArmed'
    BY DEF StopListen, CheckTerm, IndInv, Global, TimerArmed
  <2>3. ASSUME Asserts, proc' = "breaking" PROVE \A c \in Clients : ~Live(c)'
    <3>1. CASE proc = "breaking"
      BY <2>3, <3>1 DEF IndInv, Global, Live
    <3>2. CASE proc # "breaking"
      <4>1. client_timeouts = {} /\ ClientsAsserts({}, remote_timeouts, idle_timeouts)
        BY <2>3, <3>2 DEF StopListen, CheckTerm, Up
      <4>2. idle_timeouts = {}
        BY <2>3, <4>1, NoneLeft DEF IndInv, Types
      <4> QED BY <2>3, <4>1, <4>2
        DEF IndInv, Types, Conn, States, Local, Live, Handshaking, Established
    <3> QED BY <3>1, <3>2
  <2> QED BY <2>1, <2>2, <2>3 DEF Global
<1> QED BY <1>1, <1>2, <1>3 DEF IndInv

(* sigint_cb().                                                            *)
LEMMA InterruptStep == ASSUME IndInv, Interrupt PROVE IndInv'
<1>1. CASE ~ClientsAsserts(client_timeouts, remote_timeouts, idle_timeouts)
  BY <1>1, FailsStep DEF Interrupt, Fates
<1>2. CASE /\ ClientsAsserts(client_timeouts, remote_timeouts, idle_timeouts)
           /\ ints = 0
  <2>1. StopListen(TRUE)
    BY <1>2, Zenon DEF Interrupt
  <2>2. UNCHANGED <<conn, lists, cur, faulted>> /\ ints' = 1
    BY <1>2, Zenon DEF Interrupt
  <2>3. Up /\ cur = "none"
    BY DEF Interrupt, Idle
  <2>4. cur # "timer" /\ cur' \in {cur, "none"} /\ ints' \in 0..2
    BY <2>2, <2>3
  <2>5. UNCHANGED <<conn, lists, faulted>>
    BY <2>2
  <2> QED BY <2>1, <2>3, <2>4, <2>5, StopListenStep, Zenon
<1>3. CASE /\ ClientsAsserts(client_timeouts, remote_timeouts, idle_timeouts)
           /\ ints # 0
  <2>1. Types' /\ (\A c \in Clients : Local(c)')
    BY <1>3 DEF Interrupt, lists, IndInv, Types, Local, Live, Established, Handshaking
  <2>2. Global'
    BY <1>3 DEF Interrupt, Idle, lists, IndInv, Global, TimerArmed, Live
  <2> QED BY <2>1, <2>2 DEF IndInv
<1> QED BY <1>1, <1>2, <1>3

(* force_term() ends with stop_listen().                                   *)
LEMMA ForceEndsStep == ASSUME IndInv, ForceEnds PROVE IndInv'
BY StopListenStep DEF ForceEnds, IndInv, Types

(* main() after the loop: with assertions on the lists are empty, so its    *)
(* assertion holds.                                                         *)
LEMMA ExitStep == ASSUME IndInv, Exit PROVE IndInv'
<1>1. CASE ~ClientsAsserts(client_timeouts, remote_timeouts, idle_timeouts)
  BY <1>1, FailsStep DEF Exit, Fates
<1>2. CASE ClientsAsserts(client_timeouts, remote_timeouts, idle_timeouts)
  <2>1. Asserts => client_timeouts = {}
    BY DEF Exit, IndInv, Types, Global, Local
  <2>2. Fails("exited")
    BY <1>2, <2>1 DEF Exit
  <2>3. Types' /\ (\A c \in Clients : Local(c)')
    BY <2>2 DEF Fails, lists, loopVars, IndInv, Types, Fates, Local, Live, Established, Handshaking
  <2>4. Global'
    BY <2>2 DEF Exit, Fails, lists, loopVars, IndInv, Global, TimerArmed, Live
  <2> QED BY <2>3, <2>4 DEF IndInv
<1> QED BY <1>1, <1>2

(* Any callback that is one step.                                          *)
LEMMA CallbackStep == ASSUME IndInv, NEW c \in Clients, Callback(c) PROVE IndInv'
<1>1. CASE RecvFails(c)
  BY <1>1, DoneStep DEF RecvFails, Idle
<1> QED
  BY <1>1, AcceptStep, RecvStep, RecvStreamStep, RecvEofStep, RemoteRecvStep, RemoteEofStep,
     ClientSendStep, RemoteSendStep DEF Callback
-----------------------------------------------------------------------------
(* The inductive invariant, for any number of clients and either build.     *)
THEOREM Invariance == Spec => []IndInv
<1>1. Init => IndInv
  BY InitIndInv
<1>2. IndInv /\ [Next]_vars => IndInv'
  <2> SUFFICES ASSUME IndInv, [Next]_vars PROVE IndInv'
    OBVIOUS
  <2>1. CASE Next
    BY <2>1, CallbackStep, LoopStepStep, ExpiresStep, ForcesStep, TimerFiresStep, TimerEndsStep,
       InterruptStep, ForceEndsStep, ExitStep DEF Next
  <2>2. CASE UNCHANGED vars
    <3>1. Types' /\ (\A c \in Clients : Local(c)')
      BY <2>2 DEF vars, IndInv, Types, Local, Live, Established, Handshaking
    <3>2. Global'
      BY <2>2 DEF vars, IndInv, Global, TimerArmed, Live
    <3> QED BY <3>1, <3>2 DEF IndInv
  <2> QED BY <2>1, <2>2
<1> QED BY <1>1, <1>2, PTL DEF Spec

(* No intrusive list holds a deleted client (on_client_done,                *)
(* on_remote_done).                                                         *)
THEOREM ListsHoldTheLiving == Spec => []NoDeadMember
<1>1. IndInv => NoDeadMember
  BY DEF IndInv, Types, Local, NoDeadMember
<1> QED BY <1>1, Invariance, PTL

(* Every session is in the idle list until it ends (cmd_connect, cmd_udp).  *)
THEOREM SessionsAreTimed == Spec => []SessionsTimed
<1>1. IndInv => SessionsTimed
  BY DEF IndInv, Local, SessionsTimed
<1> QED BY <1>1, Invariance, PTL

(* With assertions on, every handshake is timed (on_connection,             *)
(* update_client_timeout).                                                  *)
THEOREM HandshakesAreTimed == Spec => [](Asserts => HandshakesTimed)
<1>1. IndInv => (Asserts => HandshakesTimed)
  BY DEF IndInv, Local, HandshakesTimed
<1> QED BY <1>1, Invariance, PTL

(* A stream is timed exactly while bytes wait (update_client_timeout,       *)
(* update_remote_timeout).                                                  *)
THEOREM StreamsTimed == Spec => []StreamTimedIffPending
<1>1. IndInv => StreamTimedIffPending
  BY DEF IndInv, Local, StreamTimedIffPending
<1> QED BY <1>1, Invariance, PTL

(* auth_end() once for every client that entered AUTH, for no other.        *)
THEOREM AuthContexts == Spec => []AuthEndsOnce
<1>1. IndInv => AuthEndsOnce
  BY DEF IndInv, Local, AuthEndsOnce
<1> QED BY <1>1, Invariance, PTL

(* The loop never runs without its timer (on_timer, check_term_cb).         *)
THEOREM TimerRuns == Spec => []TimerArmed
<1>1. IndInv => TimerArmed
  BY DEF IndInv, Global
<1> QED BY <1>1, Invariance, PTL

(* assert(!"impossible state") of the handshake loop cannot fail; main()'s  *)
(* assertion holds and means that no session is left.                       *)
THEOREM KeptAssertions == Spec => []AssertionsHold
<1>1. IndInv => AssertionsHold
  BY DEF IndInv, Local, Global, AssertionsHold
<1> QED BY <1>1, Invariance, PTL

-----------------------------------------------------------------------------
(* The count of sockets.  Types and Types' come from Invariance.            *)

One(p) == IF p THEN 1 ELSE 0
OwnedBy(c) ==
    One(Live(c)) + One(conn[c].state = "STREAM") + One(Live(c) /\ conn[c].udp # "none")
    + One(Live(c) /\ conn[c].udp = "both")

(* A set of clients that gains or loses one.                                *)
LEMMA Recount ==
    ASSUME NEW S \in SUBSET Clients, NEW T \in SUBSET Clients, NEW c \in Clients,
           \A d \in Clients \ {c} : d \in S <=> d \in T
    PROVE  /\ Cardinality(S) \in Nat /\ Cardinality(T) \in Nat
           /\ Cardinality(T) + One(c \in S) = Cardinality(S) + One(c \in T)
<1>1. IsFiniteSet(S) /\ IsFiniteSet(T)
  BY ServerAssumption, FS_Subset
<1>2. Cardinality(S) \in Nat /\ Cardinality(T) \in Nat
  BY <1>1, FS_CardinalityType
<1>3. CASE c \in S <=> c \in T
  <2>1. S = T
    BY <1>3
  <2> QED BY <1>2, <2>1
<1>4. CASE c \in S /\ c \notin T
  <2>1. S = T \cup {c}
    BY <1>4
  <2>2. Cardinality(S) = Cardinality(T) + 1
    BY <1>1, <1>4, <2>1, FS_AddElement
  <2> QED BY <1>2, <1>4, <2>2 DEF One
<1>5. CASE c \notin S /\ c \in T
  <2>1. T = S \cup {c}
    BY <1>5
  <2>2. Cardinality(T) = Cardinality(S) + 1
    BY <1>1, <1>5, <2>1, FS_AddElement
  <2> QED BY <1>2, <1>5, <2>2 DEF One
<1> QED BY <1>2, <1>3, <1>4, <1>5

(* What a step of one client adds to the sockets that are owned.            *)
LEMMA OwnedStep ==
    ASSUME NEW c \in Clients, listening' = listening,
           \A d \in Clients \ {c} : conn'[d] = conn[d]
    PROVE  Owned \in Nat /\ Owned' \in Nat /\ Owned' + OwnedBy(c) = Owned + OwnedBy(c)'
<1> DEFINE A == {d \in Clients : Live(d)}
           B == {d \in Clients : conn[d].state = "STREAM"}
           C == {d \in Clients : Live(d) /\ conn[d].udp # "none"}
           D == {d \in Clients : Live(d) /\ conn[d].udp = "both"}
<1>1. Owned = One(listening) + Cardinality(A) + Cardinality(B) + Cardinality(C) + Cardinality(D)
  BY DEF Owned, One
<1>2. Owned' = One(listening') + Cardinality(A') + Cardinality(B') + Cardinality(C')
               + Cardinality(D')
  BY DEF Owned, One
<1>3. A \in SUBSET Clients /\ B \in SUBSET Clients /\ C \in SUBSET Clients /\ D \in SUBSET Clients
  OBVIOUS
<1>4. A' \in SUBSET Clients /\ B' \in SUBSET Clients /\ C' \in SUBSET Clients
      /\ D' \in SUBSET Clients
  OBVIOUS
<1>5. \A d \in Clients \ {c} : (d \in A <=> d \in A') /\ (d \in B <=> d \in B')
                               /\ (d \in C <=> d \in C') /\ (d \in D <=> d \in D')
  BY DEF Live
<1>6. OwnedBy(c) = One(c \in A) + One(c \in B) + One(c \in C) + One(c \in D)
  BY DEF OwnedBy, One
<1>7. OwnedBy(c)' = One(c \in A') + One(c \in B') + One(c \in C') + One(c \in D')
  BY DEF OwnedBy, One
<1> HIDE DEF A, B, C, D
<1>8. Cardinality(A) \in Nat /\ Cardinality(A') \in Nat
      /\ Cardinality(A') + One(c \in A) = Cardinality(A) + One(c \in A')
  BY <1>3, <1>4, <1>5, Recount
<1>9. Cardinality(B) \in Nat /\ Cardinality(B') \in Nat
      /\ Cardinality(B') + One(c \in B) = Cardinality(B) + One(c \in B')
  BY <1>3, <1>4, <1>5, Recount
<1>10. Cardinality(C) \in Nat /\ Cardinality(C') \in Nat
       /\ Cardinality(C') + One(c \in C) = Cardinality(C) + One(c \in C')
  BY <1>3, <1>4, <1>5, Recount
<1>11. Cardinality(D) \in Nat /\ Cardinality(D') \in Nat
       /\ Cardinality(D') + One(c \in D) = Cardinality(D) + One(c \in D')
  BY <1>3, <1>4, <1>5, Recount
<1>12. \A p : One(p) \in Nat
  BY DEF One
<1> HIDE DEF One
<1> QED BY <1>1, <1>2, <1>6, <1>7, <1>8, <1>9, <1>10, <1>11, <1>12

(* A step of one client that opens and closes what it gains and loses.      *)
LEMMA CountStep ==
    ASSUME Counted, Types', NEW c \in Clients, listening' = listening,
           \A d \in Clients \ {c} : conn'[d] = conn[d],
           UdpLocal(c)', faulted => faulted',
           fds' \in Int, fds' <= FdLimit,
           OwnedBy(c)' - OwnedBy(c) <= fds' - fds,
           ~faulted' => OwnedBy(c)' - OwnedBy(c) = fds' - fds
    PROVE  Counted'
<1>1. Owned \in Nat /\ Owned' \in Nat /\ Owned' + OwnedBy(c) = Owned + OwnedBy(c)'
  BY OwnedStep
<1>2. OwnedBy(c) \in Nat /\ OwnedBy(c)' \in Nat
  BY DEF OwnedBy, One
<1>3. fds \in Nat /\ Owned <= fds /\ (~faulted => fds = Owned) /\ FdLimit \in Nat
  BY ServerAssumption DEF Counted, TypeOK, NoLeak
<1>4. NoLeak'
  BY <1>1, <1>2, <1>3 DEF NoLeak
<1>5. fds' \in 0..FdLimit
  BY <1>1, <1>3, <1>4 DEF NoLeak
<1>6. ASSUME NEW d \in Clients PROVE UdpLocal(d)'
  <2>1. UdpLocal(d)
    BY DEF Counted
  <2> QED BY <2>1 DEF UdpLocal, Live
<1> QED BY <1>4, <1>5, <1>6 DEF Counted, TypeOK

(* A step that leaves alone what the count depends on.                      *)
LEMMA QuietStep ==
    ASSUME Counted, Types', NEW c \in Clients, UNCHANGED <<listening, fds, faulted>>,
           \A d \in Clients \ {c} : conn'[d] = conn[d],
           conn'[c].udp = conn[c].udp, Live(c)' = Live(c),
           conn'[c].state = "STREAM" <=> conn[c].state = "STREAM",
           conn'[c].state = "UDP" <=> conn[c].state = "UDP"
    PROVE  Counted'
<1>1. UdpLocal(c)'
  BY DEF Counted, UdpLocal
<1>2. OwnedBy(c)' = OwnedBy(c) /\ OwnedBy(c) \in Nat
  BY DEF OwnedBy, One
<1>3. fds \in Int /\ fds <= FdLimit
  BY ServerAssumption DEF Counted, TypeOK
<1> QED BY <1>1, <1>2, <1>3, CountStep

(* A failed assertion, undefined behaviour, an exit.                        *)
LEMMA UncountedStep ==
    ASSUME Counted, Types', UNCHANGED <<conn, listening, fds, faulted>>
    PROVE  Counted'
<1>1. Owned' = Owned
  BY DEF Owned, Live
<1> QED BY <1>1 DEF Counted, TypeOK, NoLeak, UdpLocal, Live

(* on_client_done() closes what the client owns.                            *)
LEMMA ClosesOwned ==
    ASSUME Types, NEW c \in Clients, Live(c)
    PROVE  Closes(c) = OwnedBy(c) /\ OwnedBy(c) \in Nat \ {0}
<1>1. conn[c].udp \in {"none", "client", "both"}
  BY DEF Types, Conn
<1> QED BY <1>1 DEF Closes, UdpPeers, OwnedBy, One

(* A client is deleted: at most what it owned is closed, and all of it      *)
(* unless a failure was noted.                                              *)
LEMMA DeleteCount ==
    ASSUME Counted, Types', NEW c \in Clients, Live(c), NEW next, NEW closed \in Nat,
           Delete(c, next, closed), faulted => faulted', closed <= OwnedBy(c),
           ~faulted' => closed = OwnedBy(c)
    PROVE  Counted'
<1>1. Types /\ fds \in Nat /\ fds <= FdLimit /\ FdLimit \in Nat
  BY ServerAssumption DEF Counted, TypeOK
<1>2. /\ conn'[c].state = "none" /\ listening' = listening /\ fds' = fds - closed
      /\ \A d \in Clients \ {c} : conn'[d] = conn[d]
  BY <1>1 DEF Delete, Types, Conn
<1>3. UdpLocal(c)'
  BY <1>2 DEF UdpLocal, Live
<1>4. OwnedBy(c)' = 0 /\ OwnedBy(c) \in Nat
  BY <1>2 DEF OwnedBy, One, Live
<1>5. /\ fds' \in Int /\ fds' <= FdLimit
      /\ OwnedBy(c)' - OwnedBy(c) <= fds' - fds
      /\ ~faulted' => OwnedBy(c)' - OwnedBy(c) = fds' - fds
  BY <1>1, <1>2, <1>4
<1> QED BY <1>2, <1>3, <1>5, CountStep

(* on_client_done() in any of its outcomes.                                 *)
LEMMA DoneCount ==
    ASSUME Counted, Types', NEW c \in Clients, Live(c), NEW next, Done(c, next)
    PROVE  Counted'
<1>1. Closes(c) = OwnedBy(c) /\ Closes(c) \in Nat
  BY ClosesOwned DEF Counted, TypeOK
<1>2. CASE Delete(c, next, Closes(c)) /\ UNCHANGED faulted
  BY <1>1, <1>2, DeleteCount
<1>3. CASE Fails("crashed")
  BY <1>3, UncountedStep DEF Fails, loopVars
<1> QED BY <1>2, <1>3 DEF Done

(* A failed assertion.                                                      *)
LEMMA FailsCount == ASSUME Counted, Types', NEW x, Fails(x) PROVE Counted'
BY UncountedStep DEF Fails, loopVars

(* on_connection() opens the client's socket.                               *)
LEMMA AcceptCount == ASSUME Counted, Types', NEW c \in Clients, Accept(c) PROVE Counted'
<1>1. Types /\ fds \in Nat /\ FdLimit \in Nat
  BY ServerAssumption DEF Counted, TypeOK
<1>2. /\ conn'[c].state = "INIT" /\ conn'[c].udp = "none"
      /\ \A d \in Clients \ {c} : conn'[d] = conn[d]
  BY <1>1 DEF Accept, Types
<1>3. OwnedBy(c)' = 1 /\ OwnedBy(c) = 0
  BY <1>1, <1>2 DEF Accept, OwnedBy, One, Live
<1>4. /\ fds' \in Int /\ fds' <= FdLimit
      /\ OwnedBy(c)' - OwnedBy(c) = fds' - fds /\ OwnedBy(c)' - OwnedBy(c) <= fds' - fds
  BY <1>1, <1>3 DEF Accept
<1>5. UdpLocal(c)'
  BY <1>2 DEF UdpLocal, Live
<1> QED BY <1>2, <1>4, <1>5, CountStep DEF Accept, loopVars

(* The callbacks of a session open nothing; they end the client or change   *)
(* what is pending.                                                         *)
LEMMA CallbackCount == ASSUME Counted, Types', NEW c \in Clients, Callback(c) PROVE Counted'
<1>1. conn \in [Clients -> Conn]
  BY DEF Counted, TypeOK, Types
<1>2. CASE Live(c) /\ Done(c, "none")
  BY <1>2, DoneCount
<1>3. CASE RecvStream(c) /\ ~Done(c, "none")
  <2>1. /\ conn'[c].state = conn[c].state /\ conn'[c].udp = conn[c].udp
        /\ \A d \in Clients \ {c} : conn'[d] = conn[d]
        /\ UNCHANGED <<listening, fds, faulted>>
    BY <1>1, <1>3 DEF RecvStream, Conn, loopVars
  <2> QED BY <2>1, QuietStep DEF Live
<1>4. CASE RemoteRecv(c) /\ ~Done(c, "none")
  <2>1. /\ conn'[c].state = conn[c].state /\ conn'[c].udp = conn[c].udp
        /\ \A d \in Clients \ {c} : conn'[d] = conn[d]
        /\ UNCHANGED <<listening, fds, faulted>>
    BY <1>1, <1>4 DEF RemoteRecv, Conn, loopVars
  <2> QED BY <2>1, QuietStep DEF Live
<1>5. CASE (RecvEof(c) \/ RemoteEof(c)) /\ ~Done(c, "none")
  <2>1. /\ conn'[c].state = conn[c].state /\ conn'[c].udp = conn[c].udp
        /\ \A d \in Clients \ {c} : conn'[d] = conn[d]
        /\ UNCHANGED <<listening, fds, faulted>>
    BY <1>1, <1>5 DEF RecvEof, RemoteEof, Conn, loopVars
  <2> QED BY <2>1, QuietStep DEF Live
<1>6. CASE ClientSend(c) /\ ~Done(c, "none")
  <2>1. /\ conn' = conn \/ \E pending \in BOOLEAN : conn' = [conn EXCEPT ![c].cbuf = pending]
        /\ UNCHANGED <<loopVars, fds, faulted>>
    BY <1>6, Zenon DEF ClientSend, Fails
  <2>2. /\ conn'[c].state = conn[c].state /\ conn'[c].udp = conn[c].udp
        /\ \A d \in Clients \ {c} : conn'[d] = conn[d]
        /\ UNCHANGED <<listening, fds, faulted>>
    BY <1>1, <2>1 DEF Conn, loopVars
  <2> QED BY <2>2, QuietStep DEF Live
<1>7. CASE RemoteSend(c) /\ ~Done(c, "none")
  <2>1. /\ conn'[c].state = conn[c].state /\ conn'[c].udp = conn[c].udp
        /\ \A d \in Clients \ {c} : conn'[d] = conn[d]
        /\ UNCHANGED <<listening, fds, faulted>>
    BY <1>1, <1>7 DEF RemoteSend, Conn, loopVars
  <2> QED BY <2>1, QuietStep DEF Live
<1>8. CASE \E k \in 1..MaxInput : Recv(c, k)
  <2>1. /\ conn'[c].state = conn[c].state /\ conn'[c].udp = conn[c].udp
        /\ \A d \in Clients \ {c} : conn'[d] = conn[d]
        /\ UNCHANGED <<listening, fds, faulted>>
    BY <1>1, <1>8 DEF Recv, Conn, loopVars
  <2> QED BY <2>1, QuietStep DEF Live
<1>9. RecvFails(c) => Live(c) /\ Done(c, "none")
  BY Zenon DEF RecvFails
<1>10. RecvStream(c) \/ RecvEof(c) \/ RemoteRecv(c) \/ RemoteEof(c) \/ ClientSend(c)
       \/ RemoteSend(c) => Live(c)
  <2>1. RecvStream(c) \/ RemoteRecv(c) \/ RemoteEof(c) \/ RemoteSend(c) => Live(c)
    BY DEF RecvStream, RemoteRecv, RemoteEof, RemoteSend, Live
  <2>2. RecvEof(c) \/ ClientSend(c) => Live(c)
    BY Zenon DEF RecvEof, ClientSend
  <2> QED BY <2>1, <2>2, Zenon
<1> QED BY <1>2, <1>3, <1>4, <1>5, <1>6, <1>7, <1>8, <1>9, <1>10, AcceptCount, Zenon
    DEF Callback

(* An error reply changes neither the state nor other clients.              *)
LEMMA RepliedTo ==
    ASSUME conn \in [Clients -> Conn], NEW c \in Clients, NEW udp, RepliesError(c, udp)
    PROVE  /\ conn'[c].state = conn[c].state /\ conn'[c].udp = udp
           /\ \A d \in Clients \ {c} : conn'[d] = conn[d]
<1>1. PICK pending \in BOOLEAN :
        conn' = [conn EXCEPT ![c].input = @ - 1, ![c].cbuf = pending, ![c].udp = udp]
  BY DEF RepliesError
<1> QED BY <1>1 DEF Conn

(* The handshake loop's iterations that open nothing.                       *)
LEMMA HandshakeCount ==
    ASSUME Counted, Types', NEW c \in Clients,
           Return(c) \/ Reject(c) \/ Methods(c) \/ Authenticated(c) \/ Unsupported(c)
             \/ ConnectFails(c)
    PROVE  Counted'
<1>1. conn \in [Clients -> Conn]
  BY DEF Counted, TypeOK, Types
<1>2. CASE Return(c)
  BY <1>2, UncountedStep DEF Return, unlisted, loopVars
<1>3. CASE Reject(c)
  <2>1. Live(c) /\ Done(c, "none")
    BY <1>3 DEF Reject, Live, Handshaking
  <2> QED BY <2>1, DoneCount
<1>4. CASE Methods(c)
  <2>1. PICK pending \in BOOLEAN :
          conn' = [conn EXCEPT ![c].state = "AUTH", ![c].input = @ - 1,
                               ![c].cbuf = pending, ![c].auth = "open"]
    BY <1>4 DEF Methods
  <2>2. /\ conn'[c].state = "AUTH" /\ conn'[c].udp = conn[c].udp
        /\ \A d \in Clients \ {c} : conn'[d] = conn[d]
    BY <1>1, <2>1 DEF Conn
  <2>3. conn[c].state = "INIT" /\ UNCHANGED <<listening, fds, faulted>>
    BY <1>4 DEF Methods, Iterates, unlisted, loopVars
  <2> QED BY <2>2, <2>3, QuietStep DEF Live
<1>7. CASE Authenticated(c)
  <2>1. PICK used \in {0, 1}, pending \in BOOLEAN :
          conn' = [conn EXCEPT ![c].state = "CMD", ![c].input = @ - used,
                               ![c].cbuf = pending, ![c].auth = AuthEnd(@)]
    BY <1>7 DEF Authenticated
  <2>2. /\ conn'[c].state = "CMD" /\ conn'[c].udp = conn[c].udp
        /\ \A d \in Clients \ {c} : conn'[d] = conn[d]
    BY <1>1, <2>1 DEF Conn
  <2>3. conn[c].state = "AUTH" /\ UNCHANGED <<listening, fds, faulted>>
    BY <1>7 DEF Authenticated, Iterates, unlisted, loopVars
  <2> QED BY <2>2, <2>3, QuietStep DEF Live
<1>5. CASE Unsupported(c)
  <2>1. RepliesError(c, conn[c].udp) /\ UNCHANGED <<listening, fds, faulted>>
    BY <1>5 DEF Unsupported, unlisted, loopVars
  <2> QED BY <1>1, <2>1, RepliedTo, QuietStep DEF Live
<1>6. CASE ConnectFails(c)
  <2>1. \/ UNCHANGED <<conn, loopVars, fds, faulted>>
        \/ RepliesError(c, conn[c].udp) /\ UNCHANGED unlisted
    BY <1>6, Zenon DEF ConnectFails, Fails
  <2>2. CASE UNCHANGED <<conn, loopVars, fds, faulted>>
    BY <2>2, UncountedStep DEF loopVars
  <2>3. CASE RepliesError(c, conn[c].udp) /\ UNCHANGED unlisted
    <3>1. UNCHANGED <<listening, fds, faulted>>
      BY <2>3 DEF unlisted, loopVars
    <3> QED BY <1>1, <2>3, <3>1, RepliedTo, QuietStep DEF Live
  <2> QED BY <2>1, <2>2, <2>3
<1> QED BY <1>2, <1>3, <1>4, <1>5, <1>6, <1>7

(* cmd_connect() opens the remote's socket; if the reply fails the client   *)
(* is gone and the new socket is nobody's.                                  *)
LEMMA ConnectCount ==
    ASSUME Counted, Types', NEW c \in Clients, Connect(c) \/ ConnectReplyFails(c)
    PROVE  Counted'
<1>1. Types /\ conn \in [Clients -> Conn] /\ fds \in Nat /\ FdLimit \in Nat /\ UdpLocal(c)
  BY ServerAssumption DEF Counted, TypeOK, Types
<1>2. Iterates(c, "CMD")
  BY Zenon DEF Connect, ConnectReplyFails
<1>3. CASE Connect(c)
  <2>0. PICK pending \in BOOLEAN :
          conn' = [conn EXCEPT ![c].state = "STREAM", ![c].cbuf = pending,
                               ![c].rbuf = conn[c].input > 1, ![c].input = 0]
    BY <1>3 DEF Connect
  <2>1. /\ conn'[c].state = "STREAM" /\ conn'[c].udp = conn[c].udp
        /\ \A d \in Clients \ {c} : conn'[d] = conn[d]
    BY <1>1, <2>0 DEF Conn
  <2>4. UNCHANGED <<listening, faulted>> /\ fds' = fds + 1 /\ fds < FdLimit
    BY <1>3, Zenon DEF Connect, loopVars
  <2>2. OwnedBy(c)' = OwnedBy(c) + 1 /\ OwnedBy(c) \in Nat
    BY <1>2, <2>1 DEF OwnedBy, One, Live, Iterates
  <2>3. UdpLocal(c)'
    BY <1>1, <1>2, <2>1, <2>4 DEF UdpLocal, Live, Iterates
  <2> QED BY <1>1, <2>1, <2>2, <2>3, <2>4, CountStep
<1>4. CASE Fails("crashed")
  BY <1>4, FailsCount
<1>5. CASE Delete(c, "none", Closes(c) - 1) /\ faulted' = TRUE
  <2>1. Live(c)
    BY <1>2 DEF Iterates, Live
  <2>2. Closes(c) - 1 \in Nat /\ Closes(c) - 1 <= OwnedBy(c)
    BY <1>1, <2>1, ClosesOwned
  <2> QED BY <1>5, <2>1, <2>2, DeleteCount
<1> QED BY <1>3, <1>4, <1>5, Zenon DEF ConnectReplyFails

(* cmd_udp() opens two sockets, or leaves one behind and says so.           *)
LEMMA AssociateCount ==
    ASSUME Counted, Types', NEW c \in Clients, Associate(c) \/ AssociateReplyFails(c)
    PROVE  Counted'
<1>1. Types /\ conn \in [Clients -> Conn] /\ fds \in Nat /\ FdLimit \in Nat /\ UdpLocal(c)
  BY ServerAssumption DEF Counted, TypeOK, Types
<1>2. Iterates(c, "CMD") /\ fds + 2 <= FdLimit
  BY Zenon DEF Associate, AssociateReplyFails, Associates
<1>3. conn[c].udp \in {"none", "client"} /\ (conn[c].udp = "client" => faulted)
  BY <1>1, <1>2 DEF UdpLocal, Iterates, Live, Conn
<1>4. CASE Associate(c)
  <2>0. PICK pending \in BOOLEAN :
          conn' = [conn EXCEPT ![c].state = "UDP", ![c].cbuf = pending, ![c].input = 0,
                               ![c].udp = "both"]
    BY <1>4 DEF Associate
  <2>1. /\ conn'[c].state = "UDP" /\ conn'[c].udp = "both"
        /\ \A d \in Clients \ {c} : conn'[d] = conn[d]
    BY <1>1, <2>0 DEF Conn
  <2>5. UNCHANGED <<listening, faulted>> /\ fds' = fds + 2
    BY <1>4, Zenon DEF Associate, loopVars
  <2>2. /\ OwnedBy(c) \in Nat /\ OwnedBy(c)' - OwnedBy(c) <= 2
        /\ ~faulted => OwnedBy(c)' - OwnedBy(c) = 2
    BY <1>2, <1>3, <2>1 DEF OwnedBy, One, Live, Iterates
  <2>3. UdpLocal(c)'
    BY <2>1 DEF UdpLocal, Live
  <2>4. OwnedBy(c)' \in Nat
    BY DEF OwnedBy, One
  <2> QED BY <1>1, <1>2, <2>1, <2>2, <2>3, <2>4, <2>5, CountStep
<1>5. CASE Fails("crashed")
  BY <1>5, FailsCount
<1>6. CASE Delete(c, "none", 1) /\ UNCHANGED faulted
  <2>1. Live(c)
    BY <1>2 DEF Iterates, Live
  <2>2. 1 <= OwnedBy(c) /\ (~faulted => OwnedBy(c) = 1)
    BY <1>2, <1>3 DEF OwnedBy, One, Live, Iterates
  <2> QED BY <1>6, <2>1, <2>2, DeleteCount
<1> QED BY <1>4, <1>5, <1>6, Zenon DEF AssociateReplyFails

(* cmd_udp() when a peer cannot be created: of the sockets it opened at     *)
(* most one is the client's.                                                *)
LEMMA AssociateFailsCount ==
    ASSUME Counted, Types', NEW c \in Clients, AssociateFails(c)
    PROVE  Counted'
<1>1. Types /\ conn \in [Clients -> Conn] /\ fds \in Nat /\ FdLimit \in Nat /\ UdpLocal(c)
  BY ServerAssumption DEF Counted, TypeOK, Types
<1>2. PICK opens \in 0..2 :
        /\ Associates(c, opens)
        /\ \/ opens < 2 /\ RepliesError(c, conn[c].udp) /\ faulted' = (faulted \/ opens = 1)
           \/ opens > 0 /\ RepliesError(c, "client") /\ faulted' = TRUE
        /\ fds' = fds + opens
        /\ UNCHANGED <<lists, loopVars, cur, proc>>
  BY Zenon DEF AssociateFails
<1>3. Iterates(c, "CMD") /\ fds + opens <= FdLimit
  BY <1>2 DEF Associates
<1>4. conn[c].udp \in {"none", "client"} /\ (conn[c].udp = "client" => faulted)
  BY <1>1, <1>3 DEF UdpLocal, Iterates, Live, Conn
<1>5. OwnedBy(c) \in Nat /\ OwnedBy(c)' \in Nat
  BY DEF OwnedBy, One
<1>6. listening' = listening /\ fds' \in Int /\ fds' <= FdLimit
  BY <1>1, <1>2, <1>3 DEF loopVars
<1>7. CASE opens < 2 /\ RepliesError(c, conn[c].udp) /\ faulted' = (faulted \/ opens = 1)
  <2>1. /\ conn'[c].state = "CMD" /\ conn'[c].udp = conn[c].udp
        /\ \A d \in Clients \ {c} : conn'[d] = conn[d]
    BY <1>1, <1>3, <1>7, RepliedTo DEF Iterates
  <2>2. OwnedBy(c)' = OwnedBy(c)
    BY <1>3, <2>1 DEF OwnedBy, One, Live, Iterates
  <2>3. UdpLocal(c)'
    BY <1>4, <1>7, <2>1 DEF UdpLocal, Live
  <2>4. opens = 0 \/ opens = 1
    BY <1>7
  <2>5. (~faulted' => opens = 0) /\ (faulted => faulted')
    BY <1>7, <2>4, Zenon
  <2> QED BY <1>1, <1>2, <1>5, <1>6, <2>1, <2>2, <2>3, <2>4, <2>5, CountStep
<1>8. CASE opens > 0 /\ RepliesError(c, "client") /\ faulted' = TRUE
  <2>1. /\ conn'[c].state = "CMD" /\ conn'[c].udp = "client"
        /\ \A d \in Clients \ {c} : conn'[d] = conn[d]
    BY <1>1, <1>3, <1>8, RepliedTo DEF Iterates
  <2>2. OwnedBy(c)' <= OwnedBy(c) + 1
    BY <1>3, <1>4, <2>1 DEF OwnedBy, One, Live, Iterates
  <2>3. UdpLocal(c)'
    BY <1>8, <2>1 DEF UdpLocal, Live
  <2> QED BY <1>1, <1>2, <1>5, <1>6, <1>8, <2>1, <2>2, <2>3, CountStep
<1> QED BY <1>2, <1>7, <1>8

(* stop_listen() closes the listener's socket, once.                        *)
LEMMA StopListenCount ==
    ASSUME Counted, Types', NEW req, StopListen(req), UNCHANGED <<conn, faulted>>
    PROVE  Counted'
<1>1. listening \in BOOLEAN /\ fds \in Nat /\ FdLimit \in Nat /\ fds <= FdLimit
  BY ServerAssumption DEF Counted, TypeOK, Types
<1>2. listening' = FALSE /\ fds' = fds - One(listening)
  BY <1>1 DEF StopListen, One
<1> DEFINE A == {c \in Clients : Live(c)}
           B == {c \in Clients : conn[c].state = "STREAM"}
           C == {c \in Clients : Live(c) /\ conn[c].udp # "none"}
           D == {c \in Clients : Live(c) /\ conn[c].udp = "both"}
           clients == Cardinality(A) + Cardinality(B) + Cardinality(C) + Cardinality(D)
<1>3. clients \in Nat /\ clients' = clients
  <2>1. \A S \in SUBSET Clients : Cardinality(S) \in Nat
    BY ServerAssumption, FS_Subset, FS_CardinalityType
  <2>2. Cardinality(A) \in Nat /\ Cardinality(B) \in Nat /\ Cardinality(C) \in Nat
        /\ Cardinality(D) \in Nat
    BY <2>1
  <2>3. A' = A /\ B' = B /\ C' = C /\ D' = D
    BY DEF Live
  <2> HIDE DEF A, B, C, D
  <2> QED BY <2>2, <2>3
<1>4. Owned = One(listening) + clients /\ Owned' = One(listening') + clients'
  <2>1. Cardinality(A) \in Nat /\ Cardinality(B) \in Nat /\ Cardinality(C) \in Nat
        /\ Cardinality(D) \in Nat
    BY ServerAssumption, FS_Subset, FS_CardinalityType
  <2>2. A' = A /\ B' = B /\ C' = C /\ D' = D
    BY DEF Live
  <2>3. Owned = One(listening) + Cardinality(A) + Cardinality(B) + Cardinality(C)
                + Cardinality(D)
    BY DEF Owned, One
  <2>4. Owned' = One(listening') + Cardinality(A') + Cardinality(B') + Cardinality(C')
                 + Cardinality(D')
    BY DEF Owned, One
  <2>5. One(listening) \in Nat /\ One(listening') \in Nat
    BY DEF One
  <2> HIDE DEF A, B, C, D
  <2> QED BY <2>1, <2>2, <2>3, <2>4, <2>5
<1> HIDE DEF clients
<1>5. Owned \in Nat /\ Owned' \in Nat /\ Owned' = Owned - One(listening)
  BY <1>1, <1>2, <1>3, <1>4 DEF One
<1>6. One(listening) \in {0, 1}
  BY DEF One
<1>7. NoLeak' /\ fds' \in 0..FdLimit
  BY <1>1, <1>2, <1>5, <1>6 DEF Counted, NoLeak
<1>8. \A c \in Clients : UdpLocal(c)'
  BY DEF Counted, UdpLocal, Live
<1> QED BY <1>7, <1>8 DEF Counted, TypeOK

(* The timer, the interrupts and the end.                                   *)
LEMMA ServerCount ==
    ASSUME Counted, Types', TimerFires \/ TimerEnds \/ Interrupt \/ ForceEnds \/ Exit
    PROVE  Counted'
<1>1. CASE TimerFires \/ TimerEnds
  BY <1>1, UncountedStep, Zenon DEF TimerFires, TimerEnds
<1>2. CASE Interrupt
  <2>1. \/ UNCHANGED <<conn, loopVars, fds, faulted>>
        \/ StopListen(TRUE) /\ UNCHANGED <<conn, faulted>>
        \/ UNCHANGED <<conn, listening, fds, faulted>>
    BY <1>2, Zenon DEF Interrupt, Fails
  <2>2. CASE UNCHANGED <<conn, loopVars, fds, faulted>>
    BY <2>2, UncountedStep DEF loopVars
  <2>3. CASE StopListen(TRUE) /\ UNCHANGED <<conn, faulted>>
    BY <2>3, StopListenCount
  <2> QED BY <2>1, <2>2, <2>3, UncountedStep
<1>3. CASE ForceEnds
  <2>1. StopListen(term_req) /\ UNCHANGED <<conn, faulted>>
    BY <1>3, Zenon DEF ForceEnds
  <2> QED BY <2>1, StopListenCount
<1>4. CASE Exit
  <2>1. UNCHANGED <<conn, loopVars, fds, faulted>>
    BY <1>4, Zenon DEF Exit, Fails
  <2> QED BY <2>1, UncountedStep DEF loopVars
<1> QED BY <1>1, <1>2, <1>3, <1>4

(* At the start only the listener is open.                                  *)
LEMMA InitCount == ASSUME Init, Types PROVE Counted
<1>1. \A c \in Clients : conn[c].state = "none"
  BY DEF Init
<1>2. /\ {c \in Clients : Live(c)} = {}
      /\ {c \in Clients : conn[c].state = "STREAM"} = {}
      /\ {c \in Clients : Live(c) /\ conn[c].udp # "none"} = {}
      /\ {c \in Clients : Live(c) /\ conn[c].udp = "both"} = {}
  BY <1>1 DEF Live
<1>3. Owned = 1
  <2>1. Cardinality({}) = 0 /\ listening = TRUE
    BY FS_EmptySet DEF Init
  <2>2. Owned = (IF listening THEN 1 ELSE 0) + Cardinality({}) + Cardinality({})
                + Cardinality({}) + Cardinality({})
    BY <1>2, Zenon DEF Owned
  <2> QED BY <2>1, <2>2
<1>4. \A c \in Clients : UdpLocal(c)
  BY <1>1 DEF UdpLocal, Live
<1>5. fds = 1 /\ faulted = FALSE /\ 1 \in 0..FdLimit
  BY ServerAssumption DEF Init
<1> QED BY <1>3, <1>4, <1>5 DEF Counted, TypeOK, NoLeak

(* Every step keeps the count.                                              *)
LEMMA CountedStep == ASSUME IndInv, Counted, Types', [Next]_vars PROVE Counted'
<1>1. ASSUME NEW c \in Clients, Callback(c) \/ LoopStep(c) \/ Expires(c) \/ Forces(c)
      PROVE  Counted'
  <2>1. CASE Callback(c)
    BY <2>1, CallbackCount
  <2>2. CASE LoopStep(c)
    BY <2>2, HandshakeCount, ConnectCount, AssociateCount, AssociateFailsCount DEF LoopStep
  <2>3. CASE Expires(c) \/ Forces(c)
    <3>1. Live(c)
      BY <2>3 DEF Expires, Forces, IndInv, Local
    <3> QED BY <2>3, <3>1, DoneCount DEF Expires, Forces
  <2> QED BY <1>1, <2>1, <2>2, <2>3
<1>2. CASE UNCHANGED vars
  BY <1>2, UncountedStep DEF vars
<1> QED BY <1>1, <1>2, ServerCount DEF Next

(* The count of sockets is inductive, for any number of clients and any     *)
(* limit.                                                                   *)
THEOREM Counting == Spec => []Counted
<1>1. Init => Counted
  BY InitCount, InitIndInv DEF IndInv
<1>2. IndInv /\ IndInv' /\ Counted /\ [Next]_vars => Counted'
  BY CountedStep DEF IndInv
<1> QED BY <1>1, <1>2, Invariance, PTL DEF Spec

(* Type correctness; the count of sockets is never negative and never over  *)
(* the limit.                                                               *)
THEOREM TypeCorrect == Spec => []TypeOK
<1>1. Counted => TypeOK
  BY DEF Counted
<1> QED BY <1>1, Counting, PTL

(* What the teardown will close is open, and but for failures in the middle *)
(* of a setup nothing else is (on_client_done, on_remote_done,              *)
(* on_udp_peer_done, stop_listen).                                          *)
THEOREM SocketsOwned == Spec => []NoLeak
<1>1. Counted => NoLeak
  BY DEF Counted
<1> QED BY <1>1, Counting, PTL
=============================================================================
