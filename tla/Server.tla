------------------------------- MODULE Server -------------------------------
(***************************************************************************)
(* The life of the server and of its clients: server.h/.cpp, with the      *)
(* handler of auth.h and the signal handling of main.cpp.                  *)
(*                                                                         *)
(* One libev loop runs one callback at a time.  A callback that loops (the *)
(* handshake of client_recv_cb, on_timer, force_term) is a sequence of     *)
(* steps during which cur names it and no other callback runs; the others  *)
(* are one step.  Bytes are abstracted to what the control depends on: how *)
(* many handshake messages a client's input holds, and whether each of its *)
(* two channels has bytes waiting.  Every result of the kernel, the peer   *)
(* and the handler is possible at any time, and so is the end of any       *)
(* timeout: the clock is left to the timeout lists' own module.            *)
(***************************************************************************)
EXTENDS Integers, FiniteSets

CONSTANTS
    Clients,    \* names for ClientConn objects, used again once deleted
    Asserts,    \* is the program built without NDEBUG
    MaxInput,   \* bound: handshake messages in one client's input
    FdLimit     \* bound: sockets the process may open (RLIMIT_NOFILE)

ASSUME ServerAssumption ==
    /\ IsFiniteSet(Clients)
    /\ Clients \cap {"none", "timer", "force"} = {}
    /\ Asserts \in BOOLEAN
    /\ MaxInput \in Nat /\ FdLimit \in Nat \ {0}

VARIABLES
    conn,               \* the ClientConn and RemoteConn of each client
    client_timeouts,    \* members of the three timeout lists
    remote_timeouts,
    idle_timeouts,
    listening,          \* listen_fd >= 0
    term_req,
    ints,               \* SigCatcher::int_count, counted up to 2
    timerOn,            \* is the server's timer active
    cur,                \* the callback that is running: a client's handshake
                        \* loop, "timer", "force", or "none"
    proc,               \* the process: see Fates
    fds,                \* how many sockets it has open
    faulted             \* a system call failed half-way through a setup

lists == <<client_timeouts, remote_timeouts, idle_timeouts>>
loopVars == <<listening, term_req, ints, timerOn>>
vars == <<conn, client_timeouts, remote_timeouts, idle_timeouts, listening, term_req,
          ints, timerOn, cur, proc, fds, faulted>>

(* ClientConn::State; "none" is a name no connection has.                   *)
States == {"none", "INIT", "AUTH", "CMD", "STREAM", "UDP"}

(* auth is what became of the handler's context (ghost), udp which UDPPeers *)
(* exist, ceof and reof whose end of file was seen, cbuf and rbuf whether   *)
(* client.iochan and remote.iochan hold bytes.                              *)
Conn == [state : States, input : 0..MaxInput, cbuf : BOOLEAN, rbuf : BOOLEAN,
         ceof : BOOLEAN, reof : BOOLEAN, udp : {"none", "client", "both"},
         auth : {"no", "open", "ended", "twice"}]

(* "breaking": ev_break was called and the events already pending are being *)
(* delivered.  The strings that name an expression are failed assertions,   *)
(* and "crashed" is what undefined behaviour may end in.                    *)
Fates == {"running", "breaking", "exited", "crashed", "clients() >= remotes, idles",
          "state == STREAM", "client.input.empty()", "clients() == 0"}

Up == proc \in {"running", "breaking"}
Idle == Up /\ cur = "none"
Live(c) == conn[c].state # "none"
Handshaking(c) == conn[c].state \in {"INIT", "AUTH", "CMD"}
Established(c) == conn[c].state \in {"STREAM", "UDP"}
-----------------------------------------------------------------------------
(* Each Slip... is a wrong form of the definition it precedes, of the kind a *)
(* careless change would leave; the runs that substitute it for the right   *)
(* one show which property notices.                                         *)

Fails(assertion) ==
    /\ proc' = assertion
    /\ UNCHANGED <<conn, lists, loopVars, cur, fds, faulted>>

(* The assertions of Server::clients(), for the lists it would find.        *)
ClientsAsserts(ct, rt, it) ==
    Asserts => Cardinality(ct) >= Cardinality(rt) /\ Cardinality(ct) >= Cardinality(it)

(* check_term_cb(), for the lists and the request it would find.            *)
SlipCheckTermOnce(ct, rt, it, req) ==
    /\ ClientsAsserts(ct, rt, it)
    /\ term_req' = FALSE
    /\ IF ct = {} /\ req
       THEN proc' = "breaking" /\ timerOn' = FALSE
       ELSE UNCHANGED <<proc, timerOn>>
CheckTerm(ct, rt, it, req) ==
    IF ~ClientsAsserts(ct, rt, it)
    THEN proc' = "clients() >= remotes, idles" /\ term_req' = req /\ UNCHANGED timerOn
    ELSE IF ct = {} /\ req
         THEN proc' = "breaking" /\ term_req' = FALSE /\ timerOn' = FALSE
         ELSE term_req' = req /\ UNCHANGED <<proc, timerOn>>

(* The sockets on_client_done() closes: the client's, on_remote_done()'s    *)
(* and on_udp_peer_done()'s.                                                *)
SlipUdpPeers(c) == IF conn[c].udp = "none" THEN 0 ELSE 2
UdpPeers(c) == CASE conn[c].udp = "none" -> 0 [] conn[c].udp = "client" -> 1 [] OTHER -> 2
SlipCloses(c) == 1 + (IF conn[c].state = "STREAM" THEN 1 ELSE 0)
Closes(c) == 1 + (IF conn[c].state = "STREAM" THEN 1 ELSE 0) + UdpPeers(c)

(* auth_end() on a client whose context is a.                               *)
AuthEnd(a) == IF a = "open" THEN "ended" ELSE "twice"

(* on_client_done() leaves a UDPPeer whose watcher cmd_udp() did not come   *)
(* to initialise: ev_io_stop() reads it all the same.                       *)
UninitialisedPeer(c) == conn[c].udp # "none" /\ conn[c].state # "UDP"

(* The client is deleted and closed sockets with it; the running callback   *)
(* goes on as next.                                                         *)
SlipDelete(c, next, closed) ==
    /\ conn' = [conn EXCEPT ![c].state = "none",
                            ![c].auth = IF conn[c].state = "AUTH" THEN AuthEnd(@) ELSE @]
    /\ client_timeouts' = client_timeouts \ {c}
    /\ idle_timeouts' = idle_timeouts \ {c}
    /\ fds' = fds - closed
    /\ CheckTerm(client_timeouts', remote_timeouts, idle_timeouts', term_req)
    /\ cur' = next
    /\ UNCHANGED <<remote_timeouts, listening, ints>>
SlipDeleteAuth(c, next, closed) ==
    /\ conn' = [conn EXCEPT ![c].state = "none", ![c].auth = AuthEnd(@)]
    /\ client_timeouts' = client_timeouts \ {c}
    /\ remote_timeouts' = remote_timeouts \ {c}
    /\ idle_timeouts' = idle_timeouts \ {c}
    /\ fds' = fds - closed
    /\ CheckTerm(client_timeouts', remote_timeouts', idle_timeouts', term_req)
    /\ cur' = next
    /\ UNCHANGED <<listening, ints>>
Delete(c, next, closed) ==
    /\ conn' = [conn EXCEPT ![c].state = "none",
                            ![c].auth = IF conn[c].state = "AUTH" THEN AuthEnd(@) ELSE @]
    /\ client_timeouts' = client_timeouts \ {c}
    /\ remote_timeouts' = remote_timeouts \ {c}
    /\ idle_timeouts' = idle_timeouts \ {c}
    /\ fds' = fds - closed
    /\ CheckTerm(client_timeouts', remote_timeouts', idle_timeouts', term_req)
    /\ cur' = next
    /\ UNCHANGED <<listening, ints>>

(* Server::on_client_done(), reached directly, by on_client_error() or by   *)
(* on_client_force_term().                                                  *)
Done(c, next) ==
    \/ Delete(c, next, Closes(c)) /\ UNCHANGED faulted
    \/ UninitialisedPeer(c) /\ Fails("crashed")

(* update_client_timeout() and update_remote_timeout(): a list holds the    *)
(* connections that have bytes pending.                                     *)
SlipTouched(list, c, pending) == list \cup {c}
Touched(list, c, pending) == IF pending THEN list \cup {c} ELSE list \ {c}

(* IOChannel::write() on a channel: what does not bypass a non-empty buffer *)
(* joins it; it fails only if it tries the socket.                          *)
Writes(pendingBefore, pending) == pendingBefore => pending
-----------------------------------------------------------------------------
(* Server::on_connection(), from server_accept_cb. *)
Accept(c) ==
    /\ Idle /\ listening /\ ~Live(c) /\ fds < FdLimit
    /\ conn' = [conn EXCEPT ![c] =
         [state |-> "INIT", input |-> 0, cbuf |-> FALSE, rbuf |-> FALSE,
          ceof |-> FALSE, reof |-> FALSE, udp |-> "none", auth |-> "no"]]
    /\ client_timeouts' = client_timeouts \cup {c}
    /\ fds' = fds + 1
    /\ UNCHANGED <<remote_timeouts, idle_timeouts, loopVars, cur, proc, faulted>>

(* client_recv_cb outside state STREAM: k messages join the input and the   *)
(* handshake loop starts.                                                   *)
Recv(c, k) ==
    /\ Idle /\ (Handshaking(c) \/ conn[c].state = "UDP")
    /\ conn[c].input + k <= MaxInput
    /\ conn' = [conn EXCEPT ![c].input = @ + k]
    /\ cur' = c
    /\ UNCHANGED <<lists, loopVars, proc, fds, faulted>>

(* client_recv_cb in state STREAM. *)
RecvStream(c) ==
    /\ Idle /\ conn[c].state = "STREAM" /\ ~conn[c].ceof
    /\ \/ \E pending \in BOOLEAN :
            /\ Writes(conn[c].rbuf, pending)
            /\ conn' = [conn EXCEPT ![c].rbuf = pending]
            /\ remote_timeouts' = Touched(remote_timeouts, c, pending)
            /\ idle_timeouts' = idle_timeouts \cup {c}
            /\ UNCHANGED <<client_timeouts, loopVars, cur, proc, fds, faulted>>
       \/ ~conn[c].rbuf /\ Done(c, "none")

(* client_recv_cb when read() fails, and when it returns end of file: only  *)
(* a session whose remote end has not ended either outlives it.             *)
RecvFails(c) == Idle /\ Live(c) /\ ~conn[c].ceof /\ Done(c, "none")

RecvEof(c) ==
    /\ Idle /\ Live(c) /\ ~conn[c].ceof
    /\ IF conn[c].state # "STREAM" \/ conn[c].reof
       THEN Done(c, "none")
       ELSE /\ conn' = [conn EXCEPT ![c].ceof = TRUE]
            /\ UNCHANGED <<lists, loopVars, cur, proc, fds, faulted>>

(* remote_recv_cb: data for the client, a failing read(), end of file.      *)
RemoteRecv(c) ==
    /\ Idle /\ conn[c].state = "STREAM" /\ ~conn[c].reof
    /\ \/ \E pending \in BOOLEAN :
            /\ Writes(conn[c].cbuf, pending)
            /\ conn' = [conn EXCEPT ![c].cbuf = pending]
            /\ client_timeouts' = Touched(client_timeouts, c, pending)
            /\ idle_timeouts' = idle_timeouts \cup {c}
            /\ UNCHANGED <<remote_timeouts, loopVars, cur, proc, fds, faulted>>
       \/ Done(c, "none")

RemoteEof(c) ==
    /\ Idle /\ conn[c].state = "STREAM" /\ ~conn[c].reof
    /\ IF conn[c].ceof
       THEN Done(c, "none")
       ELSE /\ conn' = [conn EXCEPT ![c].reof = TRUE]
            /\ UNCHANGED <<lists, loopVars, cur, proc, fds, faulted>>

(* client_send_cb: the assertion is update_client_timeout()'s. *)
ClientSend(c) ==
    /\ Idle /\ Live(c) /\ conn[c].cbuf
    /\ \/ Done(c, "none")
       \/ Asserts /\ conn[c].state # "STREAM" /\ Fails("state == STREAM")
       \/ /\ Asserts => conn[c].state = "STREAM"
          /\ \E pending \in BOOLEAN :
               /\ conn' = [conn EXCEPT ![c].cbuf = pending]
               /\ client_timeouts' = Touched(client_timeouts, c, pending)
          /\ UNCHANGED <<remote_timeouts, idle_timeouts, loopVars, cur, proc, fds, faulted>>

(* remote_send_cb. *)
RemoteSend(c) ==
    /\ Idle /\ conn[c].state = "STREAM" /\ conn[c].rbuf
    /\ \/ Done(c, "none")
       \/ \E pending \in BOOLEAN :
            /\ conn' = [conn EXCEPT ![c].rbuf = pending]
            /\ remote_timeouts' = Touched(remote_timeouts, c, pending)
            /\ UNCHANGED <<client_timeouts, idle_timeouts, loopVars, cur, proc, fds, faulted>>
-----------------------------------------------------------------------------
(* The handshake loop of client_recv_cb: "while (!client.input.empty())",   *)
(* one iteration a step.                                                    *)
InLoop(c) == Up /\ cur = c
Iterates(c, st) == InLoop(c) /\ conn[c].input > 0 /\ conn[c].state = st
unlisted == <<lists, loopVars, proc, fds, faulted>>

(* The loop ends on an empty input; it returns for more bytes of a message  *)
(* it has a part of, or when auth_perform() is to be continued.             *)
Return(c) ==
    /\ InLoop(c) /\ (conn[c].input = 0 \/ Handshaking(c))
    /\ cur' = "none"
    /\ UNCHANGED <<conn, unlisted>>

(* A malformed message, a rejected method, failed authentication, a failed  *)
(* reply before CMD, data after a UDP association.                          *)
Reject(c) ==
    /\ InLoop(c) /\ conn[c].input > 0 /\ (Handshaking(c) \/ conn[c].state = "UDP")
    /\ Done(c, "none")

(* INIT: the methods, auth_begin() and its answer. *)
Methods(c) ==
    /\ Iterates(c, "INIT")
    /\ \E pending \in BOOLEAN :
         /\ Writes(conn[c].cbuf, pending)
         /\ conn' = [conn EXCEPT ![c].state = "AUTH", ![c].input = @ - 1,
                                 ![c].cbuf = pending, ![c].auth = "open"]
    /\ UNCHANGED <<cur, unlisted>>

(* AUTH: auth_perform() is done.  DefaultServerHandler consumes and writes  *)
(* nothing, PasswordServerHandler one message and one answer.               *)
Authenticated(c) ==
    /\ Iterates(c, "AUTH")
    /\ \E used \in {0, 1}, pending \in BOOLEAN :
         /\ Writes(conn[c].cbuf, pending) /\ (used = 0 => pending = conn[c].cbuf)
         /\ conn' = [conn EXCEPT ![c].state = "CMD", ![c].input = @ - used,
                                 ![c].cbuf = pending, ![c].auth = AuthEnd(@)]
    /\ UNCHANGED <<cur, unlisted>>

(* ClientConn::reply() with its error ignored: the answer is written, joins *)
(* the buffer or is lost.  left is the input that remains.                  *)
RepliesError(c, udp) ==
    \E pending \in BOOLEAN :
      /\ Writes(conn[c].cbuf, pending)
      /\ conn' = [conn EXCEPT ![c].input = @ - 1, ![c].cbuf = pending, ![c].udp = udp]

(* CMD: a command that is not supported returns at once. *)
Unsupported(c) ==
    /\ Iterates(c, "CMD")
    /\ RepliesError(c, conn[c].udp)
    /\ cur' = "none"
    /\ UNCHANGED unlisted

(* cmd_connect() when tcp_connect() fails, and the assertion after it.      *)
ConnectFails(c) ==
    /\ Iterates(c, "CMD")
    /\ IF Asserts /\ conn[c].input > 1
       THEN Fails("client.input.empty()")
       ELSE RepliesError(c, conn[c].udp) /\ UNCHANGED <<cur, unlisted>>

(* cmd_connect() when the socket is there: the session becomes a STREAM and *)
(* the input that follows the command is handed to the remote channel.      *)
SlipConnect(c) ==
    /\ Iterates(c, "CMD") /\ fds < FdLimit
    /\ \E pending \in BOOLEAN :
         /\ Writes(conn[c].cbuf, pending)
         /\ conn' = [conn EXCEPT ![c].state = "STREAM", ![c].cbuf = pending,
                                 ![c].rbuf = conn[c].input > 1, ![c].input = 0]
         /\ client_timeouts' = Touched(client_timeouts, c, pending)
    /\ fds' = fds + 1
    /\ UNCHANGED <<remote_timeouts, idle_timeouts, loopVars, cur, proc, faulted>>
Connect(c) ==
    /\ Iterates(c, "CMD") /\ fds < FdLimit
    /\ \E pending \in BOOLEAN :
         /\ Writes(conn[c].cbuf, pending)
         /\ conn' = [conn EXCEPT ![c].state = "STREAM", ![c].cbuf = pending,
                                 ![c].rbuf = conn[c].input > 1, ![c].input = 0]
         /\ client_timeouts' = Touched(client_timeouts, c, pending)
         /\ idle_timeouts' = idle_timeouts \cup {c}
    /\ fds' = fds + 1
    /\ UNCHANGED <<remote_timeouts, loopVars, cur, proc, faulted>>

(* cmd_connect() when the reply fails: nobody owns the new socket, and      *)
(* on_client_error() has deleted the client that the loop goes on to look   *)
(* at: it may seem to have no input left, or be anything else.              *)
ConnectReplyFails(c) ==
    /\ Iterates(c, "CMD") /\ ~conn[c].cbuf /\ fds < FdLimit
    /\ \/ Fails("crashed")
       \/ Delete(c, "none", Closes(c) - 1) /\ faulted' = TRUE

(* CMD: a UDP association follows only an empty input (Reject otherwise).   *)
Associates(c, opens) ==
    Iterates(c, "CMD") /\ conn[c].input = 1 /\ fds + opens <= FdLimit

(* cmd_udp() when the first or the second create_udp_peer() fails.  It      *)
(* leaks the socket (opens counts it) if net_local_addr() failed.  Of two   *)
(* peers the first remains, and a later attempt forgets it.                 *)
SlipAssociateFails(c) ==
    \E opens \in 0..2 :
      /\ Associates(c, opens)
      /\ \/ opens < 2 /\ RepliesError(c, conn[c].udp) /\ faulted' = (faulted \/ opens = 1)
         \/ opens > 0 /\ RepliesError(c, "client") /\ faulted' = TRUE
      /\ client_timeouts' = client_timeouts \ {c}
      /\ fds' = fds + opens
      /\ UNCHANGED <<remote_timeouts, idle_timeouts, loopVars, cur, proc>>
AssociateFails(c) ==
    \E opens \in 0..2 :
      /\ Associates(c, opens)
      /\ \/ opens < 2 /\ RepliesError(c, conn[c].udp) /\ faulted' = (faulted \/ opens = 1)
         \/ opens > 0 /\ RepliesError(c, "client") /\ faulted' = TRUE
      /\ fds' = fds + opens
      /\ UNCHANGED <<lists, loopVars, cur, proc>>

(* cmd_udp() when the reply fails: as for cmd_connect(), but on_client_done *)
(* closes the two new sockets.                                              *)
AssociateReplyFails(c) ==
    /\ Associates(c, 2) /\ ~conn[c].cbuf
    /\ \/ Fails("crashed")
       \/ Delete(c, "none", 1) /\ UNCHANGED faulted

(* cmd_udp() when both sockets are there. *)
Associate(c) ==
    /\ Associates(c, 2)
    /\ \E pending \in BOOLEAN :
         /\ Writes(conn[c].cbuf, pending)
         /\ conn' = [conn EXCEPT ![c].state = "UDP", ![c].cbuf = pending, ![c].input = 0,
                                 ![c].udp = "both"]
    /\ client_timeouts' = client_timeouts \ {c}
    /\ idle_timeouts' = idle_timeouts \cup {c}
    /\ fds' = fds + 2
    /\ UNCHANGED <<remote_timeouts, loopVars, cur, proc, faulted>>

(* STREAM has no iteration: see AssertionsHold.                             *)
LoopStep(c) ==
    \/ Return(c) \/ Reject(c) \/ Methods(c) \/ Authenticated(c) \/ Unsupported(c)
    \/ ConnectFails(c) \/ Connect(c) \/ ConnectReplyFails(c)
    \/ AssociateFails(c) \/ Associate(c) \/ AssociateReplyFails(c)
-----------------------------------------------------------------------------
(* Server::on_timer(): libev has stopped the timer that fired (it does not  *)
(* fire in what is left of a broken loop's last iteration); every member of *)
(* a list may have expired; the timer is started again, even when a client's*)
(* end led check_term_cb() to stop it.                                      *)
TimerFires ==
    /\ Idle /\ proc = "running" /\ timerOn
    /\ timerOn' = FALSE /\ cur' = "timer"
    /\ UNCHANGED <<conn, lists, listening, term_req, ints, proc, fds, faulted>>

Expires(c) ==
    /\ Up /\ cur = "timer"
    /\ c \in client_timeouts \cup remote_timeouts \cup idle_timeouts
    /\ Done(c, "timer")

SlipTimerEnds ==
    /\ Up /\ cur = "timer"
    /\ cur' = "none"
    /\ UNCHANGED <<conn, lists, loopVars, proc, fds, faulted>>
TimerEnds ==
    /\ Up /\ cur = "timer"
    /\ cur' = "none" /\ timerOn' = TRUE
    /\ UNCHANGED <<conn, lists, listening, term_req, ints, proc, fds, faulted>>

(* Server::stop_listen() with the given request; check_term_cb() is first.  *)
SlipStopListen(req) ==
    /\ CheckTerm(client_timeouts, remote_timeouts, idle_timeouts, req)
    /\ fds' = (IF listening THEN fds - 1 ELSE fds)
    /\ UNCHANGED listening
StopListen(req) ==
    /\ CheckTerm(client_timeouts, remote_timeouts, idle_timeouts, req)
    /\ listening' = FALSE
    /\ fds' = IF listening THEN fds - 1 ELSE fds

(* sigint_cb() logs clients(); the first interrupt calls term(), the others *)
(* force_term(), which ends every client in client_timeouts.                *)
Interrupt ==
    /\ Idle
    /\ IF ~ClientsAsserts(client_timeouts, remote_timeouts, idle_timeouts)
       THEN Fails("clients() >= remotes, idles")
       ELSE IF ints = 0
            THEN /\ ints' = 1
                 /\ StopListen(TRUE)
                 /\ UNCHANGED <<conn, lists, cur, faulted>>
            ELSE /\ ints' = 2 /\ cur' = "force"
                 /\ UNCHANGED <<conn, lists, listening, term_req, timerOn, proc, fds, faulted>>

Forces(c) == Up /\ cur = "force" /\ c \in client_timeouts /\ Done(c, "force")

SlipForceEnds ==
    /\ Up /\ cur = "force" /\ client_timeouts = {}
    /\ cur' = "none"
    /\ UNCHANGED <<conn, lists, loopVars, proc, fds, faulted>>
ForceEnds ==
    /\ Up /\ cur = "force" /\ client_timeouts = {}
    /\ StopListen(term_req)
    /\ cur' = "none"
    /\ UNCHANGED <<conn, lists, ints, faulted>>

(* main(): ev_run() returns after term_cb() broke the loop. *)
Exit ==
    /\ Idle /\ proc = "breaking"
    /\ IF ~ClientsAsserts(client_timeouts, remote_timeouts, idle_timeouts)
       THEN Fails("clients() >= remotes, idles")
       ELSE IF Asserts /\ client_timeouts # {}
            THEN Fails("clients() == 0")
            ELSE Fails("exited")
-----------------------------------------------------------------------------
Init ==
    /\ conn = [c \in Clients |->
         [state |-> "none", input |-> 0, cbuf |-> FALSE, rbuf |-> FALSE,
          ceof |-> FALSE, reof |-> FALSE, udp |-> "none", auth |-> "no"]]
    /\ client_timeouts = {} /\ remote_timeouts = {} /\ idle_timeouts = {}
    /\ listening = TRUE /\ term_req = FALSE /\ ints = 0 /\ timerOn = TRUE
    /\ cur = "none" /\ proc = "running" /\ fds = 1 /\ faulted = FALSE

Callback(c) ==
    \/ Accept(c) \/ RecvStream(c) \/ RecvFails(c) \/ RecvEof(c)
    \/ \E k \in 1..MaxInput : Recv(c, k)
    \/ RemoteRecv(c) \/ RemoteEof(c) \/ ClientSend(c) \/ RemoteSend(c)

Next ==
    \/ \E c \in Clients : Callback(c) \/ LoopStep(c) \/ Expires(c) \/ Forces(c)
    \/ TimerFires \/ TimerEnds \/ Interrupt \/ ForceEnds \/ Exit

(* A running callback goes on: it is straight-line code.  Once the loop is  *)
(* broken only the events already pending are delivered, so main() resumes. *)
Fairness ==
    /\ WF_vars(\E c \in Clients : LoopStep(c))
    /\ WF_vars(TimerEnds)
    /\ WF_vars(ForceEnds \/ \E c \in Clients : Forces(c))
    /\ SF_vars(Exit)

Spec == Init /\ [][Next]_vars
FairSpec == Spec /\ Fairness
-----------------------------------------------------------------------------
(* Types, and a count of sockets that is neither negative nor over the limit.*)
Types ==
    /\ conn \in [Clients -> Conn]
    /\ client_timeouts \subseteq Clients
    /\ remote_timeouts \subseteq Clients
    /\ idle_timeouts \subseteq Clients
    /\ listening \in BOOLEAN /\ term_req \in BOOLEAN /\ timerOn \in BOOLEAN
    /\ faulted \in BOOLEAN
    /\ ints \in 0..2
    /\ cur \in Clients \cup {"none", "timer", "force"}
    /\ proc \in Fates
TypeOK == Types /\ fds \in 0..FdLimit

(* The timeout lists are intrusive: a member that was deleted is a dangling *)
(* pointer.                                                                 *)
NoDeadMember ==
    \A c \in client_timeouts \cup remote_timeouts \cup idle_timeouts : Live(c)

(* Every session is in the idle list, so that it ends at last.              *)
SessionsTimed ==
    \A c \in Clients : Established(c) => c \in idle_timeouts

(* Every client in its handshake is in client_timeouts, so that it has five *)
(* seconds to finish (on_connection and cmd_connect: "clear handshake       *)
(* timeout").                                                               *)
HandshakesTimed == \A c \in Clients : Handshaking(c) => c \in client_timeouts

(* A stream is in client_timeouts exactly while its client has bytes to     *)
(* read, and in remote_timeouts only while its remote has.                  *)
StreamTimedIffPending ==
    \A c \in Clients :
      /\ conn[c].state = "STREAM" => (c \in client_timeouts <=> conn[c].cbuf)
      /\ c \in remote_timeouts => conn[c].state = "STREAM" /\ conn[c].rbuf

(* auth_end() is called once for every client that entered AUTH, whether it *)
(* leaves by success, failure, timeout, disconnection or force_term, and    *)
(* for no other.                                                            *)
AuthEndsOnce ==
    \A c \in Clients :
      /\ conn[c].auth # "twice"
      /\ conn[c].auth = "open" => conn[c].state = "AUTH"

(* The sockets the listener and the clients will close: a client has one,   *)
(* its remote one and each of its UDPPeers one.                             *)
Owned ==
    (IF listening THEN 1 ELSE 0) + Cardinality({c \in Clients : Live(c)})
    + Cardinality({c \in Clients : conn[c].state = "STREAM"})
    + Cardinality({c \in Clients : Live(c) /\ conn[c].udp # "none"})
    + Cardinality({c \in Clients : Live(c) /\ conn[c].udp = "both"})

(* Nothing that is closed twice or used closed: what is owned is open; and  *)
(* unless a system call failed half-way through a setup every open socket   *)
(* is owned.                                                                *)
NoLeak == Owned <= fds /\ (~faulted => fds = Owned)

(* While the loop runs the timer does.                                      *)
TimerArmed == proc = "running" /\ cur # "timer" => timerOn

(* Two assertions that do hold.  The bytes after CONNECT belong to the      *)
(* remote: the handshake loop never comes to assert(!"impossible state")    *)
(* with a stream's bytes in its input.  main()'s assert(server.clients() == *)
(* 0) holds, and with assertions on it means what it says: no session is    *)
(* left when the process exits.                                             *)
AssertionsHold ==
    /\ \A c \in Clients : conn[c].state = "STREAM" => conn[c].input = 0
    /\ proc # "clients() == 0"
    /\ Asserts /\ proc = "exited" => \A c \in Clients : ~Live(c)

(* The inductive invariant.  For each client: what the invariants above say  *)
(* of it, and that a client in AUTH has its context.  For the server: a      *)
(* termination request comes with a closed listener, and, with assertions    *)
(* on, the loop is broken only when nobody is left.                          *)
Local(c) ==
    /\ c \in client_timeouts \cup remote_timeouts \cup idle_timeouts => Live(c)
    /\ Established(c) => c \in idle_timeouts
    /\ Asserts /\ Handshaking(c) => c \in client_timeouts
    /\ conn[c].state = "STREAM" => (c \in client_timeouts <=> conn[c].cbuf)
    /\ c \in remote_timeouts => conn[c].state = "STREAM" /\ conn[c].rbuf
    /\ conn[c].auth # "twice"
    /\ conn[c].auth = "open" <=> conn[c].state = "AUTH"
    /\ conn[c].state = "STREAM" => conn[c].input = 0
Global ==
    /\ TimerArmed
    /\ term_req => ~listening
    /\ proc # "clients() == 0"
    /\ Asserts /\ proc = "breaking" => ~listening
    /\ Asserts /\ proc \in {"breaking", "exited"} => \A c \in Clients : ~Live(c)
IndInv == Types /\ (\A c \in Clients : Local(c)) /\ Global

(* The inductive invariant of the socket count: a client has both UDPPeers  *)
(* in state UDP and there alone, and a lone one only after a failure.       *)
UdpLocal(c) ==
    /\ conn[c].state = "UDP" <=> Live(c) /\ conn[c].udp = "both"
    /\ Live(c) /\ conn[c].udp = "client" => faulted
Counted == TypeOK /\ NoLeak /\ \A c \in Clients : UdpLocal(c)

(* A second interrupt stops the process.                                    *)
SecondInterruptStops == ints = 2 ~> ~Up

(* The request to terminate is not forgotten: once its sessions have ended  *)
(* by themselves, an interrupted server exits.                              *)
DrainedExits == ints > 0 /\ (\A c \in Clients : ~Live(c)) ~> ~Up

(* Statements of the sources that the program does not keep.                *)

(* server.cpp:905-906, assertions of clients(). *)
ClientsAssertionsHold == proc # "clients() >= remotes, idles"

(* server.cpp:468, assert(client.state == ClientConn::STREAM). *)
StreamAssertionHolds == proc # "state == STREAM"

(* server.cpp:301, assert(client.input.empty()). *)
InputAssertionHolds == proc # "client.input.empty()"
=============================================================================
