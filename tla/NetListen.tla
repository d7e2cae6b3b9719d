------------------------------ MODULE NetListen ------------------------------
(***************************************************************************)
(* _net_listen of net.cpp, one system call a step: the addresses are tried  *)
(* in turn until a socket can be bound to one, and a stream socket listens. *)
(* It is what tcp_listen and udp_listen call; UdpRelay composes them.  The  *)
(* descriptors are the process's table, which others use as well.           *)
(***************************************************************************)
EXTENDS Integers, Sequences

CONSTANTS
    Fds,        \* the descriptors a process may have
    Foreign,    \* those of the log, of libev, ...: open from the start
    Candidates  \* what getaddrinfo() may return: families in their order

None == -1
Families == {4, 16}  \* each named by Addr::ip_size(), as are addresses

ASSUME ListenAssumption ==
    Fds \subseteq Nat /\ Foreign \subseteq Fds /\ Candidates \subseteq Seq(Families)

VARIABLES
    open,   \* the open descriptors
    ready,  \* those among the open sockets that are bound, and listen if streams
    call,   \* the type of socket asked for
    at,     \* where the call is: "idle" outside of one, "done" when it returns
    cands,  \* the candidates left, the current one first
    fd, err, family  \* the socket, whether there is an error, the socket's family

listenVars == <<open, ready, call, at, cands, fd, err, family>>

(* socket() and accept() take the lowest free descriptor.                   *)
Opens(f) ==
    /\ f \in Fds \ open /\ \A g \in Fds \ open : f <= g
    /\ open' = open \union {f}

(* close() of a descriptor that is not open fails with EBADF.               *)
CloseFds(fds) == open' = open \ fds /\ ready' = ready \ fds

ListenInit ==
    /\ open = Foreign /\ ready = {} /\ call = "none" /\ at = "idle"
    /\ cands = <<>> /\ fd = None /\ err = FALSE /\ family = 4
-----------------------------------------------------------------------------
(* Each Slip... is a wrong form of the definition it precedes.              *)

Listen(type) ==
    /\ at = "idle"
    /\ call' = type /\ at' = "resolve" /\ err' = FALSE /\ fd' = None
    /\ UNCHANGED <<open, ready, cands, family>>

GetAddrInfo ==
    /\ at = "resolve"
    /\ \/ err' = TRUE /\ at' = "return" /\ UNCHANGED cands
       \/ cands' \in Candidates /\ at' = "loop" /\ UNCHANGED err
    /\ UNCHANGED <<open, ready, call, fd, family>>

Socket ==
    /\ at = "loop" /\ cands # <<>>
    /\ \E f \in Fds : Opens(f) /\ fd' = f
    /\ family' = Head(cands) /\ at' = "bind"
    /\ UNCHANGED <<ready, call, cands, err>>
SocketFails ==
    /\ at = "loop" /\ cands # <<>>
    /\ fd' = None /\ err' = TRUE /\ cands' = Tail(cands)
    /\ UNCHANGED <<open, ready, call, at, family>>

Bind ==
    /\ at = "bind"
    /\ err' = FALSE /\ at' = "bound"
    /\ ready' = IF call = "dgram" THEN ready \union {fd} ELSE ready
    /\ UNCHANGED <<open, call, cands, fd, family>>

(* The descriptor is closed and kept in fd.                                 *)
SlipBindFails ==
    /\ at = "bind"
    /\ err' = TRUE /\ cands' = Tail(cands) /\ at' = "loop"
    /\ UNCHANGED <<open, ready, call, fd, family>>
BindFails ==
    /\ at = "bind" /\ CloseFds({fd})
    /\ err' = TRUE /\ cands' = Tail(cands) /\ at' = "loop"
    /\ UNCHANGED <<call, fd, family>>

(* The loop is over: with a socket, or without candidates.  listen() is for *)
(* streams only.                                                            *)
LoopEnds == at = "bound" \/ (at = "loop" /\ cands = <<>>)
NoSocket == err \/ fd = None
GiveUp ==
    /\ LoopEnds /\ NoSocket
    /\ err' = TRUE /\ at' = "return"
    /\ UNCHANGED <<open, ready, call, cands, fd, family>>
StartListen ==
    /\ LoopEnds /\ ~NoSocket
    /\ ready' = IF call = "stream" THEN ready \union {fd} ELSE ready
    /\ at' = "return"
    /\ UNCHANGED <<open, call, cands, fd, err, family>>
ListenFails ==
    /\ LoopEnds /\ ~NoSocket /\ call = "stream"
    /\ err' = TRUE /\ at' = "return"
    /\ UNCHANGED <<open, ready, call, cands, fd, family>>

(* L_RETURN: after an error the descriptor in fd is closed, which bind()'s  *)
(* failure may have done already.                                           *)
Return ==
    /\ at = "return"
    /\ CloseFds(IF err /\ fd # None THEN {fd} ELSE {})
    /\ at' = "done"
    /\ UNCHANGED <<call, cands, fd, err, family>>

ListenNext ==
    \/ GetAddrInfo \/ Socket \/ SocketFails \/ Bind \/ BindFails
    \/ GiveUp \/ StartListen \/ ListenFails \/ Return
=============================================================================
