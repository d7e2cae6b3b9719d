------------------------------- MODULE Timers -------------------------------
(***************************************************************************)
(* The clock, the three timeout lists and the one timer of server.cpp:     *)
(* when on_timer() runs, whom it ends and when it runs next.  A list is    *)
(* what TimeoutQueue promises: a set of members, the time each was last    *)
(* touched, and a walk that ends those that are overdue.  The walks are    *)
(* arguments of one std::min: they run one after the other, in an order    *)
(* the language leaves open, and each may end members of the others.       *)
(*                                                                         *)
(* The server runs and nobody has asked it to terminate, and no reply of a *)
(* handshake has to wait for its client (what happens otherwise is in      *)
(* Server).  Time is libev's: ev_now() advances between callbacks only and *)
(* never back, and the loop calls a timer at most Lag late.                *)
(***************************************************************************)
EXTENDS Integers

CONSTANTS
    Clients,    \* names for ClientConn objects, used again once deleted
    Timeout,    \* of each list: TimeoutList::timeout
    Lag,        \* how late the loop may be
    MaxTime     \* bound: the clock stops here

Lists == {"client", "remote", "idle"}

ASSUME TimersAssumption ==
    /\ Timeout \in [Lists -> Nat \ {0}]
    /\ Lag \in Nat /\ MaxTime \in Nat

VARIABLES
    conn,           \* what the lists depend on in each client and its remote
    timeouts,       \* of each list: the last_activity of its members
    since,          \* history: when each thing a client is timed for happened
    now,            \* ev_now()
    due,            \* when the timer fires
    walk,           \* the list that on_timer() walks, or "none"
    todo,           \* the lists it has not walked yet
    wait            \* what the walks have returned so far

connVars == <<conn, timeouts, since>>
timerVars == <<due, walk, todo, wait>>
vars == <<conn, timeouts, since, now, due, walk, todo, wait>>

(* rbuf is "early" while remote.iochan holds only what came with CONNECT.   *)
Conn == [state : {"none", "handshake", "STREAM", "UDP"}, cbuf : BOOLEAN,
         rbuf : {"empty", "early", "pending"}]
Gone == [state |-> "none", cbuf |-> FALSE, rbuf |-> "empty"]

(* When a client that is in its handshake was accepted, when a byte of a    *)
(* session was last read, when the bytes that wait in its own channel or in *)
(* its remote's were last written or flushed; 0 for what is not the case.   *)
Moments == [accepted : Nat, heard : Nat, toClient : Nat, toRemote : Nat]
Never == [accepted |-> 0, heard |-> 0, toClient |-> 0, toRemote |-> 0]

Live(c) == conn[c].state # "none"
Established(c) == conn[c].state \in {"STREAM", "UDP"}
Members(l) == DOMAIN timeouts[l]
Deadline(l, c) == timeouts[l][c] + Timeout[l]
Idle == walk = "none"
-----------------------------------------------------------------------------
(* Each Slip... is a wrong form of the definition it precedes.              *)

(* TimeoutList::touch() and remove() on the members of one list; only of a  *)
(* member is last_activity ever read.                                       *)
Touch(list, c) ==
    [m \in DOMAIN list \cup {c} |-> IF m = c THEN now ELSE list[m]]
Remove(list, c) == [m \in DOMAIN list \ {c} |-> list[m]]

(* update_client_timeout() and update_remote_timeout(): list l holds those  *)
(* with bytes pending.  A read also calls update_idle_timeout().            *)
SlipUpdatePending(l, c, pending, read) ==
    timeouts' = [timeouts EXCEPT ![l] = IF pending THEN Touch(@, c) ELSE @,
                                 !["idle"] = IF read THEN Touch(@, c) ELSE @]
UpdatePending(l, c, pending, read) ==
    timeouts' = [timeouts EXCEPT ![l] = IF pending THEN Touch(@, c) ELSE Remove(@, c),
                                 !["idle"] = IF read THEN Touch(@, c) ELSE @]

When(happened) == IF happened THEN now ELSE 0

(* on_client_done(), as far as the lists are concerned. *)
SlipEnds(c) ==
    /\ conn' = [conn EXCEPT ![c] = Gone]
    /\ timeouts' = [timeouts EXCEPT !["client"] = Remove(@, c), !["remote"] = Remove(@, c)]
    /\ since' = [since EXCEPT ![c] = Never]
Ends(c) ==
    /\ conn' = [conn EXCEPT ![c] = Gone]
    /\ timeouts' = [l \in Lists |-> Remove(timeouts[l], c)]
    /\ since' = [since EXCEPT ![c] = Never]
-----------------------------------------------------------------------------
(* Server::on_connection(). *)
Accept(c) ==
    /\ Idle /\ ~Live(c)
    /\ conn' = [conn EXCEPT ![c].state = "handshake"]
    /\ timeouts' = [timeouts EXCEPT !["client"] = Touch(@, c)]
    /\ since' = [since EXCEPT ![c].accepted = now]
    /\ UNCHANGED <<now, timerVars>>

(* client_recv_cb during the handshake: messages and their answers touch no *)
(* list.                                                                    *)
SlipHandshake(c) ==
    /\ Idle /\ conn[c].state = "handshake"
    /\ timeouts' = [timeouts EXCEPT !["client"] = Touch(@, c)]
    /\ UNCHANGED <<conn, since, now, timerVars>>
Handshake(c) ==
    /\ Idle /\ conn[c].state = "handshake"
    /\ UNCHANGED vars

(* cmd_connect(): the reply may have to wait, and bytes may have come with  *)
(* the command; they wait for the remote, in no list.                       *)
Connect(c) ==
    /\ Idle /\ conn[c].state = "handshake"
    /\ \E pending, early \in BOOLEAN :
         /\ conn' = [conn EXCEPT ![c] = [state |-> "STREAM", cbuf |-> pending,
                                         rbuf |-> IF early THEN "early" ELSE "empty"]]
         /\ UpdatePending("client", c, pending, TRUE)
         /\ since' = [since EXCEPT ![c] =
                        [Never EXCEPT !.heard = now, !.toClient = When(pending)]]
    /\ UNCHANGED <<now, timerVars>>

(* cmd_udp(). *)
Associate(c) ==
    /\ Idle /\ conn[c].state = "handshake"
    /\ conn' = [conn EXCEPT ![c].state = "UDP"]
    /\ timeouts' = [timeouts EXCEPT !["client"] = Remove(@, c), !["idle"] = Touch(@, c)]
    /\ since' = [since EXCEPT ![c] = [Never EXCEPT !.heard = now]]
    /\ UNCHANGED <<now, timerVars>>

(* remote_recv_cb and client_recv_cb of a stream: bytes are read and written*)
(* to the other side's channel; only an empty channel may be bypassed.      *)
RemoteRecv(c) ==
    /\ Idle /\ conn[c].state = "STREAM"
    /\ \E pending \in BOOLEAN :
         /\ conn[c].cbuf => pending
         /\ conn' = [conn EXCEPT ![c].cbuf = pending]
         /\ UpdatePending("client", c, pending, TRUE)
         /\ since' = [since EXCEPT ![c].toClient = When(pending), ![c].heard = now]
    /\ UNCHANGED <<now, timerVars>>

RecvStream(c) ==
    /\ Idle /\ conn[c].state = "STREAM"
    /\ \E pending \in BOOLEAN :
         /\ conn[c].rbuf # "empty" => pending
         /\ conn' = [conn EXCEPT ![c].rbuf = IF pending THEN "pending" ELSE "empty"]
         /\ UpdatePending("remote", c, pending, TRUE)
         /\ since' = [since EXCEPT ![c].toRemote = When(pending), ![c].heard = now]
    /\ UNCHANGED <<now, timerVars>>

(* client_send_cb and remote_send_cb: a flush is no activity for the idle   *)
(* list.                                                                    *)
ClientSend(c) ==
    /\ Idle /\ conn[c].state = "STREAM" /\ conn[c].cbuf
    /\ \E pending \in BOOLEAN :
         /\ conn' = [conn EXCEPT ![c].cbuf = pending]
         /\ UpdatePending("client", c, pending, FALSE)
         /\ since' = [since EXCEPT ![c].toClient = When(pending)]
    /\ UNCHANGED <<now, timerVars>>

RemoteSend(c) ==
    /\ Idle /\ conn[c].state = "STREAM" /\ conn[c].rbuf # "empty"
    /\ \E pending \in BOOLEAN :
         /\ conn' = [conn EXCEPT ![c].rbuf = IF pending THEN "pending" ELSE "empty"]
         /\ UpdatePending("remote", c, pending, FALSE)
         /\ since' = [since EXCEPT ![c].toRemote = When(pending)]
    /\ UNCHANGED <<now, timerVars>>

(* udp_client_recv_cb and udp_remote_recv_cb when the datagram was sent on. *)
Datagram(c) ==
    /\ Idle /\ conn[c].state = "UDP"
    /\ timeouts' = [timeouts EXCEPT !["idle"] = Touch(@, c)]
    /\ since' = [since EXCEPT ![c].heard = now]
    /\ UNCHANGED <<conn, now, timerVars>>

(* Any end of a client that is not a timeout. *)
Close(c) ==
    /\ Idle /\ Live(c)
    /\ Ends(c)
    /\ UNCHANGED <<now, timerVars>>
-----------------------------------------------------------------------------
(* A new iteration of the loop. *)
Tick ==
    /\ Idle
    /\ \E t \in (now + 1)..(due + Lag) : t <= MaxTime /\ now' = t
    /\ UNCHANGED <<connVars, timerVars>>

(* Server::on_timer() begins with some list. *)
TimerFires ==
    /\ Idle /\ due <= now
    /\ walk' \in Lists /\ todo' = Lists \ {walk'}
    /\ UNCHANGED <<connVars, now, due, wait>>

(* each_timeouts() finds a member overdue and ends it: on_client_timeout_cb,*)
(* on_remote_timeout_cb, on_idle_timeout_cb.                                *)
Expires(c) ==
    /\ walk # "none" /\ c \in Members(walk)
    /\ Deadline(walk, c) <= now
    /\ Ends(c)
    /\ UNCHANGED <<now, timerVars>>

(* What each_timeouts() returns when no member of list l is overdue.        *)
SlipReturns(l, r) == r = Timeout[l]
Returns(l, r) ==
    /\ \A m \in Members(l) : now < Deadline(l, m) /\ now + r <= Deadline(l, m)
    /\ \/ Members(l) = {} /\ r = Timeout[l]
       \/ \E m \in Members(l) : now + r = Deadline(l, m)

WalkEnds ==
    /\ walk # "none" /\ todo # {}
    /\ \E r \in 1..Timeout[walk] :
         Returns(walk, r) /\ wait' = [wait EXCEPT ![walk] = r]
    /\ walk' \in todo /\ todo' = todo \ {walk'}
    /\ UNCHANGED <<connVars, now, due>>

(* The last walk ends, and the timer is started for next_check, the least   *)
(* of what the three returned.                                              *)
LastWalkEnds ==
    /\ walk # "none" /\ todo = {}
    /\ \E r \in 1..Timeout[walk], l \in Lists :
         LET returned == [wait EXCEPT ![walk] = r]
         IN  /\ Returns(walk, r)
             /\ \A m \in Lists : returned[l] <= returned[m]
             /\ due' = now + returned[l]
    /\ walk' = "none" /\ wait' = Timeout
    /\ UNCHANGED <<connVars, now, todo>>
-----------------------------------------------------------------------------
(* Server::Server() and Server::init(). *)
Init ==
    /\ conn = [c \in Clients |-> Gone]
    /\ timeouts = [l \in Lists |-> [m \in {} |-> 0]]
    /\ since = [c \in Clients |-> Never]
    /\ now = 0
    /\ \E l \in Lists : (\A m \in Lists : Timeout[l] <= Timeout[m]) /\ due = Timeout[l]
    /\ walk = "none" /\ todo = {} /\ wait = Timeout

Callback(c) ==
    \/ Accept(c) \/ Handshake(c) \/ Connect(c) \/ Associate(c)
    \/ RemoteRecv(c) \/ RecvStream(c) \/ ClientSend(c) \/ RemoteSend(c)
    \/ Datagram(c) \/ Close(c)

Next ==
    \/ \E c \in Clients : Callback(c) \/ Expires(c)
    \/ Tick \/ TimerFires \/ WalkEnds \/ LastWalkEnds

Spec == Init /\ [][Next]_vars
-----------------------------------------------------------------------------
(* Types; the members of every list are live clients, because a deleted one *)
(* is a dangling pointer in an intrusive list.                              *)
Types ==
    /\ conn \in [Clients -> Conn]
    /\ timeouts = [l \in Lists |-> timeouts[l]]
    /\ \A l \in Lists : Members(l) \subseteq Clients /\ timeouts[l] \in [Members(l) -> Nat]
    /\ since \in [Clients -> Moments]
    /\ now \in Nat /\ due \in Nat
    /\ walk \in Lists \cup {"none"} /\ todo \subseteq Lists
    /\ wait \in [Lists -> Nat]
TypeOK == Types /\ \A l \in Lists : \A c \in Members(l) : Live(c)

(* Nobody outstays a timeout by more than the loop is late: a handshake     *)
(* ends, however slowly its bytes trickle in; a stream ends whose client,   *)
(* or remote, neither takes the bytes that wait for it nor is sent more (but*)
(* not if all that waits for the remote came with CONNECT); and a session   *)
(* ends of which nothing is read.                                           *)
EndsInTime ==
    \A c \in Clients :
      /\ conn[c].state = "handshake" => now <= since[c].accepted + Timeout["client"] + Lag
      /\ conn[c].cbuf => now <= since[c].toClient + Timeout["client"] + Lag
      /\ conn[c].rbuf = "pending" => now <= since[c].toRemote + Timeout["remote"] + Lag
      /\ Established(c) => now <= since[c].heard + Timeout["idle"] + Lag

(* The timer ends nobody without a reason: whoever it ends has outstayed    *)
(* one of its timeouts.                                                     *)
Cause(c) ==
    \/ conn[c].state = "handshake" /\ since[c].accepted + Timeout["client"] <= now
    \/ conn[c].cbuf /\ since[c].toClient + Timeout["client"] <= now
    \/ conn[c].rbuf = "pending" /\ since[c].toRemote + Timeout["remote"] <= now
    \/ Established(c) /\ since[c].heard + Timeout["idle"] <= now
EndedForCause ==
    [][walk # "none" => \A c \in Clients : Live(c) /\ ~Live(c)' => Cause(c)]_vars

(* One timer serves three lists because it never fires after any deadline:  *)
(* when it is not running down, no member that on_timer() would end has     *)
(* been overlooked.                                                         *)
TimerInTime ==
    Idle => \A l \in Lists : \A c \in Members(l) : due <= Deadline(l, c)

(* The inductive invariant.  For a client: in which lists it is, and that   *)
(* its last activity there is the moment it is timed from.  For the timer:  *)
(* it is due within the shortest timeout and before every deadline, the loop*)
(* is not late, and a list whose walk has ended has nobody overdue before   *)
(* the time it returned.                                                    *)
Local(c) ==
    /\ conn[c].state = "handshake" \/ conn[c].cbuf <=> c \in Members("client")
    /\ conn[c].rbuf = "pending" <=> c \in Members("remote")
    /\ Established(c) <=> c \in Members("idle")
    /\ conn[c].cbuf \/ conn[c].rbuf # "empty" => conn[c].state = "STREAM"
    /\ conn[c].state = "handshake" => timeouts["client"][c] = since[c].accepted
    /\ conn[c].cbuf => timeouts["client"][c] = since[c].toClient
    /\ conn[c].rbuf = "pending" => timeouts["remote"][c] = since[c].toRemote
    /\ Established(c) => timeouts["idle"][c] = since[c].heard
InTime(l, c) ==
    /\ timeouts[l][c] <= now /\ now <= Deadline(l, c) + Lag
    /\ Idle => due <= Deadline(l, c)
    /\ ~Idle /\ l # walk /\ l \notin todo => now + wait[l] <= Deadline(l, c)
Global ==
    /\ \A l \in Lists : \A c \in Members(l) : InTime(l, c)
    /\ \A l \in Lists : wait[l] <= Timeout[l] /\ (Idle => due <= now + Timeout[l])
    /\ walk \notin todo /\ now <= due + Lag
IndInv == Types /\ (\A c \in Clients : Local(c)) /\ Global
=============================================================================
