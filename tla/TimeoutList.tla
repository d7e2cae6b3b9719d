----------------------------- MODULE TimeoutList -----------------------------
(***************************************************************************)
(* A timeout list down to its pointers: TimeoutList of timeout_list.hpp    *)
(* over the intrusive circular list of dlist.hpp.  Its callers, in         *)
(* server.cpp, touch and remove objects and walk it; the callback of every *)
(* walk removes the object it is given (on_client_done, on_remote_done)    *)
(* and touches no other member of the list being walked.                   *)
(***************************************************************************)
EXTENDS Integers, FiniteSets

CONSTANTS
    Objs,       \* the objects with a node in the list
    Sentry,     \* DList::sentry
    Timeout,    \* TimeoutList::timeout
    MaxTime     \* bound: the clock stops here

ASSUME TimeoutListAssumption ==
    /\ IsFiniteSet(Objs) /\ Sentry \notin Objs
    /\ Timeout \in Nat \ {0} /\ MaxTime \in Nat

VARIABLES
    prev, next,     \* the two pointers of every DListNode
    size,           \* TimeoutList::size
    last_activity,  \* TimeoutTracer::last_activity of every object
    rank,           \* history: the place of an object in the list, 0 if none
    it,             \* the iterator of each_timeouts
    walk,           \* "none", or who walks: "timer" or "force"
    next_check,     \* what each_timeouts returned last
    now             \* ev_now()

listVars == <<prev, next, size, last_activity, rank>>
vars == <<prev, next, size, last_activity, rank, it, walk, next_check, now>>

Nodes == Objs \cup {Sentry}

(* DListNode::is_detached() negated, which is DList::is_linked(). *)
IsLinked(o) == prev[o] # o

(* The time each_timeouts() is given: INFINITY by force_term().             *)
Overdue(o) == walk = "force" \/ last_activity[o] + Timeout <= now
-----------------------------------------------------------------------------
(* Each Slip... is a wrong form of the definition it precedes.              *)

(* DListNode::detach() of n, the two pointer maps being p and q. *)
SlipDetachNext(p, q, n) == [q EXCEPT ![p[n]] = q[n]]
DetachNext(p, q, n) == [q EXCEPT ![p[n]] = q[n], ![n] = n]
DetachPrev(p, q, n) == [p EXCEPT ![q[n]] = p[n], ![n] = n]

(* DListNode::insert_before() on the sentry, which is insert_after() on its *)
(* predecessor: DList::push_back().                                         *)
PushNext(p, q, n) == [q EXCEPT ![n] = q[p[Sentry]], ![p[Sentry]] = n]
PushPrev(p, q, n) == [p EXCEPT ![n] = p[Sentry], ![q[p[Sentry]]] = n]

(* The places of the others when n leaves the list. *)
RankWithout(n) ==
    [o \in Objs |-> IF o = n THEN 0
                    ELSE IF rank[n] # 0 /\ rank[o] > rank[n] THEN rank[o] - 1
                    ELSE rank[o]]

Erase(o) ==
    /\ next' = DetachNext(prev, next, o)
    /\ prev' = DetachPrev(prev, next, o)
    /\ size' = size - 1
    /\ rank' = RankWithout(o)

(* TimeoutList::touch(). *)
SlipTouch(o) ==
    /\ walk = "none"
    /\ last_activity' = [last_activity EXCEPT ![o] = now]
    /\ IF IsLinked(o)
       THEN UNCHANGED <<prev, next, size, rank>>
       ELSE /\ next' = PushNext(prev, next, o)
            /\ prev' = PushPrev(prev, next, o)
            /\ size' = size + 1
            /\ rank' = [rank EXCEPT ![o] = size + 1]
    /\ UNCHANGED <<it, walk, next_check, now>>
Touch(o) ==
    /\ walk = "none"
    /\ last_activity' = [last_activity EXCEPT ![o] = now]
    /\ IF IsLinked(o)
       THEN LET p == DetachPrev(prev, next, o)
                q == DetachNext(prev, next, o)
            IN  /\ next' = PushNext(p, q, o)
                /\ prev' = PushPrev(p, q, o)
                /\ rank' = [RankWithout(o) EXCEPT ![o] = size]
                /\ UNCHANGED size
       ELSE /\ next' = PushNext(prev, next, o)
            /\ prev' = PushPrev(prev, next, o)
            /\ rank' = [rank EXCEPT ![o] = size + 1]
            /\ size' = size + 1
    /\ UNCHANGED <<it, walk, next_check, now>>

(* TimeoutList::remove(). *)
Remove(o) ==
    /\ walk = "none"
    /\ IF IsLinked(o) THEN Erase(o) ELSE UNCHANGED <<prev, next, size, rank>>
    /\ UNCHANGED <<last_activity, it, walk, next_check, now>>

(* ev_now() advances between callbacks only. *)
Tick ==
    /\ walk = "none"
    /\ now' \in (now + 1)..MaxTime
    /\ UNCHANGED <<listVars, it, walk, next_check>>

(* TimeoutList::each_timeouts(): "it = this->list.begin()"; an iteration    *)
(* that calls back, after "++it"; the break or the end of the list.         *)
Begin ==
    /\ walk = "none" /\ walk' \in {"timer", "force"}
    /\ it' = next[Sentry]
    /\ UNCHANGED <<listVars, next_check, now>>

CallBack ==
    /\ walk # "none" /\ it # Sentry /\ Overdue(it)
    /\ it' = next[it]
    /\ Erase(it)
    /\ UNCHANGED <<last_activity, walk, next_check, now>>

End ==
    /\ walk # "none"
    /\ it # Sentry => ~Overdue(it)
    /\ next_check' = IF it # Sentry THEN last_activity[it] + Timeout - now ELSE Timeout
    /\ walk' = "none" /\ it' = Sentry
    /\ UNCHANGED <<listVars, now>>
-----------------------------------------------------------------------------
Init ==
    /\ prev = [n \in Nodes |-> n] /\ next = [n \in Nodes |-> n]
    /\ size = 0 /\ last_activity = [o \in Objs |-> 0]
    /\ rank = [o \in Objs |-> 0]
    /\ it = Sentry /\ walk = "none" /\ next_check = Timeout /\ now = 0

Next ==
    \/ \E o \in Objs : Touch(o) \/ Remove(o)
    \/ Tick \/ Begin \/ CallBack \/ End

Spec == Init /\ [][Next]_vars
-----------------------------------------------------------------------------
Linked == {o \in Objs : IsLinked(o)}

TypeOK ==
    /\ prev \in [Nodes -> Nodes] /\ next \in [Nodes -> Nodes]
    /\ size \in Nat
    /\ last_activity \in [Objs -> Nat]
    /\ rank \in [Objs -> Nat]
    /\ it \in Nodes /\ walk \in {"none", "timer", "force"}
    /\ next_check \in Nat /\ now \in Nat

(* The two directions of the list agree, so that a walk from the sentry     *)
(* comes back to it; size counts the members; the iterator of a walk is at  *)
(* the first of them, never at an object that was detached under it.        *)
Ring ==
    /\ \A n \in Nodes : prev[next[n]] = n /\ next[prev[n]] = n
    /\ size = Cardinality(Linked)
    /\ walk # "none" => it = next[Sentry]

(* The list runs from the member that was touched longest ago to the one    *)
(* touched last: each_timeouts() may stop at the first that is not overdue. *)
Sorted ==
    \A m, n \in Linked :
      /\ rank[m] <= rank[n] => last_activity[m] <= last_activity[n]
      /\ next[m] = n => rank[n] = rank[m] + 1
ListOK == TypeOK /\ Ring /\ Sorted

(* The list keeps the promises of TimeoutQueue.                             *)
Queue == INSTANCE TimeoutQueue WITH members <- Linked
ImplementsQueue == Queue!QueueSpec

(* The inductive invariant, for any two pointer maps, ranks and size: the   *)
(* ring is closed, and from the sentry on the ranks count 1, 2, ... size.   *)
Chain(p, q, rk, sz) ==
    /\ p \in [Nodes -> Nodes] /\ q \in [Nodes -> Nodes]
    /\ sz \in Nat /\ rk \in [Objs -> 0..sz]
    /\ \A n \in Nodes : p[q[n]] = n /\ q[p[n]] = n
    /\ \A o \in Objs : rk[o] = 0 <=> p[o] = o
    /\ \A m, n \in Objs : rk[m] = rk[n] /\ rk[m] # 0 => m = n
    /\ \A k \in 1..sz : \E o \in Objs : rk[o] = k
    /\ \A o \in Objs : rk[o] # 0 =>
         IF q[o] = Sentry THEN rk[o] = sz ELSE rk[q[o]] = rk[o] + 1
    /\ q[Sentry] # Sentry => rk[q[Sentry]] = 1
IndInv ==
    /\ TypeOK /\ Chain(prev, next, rank, size)
    /\ size = Cardinality(Linked)
    /\ walk # "none" => it = next[Sentry]
    /\ \A m, n \in Linked : rank[m] <= rank[n] => last_activity[m] <= last_activity[n]
    /\ \A o \in Linked : last_activity[o] <= now
=============================================================================
