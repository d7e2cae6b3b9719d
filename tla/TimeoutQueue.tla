---------------------------- MODULE TimeoutQueue ----------------------------
(***************************************************************************)
(* What a timeout list promises, with no list in sight: it is a set of     *)
(* objects and the time each was last touched.  A walk (each_timeouts)     *)
(* calls back every overdue object, longest untouched first, and no other, *)
(* and returns how long nobody else will be overdue.  TimeoutList          *)
(* implements it.                                                          *)
(***************************************************************************)
EXTENDS Integers

CONSTANTS Objs, Timeout

VARIABLES
    members,        \* the objects being timed
    last_activity,  \* when each was last touched
    now,            \* the clock
    walk,           \* "none", or the walk in progress: "timer" or "force"
    next_check      \* what the last walk returned

queueVars == <<members, last_activity, now, walk, next_check>>

Deadline(o) == last_activity[o] + Timeout

(* A forced walk passes INFINITY for the time.                              *)
Overdue(o) == walk = "force" \/ Deadline(o) <= now

QueueInit == members = {} /\ walk = "none"

Touched(o) ==
    /\ walk = "none"
    /\ members' = members \cup {o}
    /\ last_activity' = [last_activity EXCEPT ![o] = now]
    /\ UNCHANGED <<now, walk, next_check>>

Removed(o) ==
    /\ walk = "none"
    /\ members' = members \ {o}
    /\ UNCHANGED <<last_activity, now, walk, next_check>>

TimePasses ==
    /\ walk = "none" /\ now' > now
    /\ UNCHANGED <<members, last_activity, walk, next_check>>

WalkBegins ==
    /\ walk = "none" /\ walk' \in {"timer", "force"}
    /\ UNCHANGED <<members, last_activity, now, next_check>>

CalledBack(o) ==
    /\ walk # "none" /\ o \in members /\ Overdue(o)
    /\ \A m \in members : last_activity[o] <= last_activity[m]
    /\ members' = members \ {o}
    /\ UNCHANGED <<last_activity, now, walk, next_check>>

WalkEnds ==
    /\ walk # "none" /\ walk' = "none"
    /\ \A m \in members : ~Overdue(m) /\ now + next_check' <= Deadline(m)
    /\ \/ members = {} /\ next_check' = Timeout
       \/ \E m \in members : now + next_check' = Deadline(m)
    /\ UNCHANGED <<members, last_activity, now>>

QueueNext ==
    \/ \E o \in Objs : Touched(o) \/ Removed(o) \/ CalledBack(o)
    \/ TimePasses \/ WalkBegins \/ WalkEnds

QueueSpec == QueueInit /\ [][QueueNext]_queueVars
=============================================================================
