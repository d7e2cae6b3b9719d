------------------------- MODULE TimeoutListProofs -------------------------
(***************************************************************************)
(* Theorems about TimeoutList, for any finite set of objects and any       *)
(* timeout: the pointers always form one ring, in order of last activity,  *)
(* and the list is a TimeoutQueue.  What a detach and a push do to a chain *)
(* is proved once, for any pointer maps.                                   *)
(***************************************************************************)
EXTENDS TimeoutList, FiniteSetTheorems, TLAPS

(* The ranks that remain when n leaves a chain with ranks rk. *)
Without(rk, n) ==
    [o \in Objs |-> IF o = n THEN 0
                    ELSE IF rk[n] # 0 /\ rk[o] > rk[n] THEN rk[o] - 1
                    ELSE rk[o]]

(* A node of the list is not its own neighbour, and only the sentry can be  *)
(* both neighbours of a node.                                               *)
LEMMA Neighbours ==
    ASSUME TimeoutListAssumption, NEW p, NEW q, NEW rk, NEW sz, Chain(p, q, rk, sz),
           NEW n \in Objs, rk[n] # 0
    PROVE  /\ p[n] # n /\ q[n] # n
           /\ p[n] = q[n] => p[n] = Sentry
           /\ p[n] # Sentry => rk[p[n]] # 0 /\ rk[n] = rk[p[n]] + 1
           /\ q[n] # Sentry => rk[q[n]] # 0 /\ rk[q[n]] = rk[n] + 1
  <1>1. n \in Nodes /\ Sentry \in Nodes /\ p[n] \in Nodes /\ q[n] \in Nodes /\ n # Sentry
    BY DEF Nodes, Chain, TimeoutListAssumption
  <1>2. p[n] # n /\ q[n] # n
    BY <1>1 DEF Chain
  <1>3. q[n] # Sentry => rk[q[n]] # 0 /\ rk[q[n]] = rk[n] + 1
    BY <1>1 DEF Chain
  <1>4. p[n] # Sentry => rk[p[n]] # 0 /\ rk[n] = rk[p[n]] + 1
    <2> SUFFICES ASSUME p[n] # Sentry
                 PROVE  rk[p[n]] # 0 /\ rk[n] = rk[p[n]] + 1
      OBVIOUS
    <2>1. p[n] \in Objs /\ q[p[n]] = n
      BY <1>1 DEF Chain, Nodes
    <2>2. p[p[n]] # p[n]
      BY <1>1, <1>2, <2>1 DEF Chain
    <2> QED BY <1>1, <2>1, <2>2 DEF Chain
  <1>5. p[n] = q[n] => p[n] = Sentry
    <2>1. p[n] \in Nodes /\ rk[n] \in Nat
      BY <1>1 DEF Chain
    <2> QED BY <1>3, <1>4, <2>1
  <1> QED BY <1>2, <1>3, <1>4, <1>5

(* detach() of a member leaves a chain of the others. *)
LEMMA DetachKeeps ==
    ASSUME TimeoutListAssumption, NEW p, NEW q, NEW rk, NEW sz, Chain(p, q, rk, sz),
           NEW n \in Objs, rk[n] # 0
    PROVE  Chain(DetachPrev(p, q, n), DetachNext(p, q, n), Without(rk, n), sz - 1)
  <1> DEFINE a == p[n]
             b == q[n]
             P == [p EXCEPT ![b] = a, ![n] = n]
             Q == [q EXCEPT ![a] = b, ![n] = n]
             W == Without(rk, n)
  <1>1. /\ p \in [Nodes -> Nodes] /\ q \in [Nodes -> Nodes] /\ sz \in Nat /\ rk \in [Objs -> 0..sz]
        /\ \A x \in Nodes : p[q[x]] = x /\ q[p[x]] = x
        /\ n \in Nodes /\ Sentry \in Nodes /\ a \in Nodes /\ b \in Nodes /\ n # Sentry
        /\ q[a] = n /\ p[b] = n
        /\ \A x \in Nodes : x # Sentry => x \in Objs
        /\ \A x \in Objs : x \in Nodes /\ x # Sentry
    BY DEF Chain, Nodes, TimeoutListAssumption
  <1>2. /\ a # n /\ b # n /\ (a = b => a = Sentry)
        /\ a # Sentry => rk[a] # 0 /\ rk[n] = rk[a] + 1
        /\ b # Sentry => rk[b] # 0 /\ rk[b] = rk[n] + 1
    BY Neighbours
  <1>3. /\ P \in [Nodes -> Nodes] /\ P[b] = a /\ P[n] = n
        /\ \A x \in Nodes : x # b /\ x # n => P[x] = p[x]
        /\ Q \in [Nodes -> Nodes] /\ Q[a] = b /\ Q[n] = n
        /\ \A x \in Nodes : x # a /\ x # n => Q[x] = q[x]
    BY <1>1, <1>2
  <1>4. /\ W \in [Objs -> Nat] /\ W[n] = 0
        /\ \A o \in Objs : o # n /\ rk[o] > rk[n] => W[o] = rk[o] - 1
        /\ \A o \in Objs : o # n /\ rk[o] <= rk[n] => W[o] = rk[o]
    BY <1>1 DEF Without
  <1>5. P = DetachPrev(p, q, n) /\ Q = DetachNext(p, q, n)
    BY DEF DetachPrev, DetachNext
  <1>6. /\ \A o \in Objs : rk[o] \in 0..sz
        /\ \A o \in Objs : rk[o] = 0 <=> p[o] = o
        /\ \A x, y \in Objs : rk[x] = rk[y] /\ rk[x] # 0 => x = y
        /\ \A k \in 1..sz : \E o \in Objs : rk[o] = k
        /\ \A o \in Objs : rk[o] # 0 =>
             IF q[o] = Sentry THEN rk[o] = sz ELSE rk[q[o]] = rk[o] + 1
        /\ q[Sentry] # Sentry => rk[q[Sentry]] = 1
    BY DEF Chain
  <1> HIDE DEF a, b, P, Q, W
  <1>7. \A x \in Nodes : P[Q[x]] = x /\ Q[P[x]] = x
    <2> SUFFICES ASSUME NEW x \in Nodes PROVE P[Q[x]] = x /\ Q[P[x]] = x
      OBVIOUS
    <2>1. P[Q[x]] = x
      <3>1. CASE x = n \/ x = a
        BY <1>2, <1>3, <3>1
      <3>2. CASE x # n /\ x # a
        <4>1. q[x] # n /\ q[x] # b /\ q[x] \in Nodes
          BY <1>1, <3>2
        <4> QED BY <1>1, <1>3, <3>2, <4>1
      <3> QED BY <3>1, <3>2
    <2>2. Q[P[x]] = x
      <3>1. CASE x = n \/ x = b
        BY <1>2, <1>3, <3>1
      <3>2. CASE x # n /\ x # b
        <4>1. p[x] # n /\ p[x] # a /\ p[x] \in Nodes
          BY <1>1, <3>2
        <4> QED BY <1>1, <1>3, <3>2, <4>1
      <3> QED BY <3>1, <3>2
    <2> QED BY <2>1, <2>2
  <1>8. sz - 1 \in Nat /\ W \in [Objs -> 0..(sz - 1)]
    <2>1. rk[n] \in 1..sz
      BY <1>1
    <2>2. sz \in Nat /\ sz - 1 \in Nat
      BY <1>1, <2>1
    <2>3. ASSUME NEW o \in Objs PROVE W[o] \in 0..(sz - 1)
      <3>1. rk[o] \in 0..sz /\ (o # n => rk[o] # rk[n])
        BY <1>6, <2>1
      <3>2. CASE o = n
        BY <1>4, <2>2, <3>2
      <3>3. CASE o # n /\ rk[o] > rk[n]
        <4>1. W[o] = rk[o] - 1
          BY <1>4, <3>3
        <4> QED BY <2>1, <2>2, <3>1, <3>3, <4>1
      <3>4. CASE o # n /\ rk[o] <= rk[n]
        <4>1. W[o] = rk[o]
          BY <1>4, <3>4
        <4> QED BY <2>1, <2>2, <3>1, <3>4, <4>1
      <3> QED BY <2>1, <3>1, <3>2, <3>3, <3>4
    <2> QED BY <1>4, <2>2, <2>3
  <1>9. \A o \in Objs : W[o] = 0 <=> P[o] = o
    <2> SUFFICES ASSUME NEW o \in Objs PROVE W[o] = 0 <=> P[o] = o
      OBVIOUS
    <2>1. CASE o = n
      BY <1>3, <1>4, <2>1
    <2>2. CASE o # n /\ o = b
      <3>1. b # Sentry /\ rk[b] = rk[n] + 1 /\ b # a
        BY <1>1, <1>2, <2>2
      <3>2. rk[n] \in Nat /\ rk[n] # 0
        BY <1>1
      <3>3. W[b] = rk[b] - 1
        BY <1>4, <2>2, <3>1, <3>2
      <3>4. W[o] # 0 /\ P[o] # o
        BY <1>3, <2>2, <3>1, <3>2, <3>3
      <3> QED BY <3>4
    <2>3. CASE o # n /\ o # b
      <3>1. P[o] = p[o]
        BY <1>1, <1>3, <2>3
      <3>2. W[o] = 0 <=> rk[o] = 0
        BY <1>4, <1>6, <2>3
      <3> QED BY <1>6, <3>1, <3>2
    <2> QED BY <2>1, <2>2, <2>3
  <1>10. \A x, y \in Objs : W[x] = W[y] /\ W[x] # 0 => x = y
    BY <1>4, <1>6
  <1>11. \A k \in 1..(sz - 1) : \E o \in Objs : W[o] = k
    <2> SUFFICES ASSUME NEW k \in 1..(sz - 1) PROVE \E o \in Objs : W[o] = k
      OBVIOUS
    <2>1. rk[n] \in 1..sz /\ sz \in Nat
      BY <1>1
    <2>2. CASE k < rk[n]
      <3>1. PICK o \in Objs : rk[o] = k
        BY <1>6, <2>1
      <3> QED BY <1>4, <2>1, <2>2, <3>1
    <2>3. CASE k >= rk[n]
      <3>1. PICK o \in Objs : rk[o] = k + 1
        BY <1>6, <2>1
      <3> QED BY <1>4, <2>1, <2>3, <3>1
    <2> QED BY <2>1, <2>2, <2>3
  <1>12. \A o \in Objs : W[o] # 0 =>
           IF Q[o] = Sentry THEN W[o] = sz - 1 ELSE W[Q[o]] = W[o] + 1
    <2> SUFFICES ASSUME NEW o \in Objs, W[o] # 0
                 PROVE  IF Q[o] = Sentry THEN W[o] = sz - 1 ELSE W[Q[o]] = W[o] + 1
      OBVIOUS
    <2>1. o # n /\ o \in Nodes /\ rk[o] \in 1..sz /\ rk[n] \in 1..sz /\ rk[o] # rk[n] /\ sz \in Nat
      BY <1>1, <1>4, <1>6
    <2>2. CASE o = a
      <3>1. Q[o] = b /\ rk[n] = rk[o] + 1 /\ W[o] = rk[o]
        BY <1>1, <1>2, <1>3, <1>4, <2>1, <2>2
      <3>2. CASE b = Sentry
        BY <1>6, <2>1, <3>1, <3>2 DEF b
      <3>3. CASE b # Sentry
        <4>1. b \in Objs /\ rk[b] = rk[n] + 1
          BY <1>1, <1>2, <3>3
        <4> QED BY <1>2, <1>4, <2>1, <3>1, <3>3, <4>1
      <3> QED BY <3>2, <3>3
    <2>3. CASE o # a
      <3>1. Q[o] = q[o] /\ q[o] # n /\ q[o] \in Nodes
        BY <1>1, <1>3, <2>1, <2>3
      <3>2. CASE q[o] = Sentry
        BY <1>4, <1>6, <2>1, <3>1, <3>2
      <3>3. CASE q[o] # Sentry
        <4>1. q[o] \in Objs /\ rk[q[o]] = rk[o] + 1
          BY <1>1, <1>6, <2>1, <3>1, <3>3
        <4>2. rk[q[o]] # rk[n]
          BY <1>6, <2>1, <3>1, <4>1
        <4> QED BY <1>4, <2>1, <3>1, <3>3, <4>1, <4>2
      <3> QED BY <3>2, <3>3
    <2> QED BY <2>2, <2>3
  <1>13. Q[Sentry] # Sentry => W[Q[Sentry]] = 1
    <2> SUFFICES ASSUME Q[Sentry] # Sentry PROVE W[Q[Sentry]] = 1
      OBVIOUS
    <2>1. CASE a = Sentry
      <3>1. Q[Sentry] = b /\ b # Sentry /\ b \in Objs /\ rk[b] = rk[n] + 1 /\ rk[n] = 1
        BY <1>1, <1>2, <1>3, <1>6, <2>1
      <3> QED BY <1>2, <1>4, <3>1
    <2>2. CASE a # Sentry
      <3>1. Q[Sentry] = q[Sentry] /\ q[Sentry] \in Objs /\ q[Sentry] # n /\ rk[q[Sentry]] = 1
        BY <1>1, <1>3, <1>6, <2>2
      <3>2. rk[n] \in 1..sz
        BY <1>1
      <3> QED BY <1>4, <3>1, <3>2
    <2> QED BY <2>1, <2>2
  <1>14. Chain(P, Q, W, sz - 1)
    BY <1>3, <1>7, <1>8, <1>9, <1>10, <1>11, <1>12, <1>13 DEF Chain
  <1> QED BY <1>5, <1>14 DEF W

(* The first member has rank 1; there is none iff the size is 0. *)
LEMMA FirstMember ==
    ASSUME TimeoutListAssumption, NEW p, NEW q, NEW rk, NEW sz, Chain(p, q, rk, sz)
    PROVE  /\ q[Sentry] = Sentry => sz = 0
           /\ q[Sentry] # Sentry => q[Sentry] \in Objs /\ rk[q[Sentry]] = 1
  <1>1. sz \in Nat /\ Sentry \in Nodes /\ q[Sentry] \in Nodes
    BY DEF Chain, Nodes
  <1>2. ASSUME q[Sentry] = Sentry, sz # 0 PROVE FALSE
    <2>1. PICK o \in Objs : rk[o] = 1
      BY <1>1, <1>2 DEF Chain
    <2>2. o \in Nodes /\ o # Sentry /\ p[o] \in Nodes /\ q[p[o]] = o
      BY DEF Chain, Nodes, TimeoutListAssumption
    <2>3. p[o] # Sentry => rk[p[o]] # 0 /\ rk[o] = rk[p[o]] + 1
      BY <2>1, Neighbours
    <2>4. p[o] # Sentry => rk[p[o]] \in Nat
      BY <2>2 DEF Chain, Nodes
    <2>5. p[o] = Sentry
      BY <2>1, <2>3, <2>4
    <2> QED BY <1>2, <2>2, <2>5
  <1> QED BY <1>1, <1>2 DEF Chain, Nodes

(* push_back() of an object that is detached makes it the last of a chain.  *)
LEMMA PushKeeps ==
    ASSUME TimeoutListAssumption, NEW p, NEW q, NEW rk, NEW sz, Chain(p, q, rk, sz),
           NEW n \in Objs, rk[n] = 0
    PROVE  Chain(PushPrev(p, q, n), PushNext(p, q, n), [rk EXCEPT ![n] = sz + 1], sz + 1)
  <1> DEFINE l == p[Sentry]
             P == [p EXCEPT ![n] = l, ![Sentry] = n]
             Q == [q EXCEPT ![n] = Sentry, ![l] = n]
             R == [rk EXCEPT ![n] = sz + 1]
  <1>1. /\ p \in [Nodes -> Nodes] /\ q \in [Nodes -> Nodes] /\ sz \in Nat /\ rk \in [Objs -> 0..sz]
        /\ \A x \in Nodes : p[q[x]] = x /\ q[p[x]] = x
        /\ n \in Nodes /\ Sentry \in Nodes /\ l \in Nodes /\ n # Sentry
        /\ \A x \in Nodes : x # Sentry => x \in Objs
        /\ \A x \in Objs : x \in Nodes /\ x # Sentry
    BY DEF Chain, Nodes, TimeoutListAssumption
  <1>2. /\ \A o \in Objs : rk[o] \in 0..sz
        /\ \A o \in Objs : rk[o] = 0 <=> p[o] = o
        /\ \A x, y \in Objs : rk[x] = rk[y] /\ rk[x] # 0 => x = y
        /\ \A k \in 1..sz : \E o \in Objs : rk[o] = k
        /\ \A o \in Objs : rk[o] # 0 =>
             IF q[o] = Sentry THEN rk[o] = sz ELSE rk[q[o]] = rk[o] + 1
        /\ q[Sentry] # Sentry => rk[q[Sentry]] = 1
        /\ q[Sentry] = Sentry => sz = 0
    <2>1. q[Sentry] = Sentry => sz = 0
      BY FirstMember
    <2>2. \A o \in Objs : rk[o] \in 0..sz
      BY <1>1
    <2> QED BY <2>1, <2>2 DEF Chain
  <1>3. p[n] = n /\ q[n] = n /\ q[l] = Sentry /\ n # l /\ p[Sentry] = l
    BY <1>1, <1>2
  <1>4. /\ P \in [Nodes -> Nodes] /\ P[n] = l /\ P[Sentry] = n
        /\ \A x \in Nodes : x # n /\ x # Sentry => P[x] = p[x]
        /\ Q \in [Nodes -> Nodes] /\ Q[n] = Sentry /\ Q[l] = n
        /\ \A x \in Nodes : x # n /\ x # l => Q[x] = q[x]
    BY <1>1, <1>3
  <1>5. R \in [Objs -> Nat] /\ R[n] = sz + 1 /\ \A o \in Objs : o # n => R[o] = rk[o]
    BY <1>1
  <1>6. P = PushPrev(p, q, n) /\ Q = PushNext(p, q, n)
    BY <1>3 DEF PushPrev, PushNext
  <1> HIDE DEF l, P, Q, R
  <1>7. \A x \in Nodes : P[Q[x]] = x /\ Q[P[x]] = x
    <2> SUFFICES ASSUME NEW x \in Nodes PROVE P[Q[x]] = x /\ Q[P[x]] = x
      OBVIOUS
    <2>1. P[Q[x]] = x
      <3>1. CASE x = n \/ x = l
        BY <1>3, <1>4, <3>1
      <3>2. CASE x # n /\ x # l
        <4>1. q[x] # n /\ q[x] # Sentry /\ q[x] \in Nodes
          BY <1>1, <1>3, <3>2
        <4> QED BY <1>1, <1>4, <3>2, <4>1
      <3> QED BY <3>1, <3>2
    <2>2. Q[P[x]] = x
      <3>1. CASE x = n \/ x = Sentry
        BY <1>3, <1>4, <3>1
      <3>2. CASE x # n /\ x # Sentry
        <4>1. p[x] # n /\ p[x] # l /\ p[x] \in Nodes
          BY <1>1, <1>3, <3>2
        <4> QED BY <1>1, <1>4, <3>2, <4>1
      <3> QED BY <3>1, <3>2
    <2> QED BY <2>1, <2>2
  <1>8. sz + 1 \in Nat /\ R \in [Objs -> 0..(sz + 1)]
    <2>1. \A o \in Objs : R[o] \in 0..(sz + 1)
      BY <1>1, <1>2, <1>5
    <2> QED BY <1>1, <1>5, <2>1
  <1>9. \A o \in Objs : R[o] = 0 <=> P[o] = o
    BY <1>1, <1>2, <1>3, <1>4, <1>5
  <1>10. \A x, y \in Objs : R[x] = R[y] /\ R[x] # 0 => x = y
    BY <1>1, <1>2, <1>5
  <1>11. \A k \in 1..(sz + 1) : \E o \in Objs : R[o] = k
    <2> SUFFICES ASSUME NEW k \in 1..(sz + 1) PROVE \E o \in Objs : R[o] = k
      OBVIOUS
    <2>1. CASE k = sz + 1
      BY <1>5, <2>1
    <2>2. CASE k # sz + 1
      <3>1. k \in 1..sz
        BY <1>1, <2>2
      <3>2. PICK o \in Objs : rk[o] = k
        BY <1>2, <3>1
      <3> QED BY <1>5, <3>1, <3>2
    <2> QED BY <2>1, <2>2
  <1>12. \A o \in Objs : R[o] # 0 =>
           IF Q[o] = Sentry THEN R[o] = sz + 1 ELSE R[Q[o]] = R[o] + 1
    <2> SUFFICES ASSUME NEW o \in Objs, R[o] # 0
                 PROVE  IF Q[o] = Sentry THEN R[o] = sz + 1 ELSE R[Q[o]] = R[o] + 1
      OBVIOUS
    <2>1. CASE o = n
      BY <1>4, <1>5, <2>1
    <2>2. CASE o # n /\ o = l
      <3>1. rk[o] = sz
        BY <1>2, <1>3, <1>5, <2>2
      <3> QED BY <1>1, <1>4, <1>5, <2>2, <3>1
    <2>3. CASE o # n /\ o # l
      <3>1. Q[o] = q[o] /\ q[o] # n /\ q[o] # Sentry /\ q[o] \in Objs
        BY <1>1, <1>3, <1>4, <2>3
      <3> QED BY <1>2, <1>5, <2>3, <3>1
    <2> QED BY <2>1, <2>2, <2>3
  <1>13. Q[Sentry] # Sentry => R[Q[Sentry]] = 1
    <2>1. CASE l = Sentry
      <3>1. sz = 0 /\ Q[Sentry] = n
        BY <1>2, <1>3, <1>4, <2>1
      <3> QED BY <1>5, <3>1
    <2>2. CASE l # Sentry
      <3>1. Q[Sentry] = q[Sentry] /\ q[Sentry] # n /\ q[Sentry] \in Nodes
        BY <1>1, <1>3, <1>4, <2>2
      <3> QED BY <1>1, <1>2, <1>5, <3>1
    <2> QED BY <2>1, <2>2
  <1>14. Chain(P, Q, R, sz + 1)
    BY <1>4, <1>7, <1>8, <1>9, <1>10, <1>11, <1>12, <1>13 DEF Chain
  <1> QED BY <1>6, <1>14 DEF R

(* Taking a rank out does not reorder the others. *)
LEMMA WithoutOrder ==
    ASSUME NEW p, NEW q, NEW rk, NEW sz, Chain(p, q, rk, sz),
           NEW n \in Objs, NEW m \in Objs, NEW o \in Objs, rk[n] # 0, m # n, o # n,
           Without(rk, n)[m] <= Without(rk, n)[o]
    PROVE  rk[m] <= rk[o]
  <1> DEFINE x == rk[n]
             y == rk[m]
             z == rk[o]
  <1>1. x \in Nat /\ y \in Nat /\ z \in Nat /\ y # x /\ z # x
    BY DEF Chain
  <1>2. /\ Without(rk, n)[m] = IF y > x THEN y - 1 ELSE y
        /\ Without(rk, n)[o] = IF z > x THEN z - 1 ELSE z
    BY DEF Without
  <1> HIDE DEF x, y, z
  <1>3. y <= z
    BY <1>1, <1>2
  <1> QED BY <1>3 DEF y, z

(* The members are the objects with a rank; they are finitely many. *)
LEMMA Members ==
    ASSUME TimeoutListAssumption, IndInv
    PROVE  /\ Linked \subseteq Objs /\ IsFiniteSet(Linked)
           /\ \A o \in Objs : o \in Linked <=> rank[o] # 0
           /\ \A o \in Objs : IsLinked(o) <=> rank[o] # 0
           /\ \A o \in Objs : rank[o] \in 0..size
  <1>1. Linked \in SUBSET Objs
    BY DEF Linked
  <1>2. IsFiniteSet(Linked)
    BY <1>1, FS_Subset DEF TimeoutListAssumption
  <1>3. \A o \in Objs : IsLinked(o) <=> rank[o] # 0
    BY DEF IndInv, Chain, IsLinked
  <1>4. \A o \in Objs : rank[o] \in 0..size
    BY DEF IndInv, Chain
  <1> QED BY <1>1, <1>2, <1>3, <1>4 DEF Linked

(* The object each_timeouts() looks at first is the longest untouched.      *)
LEMMA Longest ==
    ASSUME TimeoutListAssumption, IndInv
    PROVE  /\ next[Sentry] = Sentry => Linked = {}
           /\ next[Sentry] # Sentry =>
                /\ next[Sentry] \in Linked
                /\ \A m \in Linked : last_activity[next[Sentry]] <= last_activity[m]
  <1>1. /\ next[Sentry] = Sentry => size = 0
        /\ next[Sentry] # Sentry => next[Sentry] \in Objs /\ rank[next[Sentry]] = 1
    <2>1. Chain(prev, next, rank, size)
      BY DEF IndInv
    <2> QED BY <2>1, FirstMember
  <1>2. next[Sentry] = Sentry => Linked = {}
    BY <1>1, Members
  <1>3. ASSUME next[Sentry] # Sentry, NEW m \in Linked
        PROVE  last_activity[next[Sentry]] <= last_activity[m]
    <2>1. rank[m] \in Nat /\ rank[m] # 0 /\ rank[next[Sentry]] = 1
      BY <1>1, <1>3, Members
    <2>2. next[Sentry] \in Linked /\ rank[next[Sentry]] <= rank[m]
      BY <1>1, <1>3, <2>1, Members
    <2> QED BY <2>2 DEF IndInv
  <1> QED BY <1>1, <1>2, <1>3, Members

(* Erasing a member leaves a chain of the others, in the same order. *)
LEMMA EraseKeeps ==
    ASSUME TimeoutListAssumption, IndInv, NEW n \in Objs, rank[n] # 0, Erase(n)
    PROVE  /\ Chain(prev', next', rank', size')
           /\ Linked' = Linked \ {n}
           /\ size' = Cardinality(Linked')
           /\ \A m, o \in Linked' : rank'[m] <= rank'[o] => last_activity[m] <= last_activity[o]
  <1>1. Chain(prev, next, rank, size)
    BY DEF IndInv
  <1>2. rank' = Without(rank, n) /\ size' = size - 1
    BY DEF Erase, RankWithout, Without
  <1>3. Chain(prev', next', rank', size')
    BY <1>1, <1>2, DetachKeeps DEF Erase
  <1>4. \A o \in Objs : o \in Linked' <=> rank'[o] # 0
    BY <1>3 DEF Chain, Linked, IsLinked
  <1>5. \A o \in Objs : rank'[o] # 0 <=> rank[o] # 0 /\ o # n
    BY <1>2, Members DEF Without
  <1>6. Linked' = Linked \ {n}
    BY <1>4, <1>5, Members DEF Linked
  <1>7. size' = Cardinality(Linked')
    <2>1. n \in Linked /\ IsFiniteSet(Linked) /\ size = Cardinality(Linked)
      BY Members DEF IndInv
    <2> QED BY <1>2, <1>6, <2>1, FS_RemoveElement
  <1>8. ASSUME NEW m \in Linked', NEW o \in Linked', rank'[m] <= rank'[o]
        PROVE  last_activity[m] <= last_activity[o]
    <2>1. m \in Linked /\ o \in Linked /\ m # n /\ o # n /\ m \in Objs /\ o \in Objs
      BY <1>6, <1>8, Members
    <2>2. rank[m] <= rank[o]
      BY <1>1, <1>2, <1>8, <2>1, WithoutOrder
    <2> QED BY <2>1, <2>2 DEF IndInv
  <1> QED BY <1>3, <1>6, <1>7, <1>8

(* touch() leaves a chain with the object last in it, whether it was a      *)
(* member or not, and the others in the same order.                         *)
LEMMA TouchKeeps ==
    ASSUME TimeoutListAssumption, IndInv, NEW n \in Objs, Touch(n)
    PROVE  /\ Chain(prev', next', rank', size')
           /\ Linked' = Linked \cup {n}
           /\ size' = Cardinality(Linked')
           /\ rank'[n] = size'
           /\ \A m, o \in Linked : m # n /\ o # n /\ rank'[m] <= rank'[o] => rank[m] <= rank[o]
  <1>1. Chain(prev, next, rank, size) /\ size \in Nat /\ rank \in [Objs -> Nat]
    BY DEF IndInv, TypeOK
  <1>2. /\ Chain(prev', next', rank', size')
        /\ rank'[n] = size'
        /\ \A o \in Objs : rank'[o] # 0 <=> rank[o] # 0 \/ o = n
        /\ size' = IF n \in Linked THEN size ELSE size + 1
        /\ \A m, o \in Linked : m # n /\ o # n /\ rank'[m] <= rank'[o] => rank[m] <= rank[o]
    <2>1. CASE rank[n] # 0
      <3> DEFINE W == Without(rank, n)
                 p == DetachPrev(prev, next, n)
                 q == DetachNext(prev, next, n)
      <3>1. Chain(p, q, W, size - 1) /\ W[n] = 0
        BY <1>1, <2>1, DetachKeeps DEF Without
      <3>2. /\ prev' = PushPrev(p, q, n) /\ next' = PushNext(p, q, n) /\ size' = size
            /\ rank' = [W EXCEPT ![n] = size] /\ n \in Linked
        BY <2>1, Members DEF Touch, RankWithout, Without
      <3>3. \A m, o \in Objs : m # n /\ o # n /\ W[m] <= W[o] => rank[m] <= rank[o]
        BY <1>1, <2>1, WithoutOrder
      <3>4. W \in [Objs -> 0..(size - 1)] /\ size \in Nat \ {0}
        BY <3>1, <1>1 DEF Chain
      <3>5. \A o \in Objs : o # n => (W[o] # 0 <=> rank[o] # 0)
        BY <1>1, <2>1 DEF Without
      <3> HIDE DEF W, p, q
      <3>6. size - 1 + 1 = size
        BY <1>1
      <3>7. Chain(PushPrev(p, q, n), PushNext(p, q, n), [W EXCEPT ![n] = size - 1 + 1], size - 1 + 1)
        BY <3>1, PushKeeps
      <3>8. Chain(prev', next', rank', size')
        BY <3>2, <3>6, <3>7
      <3>9. rank'[n] = size /\ \A o \in Objs : o # n => rank'[o] = W[o]
        BY <3>2, <3>4
      <3> QED BY <2>1, <3>2, <3>3, <3>4, <3>5, <3>8, <3>9, Members
    <2>2. CASE rank[n] = 0
      <3>1. Chain(PushPrev(prev, next, n), PushNext(prev, next, n), [rank EXCEPT ![n] = size + 1], size + 1)
        BY <1>1, <2>2, PushKeeps
      <3>2. /\ prev' = PushPrev(prev, next, n) /\ next' = PushNext(prev, next, n)
            /\ rank' = [rank EXCEPT ![n] = size + 1] /\ size' = size + 1 /\ n \notin Linked
        BY <2>2, Members DEF Touch
      <3>3. rank'[n] = size + 1 /\ \A o \in Objs : o # n => rank'[o] = rank[o]
        BY <1>1, <3>2
      <3>4. Chain(prev', next', rank', size')
        BY <3>1, <3>2
      <3> QED BY <1>1, <3>2, <3>3, <3>4, Members
    <2> QED BY <2>1, <2>2
  <1>3. Linked' = Linked \cup {n}
    <2>1. \A o \in Objs : o \in Linked' <=> rank'[o] # 0
      BY <1>2 DEF Chain, Linked, IsLinked
    <2> QED BY <1>2, <2>1, Members DEF Linked
  <1>4. size' = Cardinality(Linked')
    <2>1. IsFiniteSet(Linked) /\ size = Cardinality(Linked)
      BY Members DEF IndInv
    <2> QED BY <1>2, <1>3, <2>1, FS_AddElement
  <1> QED BY <1>2, <1>3, <1>4
-----------------------------------------------------------------------------
(* A list that was just made. *)
LEMMA InitKeeps ==
    ASSUME TimeoutListAssumption, Init PROVE IndInv
  <1>1. Linked = {}
    BY DEF Init, Linked, IsLinked, Nodes
  <1>2. size = Cardinality(Linked)
    BY <1>1, FS_EmptySet DEF Init
  <1>3. TypeOK
    BY DEF Init, TypeOK, Nodes, TimeoutListAssumption
  <1>4. Chain(prev, next, rank, size)
    BY DEF Init, Chain, Nodes, TimeoutListAssumption
  <1> QED BY <1>1, <1>2, <1>3, <1>4 DEF Init, IndInv

(* What the callers may do keeps the invariant, action by action. *)
LEMMA StepKeeps ==
    ASSUME TimeoutListAssumption, IndInv, [Next]_vars PROVE IndInv'
  <1>1. /\ TypeOK /\ Chain(prev, next, rank, size) /\ size = Cardinality(Linked)
        /\ walk # "none" => it = next[Sentry]
        /\ \A m, n \in Linked : rank[m] <= rank[n] => last_activity[m] <= last_activity[n]
        /\ \A o \in Linked : last_activity[o] <= now
    BY DEF IndInv
  <1>2. ASSUME NEW n \in Objs, Touch(n) PROVE IndInv'
    <2>1. /\ Chain(prev', next', rank', size') /\ Linked' = Linked \cup {n}
          /\ size' = Cardinality(Linked') /\ rank'[n] = size'
          /\ \A m, o \in Linked : m # n /\ o # n /\ rank'[m] <= rank'[o] => rank[m] <= rank[o]
      BY <1>2, TouchKeeps
    <2>2. /\ walk = "none" /\ UNCHANGED <<it, walk, next_check, now>>
          /\ last_activity' = [last_activity EXCEPT ![n] = now]
      BY <1>2 DEF Touch
    <2>3. TypeOK'
      BY <1>1, <2>1, <2>2 DEF TypeOK, Chain
    <2>4. /\ last_activity'[n] = now
          /\ \A o \in Linked : last_activity'[o] <= now /\ (o # n => last_activity'[o] = last_activity[o])
      BY <1>1, <2>2 DEF TypeOK, Linked
    <2>5. ASSUME NEW m \in Linked', NEW o \in Linked', rank'[m] <= rank'[o]
          PROVE  last_activity'[m] <= last_activity'[o]
      <3>1. CASE o = n
        BY <1>1, <2>1, <2>4, <3>1 DEF TypeOK
      <3>2. CASE o # n /\ m = n
        <4>1. rank'[o] = rank'[n] /\ rank'[n] # 0 /\ o \in Objs
          BY <2>1, <2>5, <3>2 DEF Chain, Linked, IsLinked
        <4> QED BY <2>1, <3>2, <4>1 DEF Chain
      <3>3. CASE o # n /\ m # n
        BY <1>1, <2>1, <2>4, <2>5, <3>3
      <3> QED BY <3>1, <3>2, <3>3
    <2>6. \A o \in Linked' : last_activity'[o] <= now'
      BY <1>1, <2>1, <2>2, <2>4 DEF TypeOK
    <2> QED BY <2>1, <2>2, <2>3, <2>5, <2>6 DEF IndInv
  <1>3. ASSUME NEW n \in Objs, rank[n] # 0, Erase(n), UNCHANGED <<last_activity, walk, next_check, now>>,
               it' \in Nodes, walk # "none" => it' = next'[Sentry]
        PROVE  IndInv'
    <2>1. /\ Chain(prev', next', rank', size') /\ Linked' = Linked \ {n}
          /\ size' = Cardinality(Linked')
          /\ \A m, o \in Linked' : rank'[m] <= rank'[o] => last_activity[m] <= last_activity[o]
      BY <1>3, EraseKeeps
    <2>2. TypeOK'
      BY <1>1, <1>3, <2>1 DEF TypeOK, Chain
    <2> QED BY <1>1, <1>3, <2>1, <2>2 DEF IndInv
  <1>4. ASSUME UNCHANGED <<prev, next, size, rank, last_activity>>,
               it' \in Nodes, walk' \in {"none", "timer", "force"}, walk' # "none" => it' = next[Sentry],
               next_check' \in Nat, now' \in Nat, now <= now'
        PROVE  IndInv'
    <2>1. Linked' = Linked
      BY <1>4 DEF Linked, IsLinked
    <2>2. TypeOK'
      BY <1>1, <1>4 DEF TypeOK
    <2>3. \A o \in Linked : last_activity[o] <= now'
      BY <1>1, <1>4 DEF TypeOK, Linked
    <2>4. Chain(prev', next', rank', size')
      BY <1>1, <1>4
    <2> QED BY <1>1, <1>4, <2>1, <2>2, <2>3, <2>4 DEF IndInv
  <1>5. ASSUME NEW n \in Objs, Remove(n) PROVE IndInv'
    <2>1. CASE rank[n] # 0
      <3>1. Erase(n)
        BY <1>5, <2>1, Members DEF Remove
      <3> QED BY <1>1, <1>3, <1>5, <2>1, <3>1 DEF Remove, TypeOK
    <2>2. CASE rank[n] = 0
      <3>1. UNCHANGED vars
        BY <1>5, <2>2, Members DEF Remove, vars
      <3> QED BY <1>1, <1>4, <3>1 DEF vars, TypeOK
    <2> QED BY <2>1, <2>2
  <1>6. CASE Tick
    BY <1>1, <1>4, <1>6 DEF Tick, TypeOK, listVars, TimeoutListAssumption
  <1>7. CASE Begin
    BY <1>1, <1>4, <1>7 DEF Begin, TypeOK, listVars, Nodes
  <1>8. CASE CallBack
    <2>1. it \in Linked /\ it = next[Sentry] /\ it \in Objs
      BY <1>1, <1>8, Longest, Members DEF CallBack
    <2>2. rank[it] # 0 /\ it \in Nodes /\ Sentry \in Nodes /\ it # Sentry
      BY <2>1, Members DEF Nodes, TimeoutListAssumption
    <2>3. prev[it] = Sentry
      BY <1>1, <2>1, <2>2 DEF Chain
    <2>4. next'[Sentry] = next[it] /\ next[it] \in Nodes
      BY <1>1, <1>8, <2>2, <2>3 DEF CallBack, Erase, DetachNext, TypeOK
    <2> QED BY <1>3, <1>8, <2>1, <2>2, <2>4 DEF CallBack
  <1>9. CASE End
    <2>1. next_check' \in Nat
      <3>1. CASE it # Sentry
        <4>1. it \in Objs /\ last_activity[it] \in Nat /\ now \in Nat /\ Timeout \in Nat
          BY <1>1, <3>1 DEF TypeOK, Nodes, TimeoutListAssumption
        <4>2. last_activity[it] + Timeout > now
          BY <1>9, <3>1, <4>1 DEF End, Overdue
        <4> QED BY <1>9, <3>1, <4>1, <4>2 DEF End
      <3>2. CASE it = Sentry
        BY <1>9, <3>2 DEF End, TimeoutListAssumption
      <3> QED BY <3>1, <3>2
    <2> QED BY <1>1, <1>4, <1>9, <2>1 DEF End, TypeOK, listVars, Nodes
  <1>10. CASE UNCHANGED vars
    BY <1>1, <1>4, <1>10 DEF vars, TypeOK
  <1> QED BY <1>2, <1>5, <1>6, <1>7, <1>8, <1>9, <1>10 DEF Next
-----------------------------------------------------------------------------
(* The inductive invariant: in every reachable state the pointers form one  *)
(* ring that the ranks count through, ordered by last activity.             *)
THEOREM Invariance == Spec => []IndInv
  <1>1. Init => IndInv
    BY InitKeeps, TimeoutListAssumption
  <1>2. IndInv /\ [Next]_vars => IndInv'
    BY StepKeeps, TimeoutListAssumption
  <1> QED BY <1>1, <1>2, PTL DEF Spec

(* However touch(), remove() and the walks follow each other, both          *)
(* directions of the list agree, size is the number of members, the         *)
(* iterator of a walk stands on a member, and the list is in order of last  *)
(* activity.                                                                *)
THEOREM ListCorrect == Spec => []ListOK
  <1>1. IndInv => ListOK
    <2> SUFFICES ASSUME IndInv PROVE ListOK
      OBVIOUS
    <2>1. Ring
      BY DEF IndInv, Chain, Ring
    <2>2. Sorted
      <3>1. ASSUME NEW m \in Linked, NEW n \in Linked, next[m] = n PROVE rank[n] = rank[m] + 1
        <4>1. m \in Objs /\ rank[m] # 0 /\ n \in Objs /\ n # Sentry
          BY Members, TimeoutListAssumption
        <4> QED BY <3>1, <4>1 DEF IndInv, Chain
      <3> QED BY <3>1 DEF IndInv, Sorted
    <2> QED BY <2>1, <2>2 DEF IndInv, ListOK
  <1> QED BY <1>1, Invariance, PTL

(* Every step of the pointer structure is a step of TimeoutQueue or leaves  *)
(* it unchanged: a walk calls back exactly the overdue objects, longest     *)
(* untouched first, and what it returns is when the next one is due.        *)
THEOREM Refinement == Spec => ImplementsQueue
  <1>1. Init => Queue!QueueInit
    BY DEF Init, Queue!QueueInit, Linked, IsLinked, Nodes
  <1>2. ASSUME IndInv, [Next]_vars PROVE [Queue!QueueNext]_(Queue!queueVars)
    <2>1. ASSUME NEW n \in Objs, Touch(n) PROVE Queue!Touched(n)
      <3>1. Linked' = Linked \cup {n}
        BY <1>2, <2>1, TouchKeeps, TimeoutListAssumption
      <3> QED BY <2>1, <3>1 DEF Touch, Queue!Touched
    <2>2. ASSUME NEW n \in Objs, Remove(n) PROVE Queue!Removed(n)
      <3>1. CASE rank[n] # 0
        <4>1. Erase(n)
          BY <1>2, <2>2, <3>1, Members, TimeoutListAssumption DEF Remove
        <4>2. Linked' = Linked \ {n}
          BY <1>2, <3>1, <4>1, EraseKeeps, TimeoutListAssumption
        <4> QED BY <2>2, <4>2 DEF Remove, Queue!Removed
      <3>2. CASE rank[n] = 0
        <4>1. n \notin Linked /\ UNCHANGED prev
          BY <1>2, <2>2, <3>2, Members, TimeoutListAssumption DEF Remove
        <4>2. Linked' = Linked
          BY <4>1 DEF Linked, IsLinked
        <4> QED BY <2>2, <4>1, <4>2 DEF Remove, Queue!Removed
      <3> QED BY <3>1, <3>2
    <2>3. CASE Tick
      <3>1. Linked' = Linked /\ now' > now
        BY <1>2, <2>3 DEF Tick, listVars, Linked, IsLinked, IndInv, TypeOK, TimeoutListAssumption
      <3> QED BY <2>3, <3>1 DEF Tick, listVars, Queue!TimePasses, Queue!QueueNext
    <2>4. CASE Begin
      <3>1. Linked' = Linked
        BY <2>4 DEF Begin, listVars, Linked, IsLinked
      <3> QED BY <2>4, <3>1 DEF Begin, listVars, Queue!WalkBegins, Queue!QueueNext
    <2>5. CASE CallBack
      <3>1. it = next[Sentry] /\ it # Sentry
        BY <1>2, <2>5 DEF CallBack, IndInv
      <3>2. /\ it \in Linked /\ \A m \in Linked : last_activity[it] <= last_activity[m]
            /\ it \in Objs /\ rank[it] # 0
        BY <1>2, <3>1, Longest, Members, TimeoutListAssumption
      <3>3. Linked' = Linked \ {it}
        BY <1>2, <2>5, <3>2, EraseKeeps, TimeoutListAssumption DEF CallBack
      <3>4. Queue!CalledBack(it)
        BY <2>5, <3>2, <3>3 DEF CallBack, Overdue, Queue!CalledBack, Queue!Overdue, Queue!Deadline
      <3> QED BY <3>2, <3>4 DEF Queue!QueueNext
    <2>6. CASE End
      <3>1. it = next[Sentry] /\ Linked' = Linked /\ now \in Nat /\ Timeout \in Nat
        BY <1>2, <2>6, TimeoutListAssumption DEF End, IndInv, TypeOK, listVars, Linked, IsLinked
      <3>2. CASE it = Sentry
        <4>1. Linked = {}
          BY <1>2, <3>1, <3>2, Longest, TimeoutListAssumption
        <4> QED BY <2>6, <3>1, <3>2, <4>1 DEF End, listVars, Queue!WalkEnds, Queue!QueueNext
      <3>3. CASE it # Sentry
        <4>1. /\ it \in Linked /\ it \in Objs
              /\ \A m \in Linked : last_activity[it] <= last_activity[m] /\ last_activity[m] \in Nat
          BY <1>2, <3>1, <3>3, Longest, Members, TimeoutListAssumption DEF IndInv, TypeOK
        <4>2. /\ walk # "force" /\ ~(last_activity[it] + Timeout <= now)
              /\ next_check' = last_activity[it] + Timeout - now
          BY <2>6, <3>3 DEF End, Overdue
        <4>3. now + next_check' = last_activity[it] + Timeout
          BY <3>1, <4>1, <4>2
        <4>4. ASSUME NEW m \in Linked
              PROVE  ~(last_activity[m] + Timeout <= now) /\ now + next_check' <= last_activity[m] + Timeout
          BY <3>1, <4>1, <4>2, <4>3
        <4> QED BY <2>6, <3>1, <4>1, <4>2, <4>3, <4>4
                DEF End, listVars, Queue!WalkEnds, Queue!Overdue, Queue!Deadline, Queue!QueueNext
      <3> QED BY <3>2, <3>3 DEF Queue!QueueNext
    <2>7. CASE UNCHANGED vars
      BY <2>7 DEF vars, Queue!queueVars, Linked, IsLinked
    <2> QED BY <1>2, <2>1, <2>2, <2>3, <2>4, <2>5, <2>6, <2>7 DEF Next, Queue!QueueNext
  <1> QED BY <1>1, <1>2, Invariance, PTL DEF Spec, ImplementsQueue, Queue!QueueSpec
=============================================================================
