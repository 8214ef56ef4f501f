------------------------- MODULE ControlPlaneProofs -------------------------
(***************************************************************************)
(* The queue of prompts and steers, for any number of commands: commands   *)
(* reach the transcript as they were shown, and steers in their order.     *)
(* Facts about queues of any length are proved by induction, in the form   *)
(* of a least number that fails.                                           *)
(***************************************************************************)
EXTENDS ControlPlane, WellFoundedInduction, TLAPS

(* A set of numbers that is not empty has a least one: what the inductions below use,
   over the least number they would fail for. *)
LEMMA NatMin ==
    ASSUME NEW T \in SUBSET Nat, T # {}
    PROVE  \E m \in T : \A k \in T : m <= k
<1>1. IsWellFoundedOn(OpToRel(<, Nat), Nat)  BY NatLessThanWellFounded, Zenon
<1>2. PICK x \in T : \A y \in T : ~(<<y, x>> \in OpToRel(<, Nat))
  BY <1>1, WFMin, Zenon
<1>3. \A y \in T : ~(y < x)
  BY <1>2, Zenon DEF OpToRel
<1> QED BY <1>3

(* g is Kept's recursion over the first m elements of q. *)
Recurs(g, q, T, m) ==
    g = [n \in 0..m |-> IF n = 0 THEN <<>>
                        ELSE IF q[n] \in T THEN Append(g[n - 1], q[n]) ELSE g[n - 1]]

(* The recursion by which Kept is defined has a solution over the first l elements. *)
LEMMA RecursExists ==
    ASSUME NEW S, NEW q \in Seq(S), NEW T, NEW l \in Nat
    PROVE  \E g : Recurs(g, q, T, l)
<1> DEFINE Bad == {m \in Nat : ~\E g : Recurs(g, q, T, m)}
<1> SUFFICES ASSUME l \in Bad PROVE FALSE
  OBVIOUS
<1>1. PICK m \in Bad : \A k \in Bad : m <= k
  BY NatMin, Zenon
<1>2. m # 0
  <2> SUFFICES ASSUME m = 0 PROVE FALSE
    OBVIOUS
  <2>1. Recurs([n \in 0..0 |-> <<>>], q, T, 0)
    BY DEF Recurs
  <2> QED BY <2>1
<1>3. m - 1 \in Nat /\ m - 1 \notin Bad
  BY <1>1, <1>2
<1>4. PICK g : Recurs(g, q, T, m - 1)
  BY <1>3
<1> DEFINE h == [n \in 0..m |-> IF n = m THEN IF q[m] \in T THEN Append(g[m - 1], q[m]) ELSE g[m - 1]
                                ELSE g[n]]
<1>5. Recurs(h, q, T, m)
  <2>1. \A n \in 0..(m - 1) : h[n] = g[n]
    BY <1>3
  <2>2. \A n \in 0..m : h[n] = IF n = 0 THEN <<>>
                               ELSE IF q[n] \in T THEN Append(h[n - 1], q[n]) ELSE h[n - 1]
    <3> SUFFICES ASSUME NEW n \in 0..m
                 PROVE h[n] = IF n = 0 THEN <<>>
                              ELSE IF q[n] \in T THEN Append(h[n - 1], q[n]) ELSE h[n - 1]
      BY Zenon
    <3>1. CASE n = m
      <4>1. n # 0 /\ n - 1 \in 0..(m - 1)
        BY <3>1, <1>2
      <4>2. h[n - 1] = g[n - 1]
        BY <4>1, <2>1
      <4> QED BY <3>1, <4>1, <4>2
    <3>2. CASE n # m /\ n # 0
      <4>1. n \in 0..(m - 1) /\ n - 1 \in 0..(m - 1)
        BY <3>2
      <4>2. g[n] = IF q[n] \in T THEN Append(g[n - 1], q[n]) ELSE g[n - 1]
        BY <1>4, <4>1, <3>2, Zenon DEF Recurs
      <4> HIDE DEF h
      <4> QED BY <4>1, <4>2, <2>1, <3>2
    <3>3. CASE n = 0 /\ n # m
      <4>1. h[0] = g[0]
        BY <2>1, <1>3
      <4>2. g[0] = <<>>
        BY <1>4, <1>3 DEF Recurs
      <4> QED BY <4>1, <4>2, <3>3
    <3> QED BY <3>1, <3>2, <3>3
  <2>3. h = [n \in 0..m |-> h[n]]
    OBVIOUS
  <2> HIDE DEF h
  <2> QED BY <2>2, <2>3, Zenon DEF Recurs
<1> QED BY <1>5

(* t is what T has of the first m elements of q, in their order *)
Filters(t, q, T, m) ==
    \E e \in [1..Len(t) -> 1..m] :
        /\ \A i, j \in 1..Len(t) : i < j => e[i] < e[j]
        /\ \A i \in 1..Len(t) : t[i] = q[e[i]] /\ q[e[i]] \in T
        /\ \A k \in 1..m : q[k] \in T => \E i \in 1..Len(t) : e[i] = k

(* Kept(q, T) is the subsequence of q of the elements in T: the filter and the retain of
   the queue leave the others, and leave them in their order. *)
LEMMA KeptFilters ==
    ASSUME NEW S, NEW q \in Seq(S), NEW T
    PROVE  Kept(q, T) \in Seq(S) /\ Filters(Kept(q, T), q, T, Len(q))
<1>1. \E g : Recurs(g, q, T, Len(q))
  BY RecursExists
<1> DEFINE f == CHOOSE g : g = [n \in 0..Len(q) |-> IF n = 0 THEN <<>>
                       ELSE IF q[n] \in T THEN Append(g[n - 1], q[n]) ELSE g[n - 1]]
<1>2. Recurs(f, q, T, Len(q))
  BY <1>1, Zenon DEF Recurs
<1>3. Kept(q, T) = f[Len(q)]
  BY DEF Kept
<1> HIDE DEF f
<1>4. PICK g : Recurs(g, q, T, Len(q)) /\ Kept(q, T) = g[Len(q)]
  BY <1>2, <1>3
<1>5. /\ g[0] = <<>>
      /\ \A n \in 1..Len(q) : g[n] = IF q[n] \in T THEN Append(g[n - 1], q[n]) ELSE g[n - 1]
  <2>0. Len(q) \in Nat
    OBVIOUS
  <2>1. g = [n \in 0..Len(q) |-> IF n = 0 THEN <<>>
                                    ELSE IF q[n] \in T THEN Append(g[n - 1], q[n]) ELSE g[n - 1]]
    BY <1>4, Zenon DEF Recurs
  <2>2. \A n \in 0..Len(q) : g[n] = IF n = 0 THEN <<>>
                                    ELSE IF q[n] \in T THEN Append(g[n - 1], q[n]) ELSE g[n - 1]
    BY <2>1, Zenon
  <2>3. 0 \in 0..Len(q) /\ \A n \in 1..Len(q) : n \in 0..Len(q) /\ n # 0
    BY <2>0
  <2> QED BY <2>2, <2>3
<1> DEFINE Good(m) == g[m] \in Seq(S) /\ Filters(g[m], q, T, m)
           Bad == {m \in 0..Len(q) : ~Good(m)}
<1>6. Good(0)
  <2>1. g[0] = <<>> /\ g[0] \in Seq(S) /\ Len(g[0]) = 0 /\ 1..Len(g[0]) = {} /\ 1..0 = {}
    BY <1>5
  <2>2. [i \in {} |-> 0] \in [{} -> {}]
    OBVIOUS
  <2>3. Filters(g[0], q, T, 0)
    BY <2>1, <2>2, Zenon DEF Filters
  <2> QED BY <2>1, <2>3
<1>7. ASSUME NEW m \in 1..Len(q), Good(m - 1)
      PROVE  Good(m)
  <2>0. Len(q) \in Nat /\ m \in Nat /\ m - 1 \in Nat /\ q[m] \in S
    OBVIOUS
  <2> DEFINE t == g[m - 1]
  <2>1. t \in Seq(S) /\ Len(t) \in Nat
    BY <1>7
  <2>2. PICK e \in [1..Len(t) -> 1..(m - 1)] :
          /\ \A i, j \in 1..Len(t) : i < j => e[i] < e[j]
          /\ \A i \in 1..Len(t) : t[i] = q[e[i]] /\ q[e[i]] \in T
          /\ \A k \in 1..(m - 1) : q[k] \in T => \E i \in 1..Len(t) : e[i] = k
    BY <1>7, Zenon DEF Filters
  <2> HIDE DEF t, Good
  <2>3. CASE q[m] \notin T
    <3>1. g[m] = t
      BY <1>5, <2>3 DEF t
    <3>2. e \in [1..Len(t) -> 1..m]
      BY <2>0
    <3>3. \A k \in 1..m : q[k] \in T => \E i \in 1..Len(t) : e[i] = k
      BY <2>0, <2>2, <2>3
    <3>4. Filters(t, q, T, m)
      BY <3>2, <3>3, <2>2, Zenon DEF Filters
    <3> QED BY <3>1, <3>4, <2>1 DEF Good
  <2>4. CASE q[m] \in T
    <3>1. g[m] = Append(t, q[m])
      BY <1>5, <2>4, Zenon DEF t
    <3>2. PICK u : u = Append(t, q[m])
      BY Zenon
    <3>3. u \in Seq(S) /\ Len(u) = Len(t) + 1 /\ u[Len(t) + 1] = q[m] /\ \A i \in 1..Len(t) : u[i] = t[i]
      BY <2>0, <2>1, <3>2
    <3> DEFINE d == [i \in 1..Len(u) |-> IF i = Len(t) + 1 THEN m ELSE e[i]]
    <3>4. d \in [1..Len(u) -> 1..m] /\ d[Len(t) + 1] = m /\ \A i \in 1..Len(t) : d[i] = e[i] /\ d[i] < m
      <4>1. \A i \in 1..Len(t) : i \in 1..Len(u) /\ i # Len(t) + 1 /\ e[i] \in 1..(m - 1)
        BY <2>1, <3>3, SMTT(30)
      <4>2. \A i \in 1..Len(u) : i = Len(t) + 1 \/ i \in 1..Len(t)
        BY <2>1, <3>3
      <4>3. Len(t) + 1 \in 1..Len(u)
        BY <2>1, <3>3
      <4>4. \A x \in 1..(m - 1) : x \in 1..m /\ x < m
        BY <2>0
      <4> QED BY <4>1, <4>2, <4>3, <4>4, <2>0
    <3> HIDE DEF d
    <3>5. \A i, j \in 1..Len(u) : i < j => d[i] < d[j]
      <4> SUFFICES ASSUME NEW i \in 1..Len(u), NEW j \in 1..Len(u), i < j
                   PROVE  d[i] < d[j]
        OBVIOUS
      <4>1. i \in 1..Len(t)
        BY <2>1, <3>3
      <4>2. CASE j = Len(t) + 1
        BY <4>1, <4>2, <3>4, Zenon
      <4>3. CASE j \in 1..Len(t)
        BY <4>1, <4>3, <2>2, <3>4
      <4>4. j = Len(t) + 1 \/ j \in 1..Len(t)
        <5>1. Len(u) = Len(t) + 1 /\ Len(t) \in Nat
          BY <2>1, <3>3
        <5> QED BY <5>1
      <4> QED BY <4>2, <4>3, <4>4
    <3>6. \A i \in 1..Len(u) : u[i] = q[d[i]] /\ q[d[i]] \in T
      <4>1. \A i \in 1..Len(t) : u[i] = q[d[i]] /\ q[d[i]] \in T
        BY <2>2, <3>3, <3>4, Zenon
      <4>2. u[Len(t) + 1] = q[d[Len(t) + 1]] /\ q[d[Len(t) + 1]] \in T
        BY <2>4, <3>3, <3>4, Zenon
      <4>3. \A i \in 1..Len(u) : i = Len(t) + 1 \/ i \in 1..Len(t)
        BY <2>1, <3>3
      <4> QED BY <4>1, <4>2, <4>3, Zenon
    <3>7. \A k \in 1..m : q[k] \in T => \E i \in 1..Len(u) : d[i] = k
      <4> SUFFICES ASSUME NEW k \in 1..m, q[k] \in T
                   PROVE  \E i \in 1..Len(u) : d[i] = k
        OBVIOUS
      <4>1. CASE k = m
        BY <4>1, <2>1, <3>3, <3>4, SMTT(30)
      <4>2. CASE k # m
        <5>1. k \in 1..(m - 1)
          BY <4>2, <2>0
        <5>2. PICK i \in 1..Len(t) : e[i] = k
          BY <5>1, <2>2
        <5> QED BY <5>2, <2>1, <3>3, <3>4
      <4> QED BY <4>1, <4>2
    <3>8. Filters(u, q, T, m)
      BY <3>4, <3>5, <3>6, <3>7, Zenon DEF Filters
    <3> QED BY <3>1, <3>2, <3>3, <3>8 DEF Good
  <2> QED BY <2>3, <2>4
<1>8. Good(Len(q))
  <2> SUFFICES ASSUME Bad # {} PROVE FALSE
    OBVIOUS
  <2>1. PICK m \in Bad : \A k \in Bad : m <= k
    <3>1. Bad \in SUBSET Nat
      OBVIOUS
    <3> HIDE DEF Bad
    <3> QED BY <3>1, NatMin
  <2> HIDE DEF Good
  <2>2. m \in 1..Len(q) /\ m - 1 \in 0..Len(q)
    BY <1>6
  <2>3. Good(m - 1)
    BY <2>1, <2>2
  <2> QED BY <2>2, <2>3, <1>7
<1> QED BY <1>4, <1>8
-----------------------------------------------------------------------------
(* A command of the queue. *)
Commands == [id : Nat, kind : {"prompt", "steer"}, text : {0, 1}]

(* The ids rise along q, and along the steers of q *)
Increasing(q) == \A j, k \in DOMAIN q : j < k => q[j].id < q[k].id
InOrder(q, st) == \A j, k \in DOMAIN q : j < k =>
    q[j].id # q[k].id /\ (q[j].id \in st /\ q[k].id \in st => q[j].id < q[k].id)

(* No command of q is in r, and the steers of q were issued before those of r *)
Apart(q, r, st) == \A j \in DOMAIN q, k \in DOMAIN r :
    q[j].id # r[k].id /\ (q[j].id \in st /\ r[k].id \in st => q[j].id < r[k].id)

(* A command as it was issued and last shown, not withdrawn *)
AsShown(c, n, st, lat, wd) ==
    /\ c \in Commands
    /\ c.id \in 1..n /\ c.text = lat[c.id] /\ c.id \notin wd
    /\ (c.kind = "steer" <=> c.id \in st)
AllAsShown(q, n, st, lat, wd) == \A k \in DOMAIN q : AsShown(q[k], n, st, lat, wd)

(* The commands flow from the queue q through the prompt d into the transcript a *)
Flow(a, d, q, n, st, lat, wd) ==
    /\ a \in Seq(Commands) /\ d \in Seq(Commands) /\ q \in Seq(Commands)
    /\ AllAsShown(a, n, st, lat, wd) /\ AllAsShown(d, n, st, lat, wd) /\ AllAsShown(q, n, st, lat, wd)
    /\ InOrder(a, st) /\ Increasing(d) /\ Increasing(q)
    /\ Apart(a, d, st) /\ Apart(a, q, st) /\ Apart(d, q, st)

(* Every element of x is one of q. *)
From(x, q) == \A i \in DOMAIN x : \E j \in DOMAIN q : x[i] = q[j]

(* Commands taken from the prompt or the queue flow on as they did. *)
LEMMA FlowTakes ==
    ASSUME NEW a, NEW b, NEW d, NEW q, NEW r, NEW n, NEW st, NEW lat, NEW wd,
           Flow(a, b, q, n, st, lat, wd), d \in Seq(Commands), r \in Seq(Commands),
           From(d, b) \/ From(d, q), From(r, q), Increasing(d), Increasing(r), Apart(d, r, st)
    PROVE  Flow(a, d, r, n, st, lat, wd)
<1> USE DEF Flow
<1>1. AllAsShown(d, n, st, lat, wd) /\ AllAsShown(r, n, st, lat, wd)
  BY DEF AllAsShown, From
<1>2. Apart(a, d, st) /\ Apart(a, r, st)
  BY DEF Apart, From
<1> QED BY <1>1, <1>2

(* The prompt reaches the transcript (submit_user_message, append_steer). *)
LEMMA FlowApplies ==
    ASSUME NEW a, NEW d, NEW q, NEW n, NEW st, NEW lat, NEW wd,
           Flow(a, d, q, n, st, lat, wd)
    PROVE  Flow(a \o d, <<>>, q, n, st, lat, wd)
<1> USE DEF Flow
<1>1. PICK x : x = a \o d
  BY Zenon
<1>2. /\ x \in Seq(Commands) /\ Len(x) = Len(a) + Len(d) /\ DOMAIN x = 1..Len(x)
      /\ DOMAIN a = 1..Len(a) /\ DOMAIN d = 1..Len(d) /\ Len(a) \in Nat /\ Len(d) \in Nat
      /\ \A i \in DOMAIN a : x[i] = a[i]
      /\ \A i \in DOMAIN x : i > Len(a) => i - Len(a) \in DOMAIN d /\ x[i] = d[i - Len(a)]
  BY <1>1
<1>3. \A i \in DOMAIN x : i \in DOMAIN a \/ (i > Len(a) /\ i - Len(a) \in DOMAIN d)
  BY <1>2
<1>4. AllAsShown(x, n, st, lat, wd) /\ Apart(x, q, st)
  BY <1>2, <1>3, SMTT(30) DEF AllAsShown, Apart
<1>5. InOrder(x, st)
  <2> SUFFICES ASSUME NEW j \in DOMAIN x, NEW k \in DOMAIN x, j < k
               PROVE  x[j].id # x[k].id /\ (x[j].id \in st /\ x[k].id \in st => x[j].id < x[k].id)
    BY DEF InOrder
  <2>1. CASE k \in DOMAIN a
    <3>1. j \in DOMAIN a
      BY <2>1, <1>2
    <3> QED BY <2>1, <3>1, <1>2 DEF InOrder
  <2>2. CASE k > Len(a) /\ j \in DOMAIN a
    BY <2>2, <1>2 DEF Apart
  <2>3. CASE k > Len(a) /\ j > Len(a)
    <3>1. PICK i \in DOMAIN d, l \in DOMAIN d : i < l /\ x[j] = d[i] /\ x[k] = d[l]
      BY <2>3, <1>2
    <3>2. d[i].id < d[l].id /\ d[i].id \in Nat /\ d[l].id \in Nat
      BY <3>1 DEF Increasing, AllAsShown, AsShown, Commands
    <3> QED BY <3>1, <3>2
  <2> QED BY <2>1, <2>2, <2>3, <1>3
<1>6. AllAsShown(<<>>, n, st, lat, wd) /\ Increasing(<<>>) /\ Apart(x, <<>>, st) /\ Apart(<<>>, q, st)
      /\ <<>> \in Seq(Commands)
  BY DEF AllAsShown, Increasing, Apart
<1> HIDE DEF Flow
<1>7. Flow(x, <<>>, q, n, st, lat, wd)
  BY <1>2, <1>4, <1>5, <1>6 DEF Flow
<1> QED BY <1>1, <1>7

(* The operator issues another command, a prompt or a steer. *)
LEMMA FlowIssues ==
    ASSUME NEW a, NEW d, NEW q, NEW n \in Nat, NEW st, NEW lat, NEW wd,
           Flow(a, d, q, n, st, lat, wd), NEW more \in {{}, {n + 1}}
    PROVE  Flow(a, d, q, n + 1, st \cup more, lat, wd)
<1> USE DEF Flow
<1>1. ASSUME NEW x, AllAsShown(x, n, st, lat, wd)
      PROVE  /\ AllAsShown(x, n + 1, st \cup more, lat, wd)
             /\ \A k \in DOMAIN x : x[k].id \in st <=> x[k].id \in st \cup more
  BY <1>1 DEF AllAsShown, AsShown
<1>2. /\ AllAsShown(a, n + 1, st \cup more, lat, wd) /\ AllAsShown(d, n + 1, st \cup more, lat, wd)
      /\ AllAsShown(q, n + 1, st \cup more, lat, wd)
      /\ \A k \in DOMAIN a : a[k].id \in st <=> a[k].id \in st \cup more
      /\ \A k \in DOMAIN d : d[k].id \in st <=> d[k].id \in st \cup more
      /\ \A k \in DOMAIN q : q[k].id \in st <=> q[k].id \in st \cup more
  BY <1>1, Zenon
<1> DEFINE new == st \cup more
<1> HIDE DEF new
<1>3. InOrder(a, new) /\ Apart(a, d, new) /\ Apart(a, q, new) /\ Apart(d, q, new)
  BY <1>2 DEF InOrder, Apart, new
<1> QED BY <1>2, <1>3 DEF new

(* A new command is started at once (start_turn_message, start_command). *)
LEMMA FlowStarts ==
    ASSUME NEW a, NEW q, NEW n \in Nat, NEW st, NEW lat, NEW wd, NEW c,
           Flow(a, <<>>, q, n, st, lat, wd), NEW more \in {{}, {n + 1}},
           c.id = n + 1, AsShown(c, n + 1, st \cup more, lat, wd),
           c.id \in st \cup more => \A k \in DOMAIN q : q[k].id \notin st
    PROVE  Flow(a, <<c>>, q, n + 1, st \cup more, lat, wd)
<1>1. Flow(a, <<>>, q, n + 1, st \cup more, lat, wd)
  BY FlowIssues, Zenon
<1>2. /\ \A k \in DOMAIN a : a[k].id \in 1..n
      /\ \A k \in DOMAIN q : q[k].id \in 1..n
  BY DEF Flow, AllAsShown, AsShown
<1>3. c \in Commands /\ <<c>> \in Seq(Commands) /\ DOMAIN <<c>> = {1} /\ <<c>>[1] = c
  BY DEF AsShown
<1> DEFINE d == <<c>>
<1>4. d \in Seq(Commands) /\ DOMAIN d = {1} /\ d[1] = c
  BY <1>3
<1> HIDE DEF d
<1>5. AllAsShown(d, n + 1, st \cup more, lat, wd) /\ Increasing(d)
  BY <1>4 DEF AllAsShown, Increasing
<1>6. Apart(a, d, st \cup more)
  BY <1>2, <1>4 DEF Apart
<1>7. Apart(d, q, st \cup more)
  BY <1>2, <1>4 DEF Apart
<1> QED BY <1>1, <1>4, <1>5, <1>6, <1>7 DEF Flow, d

(* A new command goes to the end of the queue (push). *)
LEMMA FlowQueues ==
    ASSUME NEW a, NEW d, NEW q, NEW n \in Nat, NEW st, NEW lat, NEW wd, NEW c,
           Flow(a, d, q, n, st, lat, wd), NEW more \in {{}, {n + 1}},
           c.id = n + 1, AsShown(c, n + 1, st \cup more, lat, wd)
    PROVE  Flow(a, d, Append(q, c), n + 1, st \cup more, lat, wd)
<1>1. Flow(a, d, q, n + 1, st \cup more, lat, wd)
  BY FlowIssues, Zenon
<1>2. /\ \A k \in DOMAIN a : a[k].id \in 1..n
      /\ \A k \in DOMAIN d : d[k].id \in 1..n
      /\ \A k \in DOMAIN q : q[k].id \in 1..n
      /\ q \in Seq(Commands)
  BY DEF Flow, AllAsShown, AsShown
<1>3. c \in Commands
  BY DEF AsShown
<1>4. PICK r : r = Append(q, c)
  BY Zenon
<1>5. /\ r \in Seq(Commands) /\ Len(q) \in Nat /\ DOMAIN q = 1..Len(q) /\ DOMAIN r = 1..(Len(q) + 1)
      /\ r[Len(q) + 1] = c /\ \A k \in DOMAIN q : r[k] = q[k]
  BY <1>2, <1>3, <1>4
<1>6. \A k \in DOMAIN r : k = Len(q) + 1 \/ k \in DOMAIN q
  BY <1>5
<1>7. AllAsShown(r, n + 1, st \cup more, lat, wd)
  BY <1>1, <1>5, <1>6, Zenon DEF AllAsShown, Flow
<1>8. Increasing(r)
  <2> SUFFICES ASSUME NEW j \in DOMAIN r, NEW k \in DOMAIN r, j < k
               PROVE  r[j].id < r[k].id
    BY DEF Increasing
  <2>1. j \in DOMAIN q
    BY <1>5
  <2>2. CASE k = Len(q) + 1
    BY <2>1, <2>2, <1>2, <1>5
  <2>3. CASE k \in DOMAIN q
    BY <2>1, <2>3, <1>1, <1>5, SMTT(30) DEF Flow, Increasing
  <2> QED BY <2>2, <2>3, <1>6
<1>9. Apart(a, r, st \cup more) /\ Apart(d, r, st \cup more)
  <2>1. ASSUME NEW x, Apart(x, q, st \cup more), \A k \in DOMAIN x : x[k].id \in 1..n
        PROVE  Apart(x, r, st \cup more)
    <3> SUFFICES ASSUME NEW j \in DOMAIN x, NEW k \in DOMAIN r
                 PROVE  /\ x[j].id # r[k].id
                        /\ x[j].id \in st \cup more /\ r[k].id \in st \cup more => x[j].id < r[k].id
      BY DEF Apart
    <3>1. CASE k = Len(q) + 1
      BY <2>1, <3>1, <1>5
    <3>2. CASE k \in DOMAIN q
      BY <2>1, <3>2, <1>5 DEF Apart
    <3> QED BY <3>1, <3>2, <1>6
  <2> QED BY <2>1, <1>1, <1>2, Zenon DEF Flow
<1>10. Flow(a, d, r, n + 1, st \cup more, lat, wd)
  BY <1>1, <1>5, <1>7, <1>8, <1>9 DEF Flow
<1> QED BY <1>4, <1>10

(* What is kept of a queue are commands of it, all that qualify, in their order. *)
LEMMA KeptCommands ==
    ASSUME NEW q \in Seq(Commands), NEW T
    PROVE  /\ Kept(q, T) \in Seq(Commands) /\ From(Kept(q, T), q)
           /\ \A i \in DOMAIN Kept(q, T) : Kept(q, T)[i] \in T
           /\ \A j \in DOMAIN q : q[j] \in T => \E i \in DOMAIN Kept(q, T) : Kept(q, T)[i] = q[j]
           /\ Increasing(q) => Increasing(Kept(q, T))
<1>1. Kept(q, T) \in Seq(Commands) /\ Filters(Kept(q, T), q, T, Len(q))
  BY KeptFilters
<1>2. PICK t : t = Kept(q, T)
  OBVIOUS
<1>3. PICK e \in [1..Len(t) -> 1..Len(q)] :
        /\ \A i, j \in 1..Len(t) : i < j => e[i] < e[j]
        /\ \A i \in 1..Len(t) : t[i] = q[e[i]] /\ q[e[i]] \in T
        /\ \A k \in 1..Len(q) : q[k] \in T => \E i \in 1..Len(t) : e[i] = k
  BY <1>1, <1>2, ZenonT(30) DEF Filters
<1>4. t \in Seq(Commands) /\ DOMAIN t = 1..Len(t) /\ DOMAIN q = 1..Len(q)
  BY <1>1, <1>2
<1>5. From(t, q) /\ \A i \in DOMAIN t : t[i] \in T
  BY <1>3, <1>4 DEF From
<1>6. \A j \in DOMAIN q : q[j] \in T => \E i \in DOMAIN t : t[i] = q[j]
  BY <1>3, <1>4, SMTT(30)
<1>7. Increasing(q) => Increasing(t)
  BY <1>3, <1>4 DEF Increasing
<1> QED BY <1>2, <1>4, <1>5, <1>6, <1>7

(* The ids of queued commands are numbers. *)
LEMMA IdsAreNumbers ==
    ASSUME NEW q \in Seq(Commands)
    PROVE  \A k \in DOMAIN q : q[k] \in Commands /\ q[k].id \in Nat
<1>1. \A k \in DOMAIN q : q[k] \in Commands
  OBVIOUS
<1>2. \A c \in Commands : c.id \in Nat
  BY DEF Commands
<1> QED BY <1>1, <1>2

(* The elements of a queue are in its range. *)
LEMMA FromIsOf ==
    ASSUME NEW q \in Seq(Commands)
    PROVE  \A j \in DOMAIN q : q[j] \in Range(q)
BY DEF Range

(* A command is taken out of the queue (remove). *)
LEMMA FlowRemoves ==
    ASSUME NEW a, NEW d, NEW q, NEW n, NEW st, NEW lat, NEW wd, NEW i,
           Flow(a, d, q, n, st, lat, wd)
    PROVE  /\ Flow(a, d, Without(q, i), n, st, lat, wd)
           /\ From(Without(q, i), q)
           /\ \A k \in DOMAIN Without(q, i) : Without(q, i)[k].id # i
<1>1. q \in Seq(Commands) /\ d \in Seq(Commands) /\ Increasing(q) /\ Increasing(d) /\ Apart(d, q, st)
  BY DEF Flow
<1>2. PICK r : r = Without(q, i)
  OBVIOUS
<1>3. /\ r \in Seq(Commands) /\ From(r, q) /\ Increasing(r)
      /\ \A k \in DOMAIN r : r[k] \in {c \in Range(q) : c.id # i}
  BY <1>1, <1>2, KeptCommands DEF Without
<1>4. From(d, d) /\ Apart(d, r, st)
  BY <1>1, <1>3 DEF From, Apart
<1>5. Flow(a, d, r, n, st, lat, wd)
  BY <1>1, <1>3, <1>4, FlowTakes
<1> QED BY <1>2, <1>3, <1>5

(* Commands that are nowhere any more can be said to be withdrawn. *)
LEMMA FlowWithdraws ==
    ASSUME NEW a, NEW d, NEW q, NEW n, NEW st, NEW lat, NEW wd, NEW W,
           Flow(a, d, q, n, st, lat, wd),
           \A k \in DOMAIN a : a[k].id \notin W, \A k \in DOMAIN d : d[k].id \notin W,
           \A k \in DOMAIN q : q[k].id \notin W
    PROVE  Flow(a, d, q, n, st, lat, wd \cup W)
<1>1. ASSUME NEW x, AllAsShown(x, n, st, lat, wd), \A k \in DOMAIN x : x[k].id \notin W
      PROVE  AllAsShown(x, n, st, lat, wd \cup W)
  BY <1>1 DEF AllAsShown, AsShown
<1> QED BY <1>1, Zenon DEF Flow

(* The steers are taken out of the queue to be one prompt (take_pending_steers): those
   that reached the transcript were issued before. *)
LEMMA FlowSteers ==
    ASSUME NEW a, NEW d, NEW q, NEW n, NEW st, NEW lat, NEW wd,
           Flow(a, d, q, n, st, lat, wd)
    PROVE  /\ Flow(a, Steers(q), Prompts(q), n, st, lat, wd)
           /\ \A k \in DOMAIN Prompts(q) : Prompts(q)[k].kind = "prompt"
<1>1. q \in Seq(Commands) /\ Increasing(q) /\ AllAsShown(q, n, st, lat, wd)
  BY DEF Flow
<1>2. PICK s, p : s = Steers(q) /\ p = Prompts(q)
  OBVIOUS
<1>3. /\ s \in Seq(Commands) /\ From(s, q) /\ Increasing(s)
      /\ \A k \in DOMAIN s : s[k] \in {c \in Range(q) : c.kind = "steer"}
  BY <1>1, <1>2, KeptCommands DEF Steers, OfKind
<1>4. /\ p \in Seq(Commands) /\ From(p, q) /\ Increasing(p)
      /\ \A k \in DOMAIN p : p[k] \in {c \in Range(q) : c.kind = "prompt"}
  BY <1>1, <1>2, KeptCommands DEF Prompts, OfKind
<1>5. \A k \in DOMAIN p : p[k].id \notin st
  BY <1>1, <1>4 DEF From, AllAsShown, AsShown
<1>6. \A k \in DOMAIN s : s[k].id \in st
  BY <1>1, <1>3, SMTT(30) DEF From, AllAsShown, AsShown
<1>7. Apart(s, p, st)
  BY <1>5, <1>6 DEF Apart
<1>8. Flow(a, s, p, n, st, lat, wd)
  BY <1>3, <1>4, <1>7, FlowTakes
<1> QED BY <1>2, <1>4, <1>8

(* The first command is popped (pop_next). *)
LEMMA FlowPops ==
    ASSUME NEW a, NEW d, NEW q, NEW n, NEW st, NEW lat, NEW wd,
           Flow(a, d, q, n, st, lat, wd), q # <<>>
    PROVE  Flow(a, <<Head(q)>>, Tail(q), n, st, lat, wd)
<1>1. q \in Seq(Commands) /\ Increasing(q)
  BY DEF Flow
<1>2. PICK x, r : x = <<Head(q)>> /\ r = Tail(q)
  BY Zenon
<1>3. /\ x \in Seq(Commands) /\ DOMAIN x = {1} /\ x[1] = q[1] /\ 1 \in DOMAIN q
  BY <1>1, <1>2
<1>4. /\ r \in Seq(Commands) /\ \A k \in DOMAIN r : k + 1 \in DOMAIN q /\ r[k] = q[k + 1] /\ k \in Nat /\ k >= 1
  BY <1>1, <1>2
<1>5. Increasing(x) /\ From(x, q)
  BY <1>3 DEF Increasing, From
<1>6. From(r, q) /\ Increasing(r)
  <2>1. From(r, q)
    BY <1>4 DEF From
  <2>2. Increasing(r)
    <3> SUFFICES ASSUME NEW j \in DOMAIN r, NEW k \in DOMAIN r, j < k
                 PROVE  r[j].id < r[k].id
      BY DEF Increasing
    <3>1. j + 1 < k + 1 /\ j + 1 \in DOMAIN q /\ k + 1 \in DOMAIN q
      BY <1>4
    <3>2. q[j + 1].id < q[k + 1].id
      BY <3>1, <1>1 DEF Increasing
    <3>3. r[j] = q[j + 1] /\ r[k] = q[k + 1]
      BY <1>4
    <3> QED BY <3>2, <3>3
  <2> QED BY <2>1, <2>2
<1>7. Apart(x, r, st)
  <2>1. \A k \in DOMAIN q : q[k].id \in Nat
    BY <1>1, IdsAreNumbers
  <2> QED BY <1>1, <1>3, <1>4, <2>1, SMTT(30) DEF Apart, Increasing
<1>8. Flow(a, x, r, n, st, lat, wd)
  BY <1>3, <1>4, <1>5, <1>6, <1>7, FlowTakes
<1> QED BY <1>2, <1>8

(* The first steer is popped past the prompts before it (pop_next_steer): it was issued
   before every other steer that waits. *)
LEMMA FlowMerges ==
    ASSUME NEW a, NEW d, NEW q, NEW n, NEW st, NEW lat, NEW wd,
           Flow(a, d, q, n, st, lat, wd), Steers(q) # <<>>
    PROVE  Flow(a, <<Head(Steers(q))>>, Without(q, Head(Steers(q)).id), n, st, lat, wd)
<1>1. q \in Seq(Commands) /\ Increasing(q) /\ AllAsShown(q, n, st, lat, wd)
  BY DEF Flow
<1>2. PICK s : s = Steers(q)
  OBVIOUS
<1>3. /\ s \in Seq(Commands) /\ From(s, q) /\ Increasing(s)
      /\ \A k \in DOMAIN s : s[k] \in {c \in Range(q) : c.kind = "steer"}
      /\ \A j \in DOMAIN q : q[j] \in {c \in Range(q) : c.kind = "steer"} => \E i \in DOMAIN s : s[i] = q[j]
  <2>1. s = Kept(q, {c \in Range(q) : c.kind = "steer"})
    BY <1>2 DEF Steers, OfKind
  <2>2. PICK T : T = {c \in Range(q) : c.kind = "steer"}
    BY Zenon
  <2>3. /\ s \in Seq(Commands) /\ From(s, q) /\ Increasing(s)
        /\ \A k \in DOMAIN s : s[k] \in T
        /\ \A j \in DOMAIN q : q[j] \in T => \E i \in DOMAIN s : s[i] = q[j]
    <3>1. s = Kept(q, T)
      BY <2>1, <2>2
    <3> QED BY <1>1, <3>1, KeptCommands
  <2> QED BY <2>2, <2>3
<1>4. PICK c : c = Head(s)
  OBVIOUS
<1>5. c = s[1] /\ 1 \in DOMAIN s /\ c \in Commands /\ DOMAIN s = 1..Len(s) /\ Len(s) \in Nat
  BY <1>2, <1>3, <1>4
<1>6. PICK x, r : x = <<c>> /\ r = Without(q, c.id)
  BY Zenon
<1>7. x \in Seq(Commands) /\ DOMAIN x = {1} /\ x[1] = c
  BY <1>5, <1>6
<1>8. /\ r \in Seq(Commands) /\ From(r, q) /\ Increasing(r)
      /\ \A k \in DOMAIN r : r[k] \in {b \in Range(q) : b.id # c.id}
  BY <1>1, <1>6, KeptCommands DEF Without
<1>9. Increasing(x) /\ From(x, q)
  BY <1>3, <1>5, <1>7 DEF Increasing, From
<1>10. \A j \in DOMAIN q : q[j].id \in st => c.id <= q[j].id
  <2> SUFFICES ASSUME NEW j \in DOMAIN q, q[j].id \in st PROVE c.id <= q[j].id
    OBVIOUS
  <2>1. q[j].kind = "steer" /\ q[j] \in Range(q)
    BY <1>1, FromIsOf DEF AllAsShown, AsShown
  <2>2. PICK i \in DOMAIN s : s[i] = q[j]
    BY <2>1, <1>3
  <2>3. s[1].id \in Nat /\ s[i].id \in Nat
    BY <1>3, <1>5, IdsAreNumbers
  <2>4. i = 1 \/ 1 < i
    BY <1>5
  <2> QED BY <2>2, <2>3, <2>4, <1>3, <1>5 DEF Increasing
<1>11. Apart(x, r, st)
  <2> SUFFICES ASSUME NEW k \in DOMAIN r
               PROVE  c.id # r[k].id /\ (c.id \in st /\ r[k].id \in st => c.id < r[k].id)
    BY <1>7 DEF Apart
  <2>1. PICK j \in DOMAIN q : r[k] = q[j]
    BY <1>8 DEF From
  <2>2. r[k].id # c.id /\ c.id \in Nat /\ q[j].id \in Nat
    BY <1>1, <1>3, <1>5, <1>8, IdsAreNumbers
  <2> QED BY <2>1, <2>2, <1>10
<1>12. Flow(a, x, r, n, st, lat, wd)
  BY <1>7, <1>8, <1>9, <1>11, FlowTakes
<1> QED BY <1>2, <1>4, <1>6, <1>12

(* The queue with the text of command i replaced. *)
Edited(q, i) == [k \in DOMAIN q |-> IF q[k].id = i THEN [q[k] EXCEPT !.text = 1] ELSE q[k]]

(* A command that waits is edited (update). *)
LEMMA FlowEdits ==
    ASSUME NEW a, NEW d, NEW q, NEW n \in Nat, NEW st, NEW m \in Nat, NEW lat \in [1..m -> {0, 1}], NEW wd,
           NEW j \in DOMAIN q, Flow(a, d, q, n, st, lat, wd), n <= m
    PROVE  Flow(a, d, Edited(q, q[j].id), n, st, [lat EXCEPT ![q[j].id] = 1], wd)
<1>1. q \in Seq(Commands) /\ AllAsShown(q, n, st, lat, wd) /\ a \in Seq(Commands) /\ d \in Seq(Commands)
  BY DEF Flow
<1>2. PICK i, r, new : i = q[j].id /\ r = Edited(q, i) /\ new = [lat EXCEPT ![i] = 1]
  BY Zenon
<1>3. i \in 1..n /\ i \in 1..m
  BY <1>1, <1>2 DEF AllAsShown, AsShown
<1>4. new[i] = 1 /\ \A k \in 1..m : k # i => new[k] = lat[k]
  BY <1>2, <1>3
<1>5. \A k \in DOMAIN q : /\ q[k].id = i  => r[k] = [q[k] EXCEPT !.text = 1]
                          /\ q[k].id # i => r[k] = q[k]
  BY <1>2 DEF Edited
<1>7. \A k \in DOMAIN q : r[k] \in Commands /\ r[k].id = q[k].id /\ r[k].kind = q[k].kind
                          /\ (q[k].id = i => r[k].text = 1)
  <2> SUFFICES ASSUME NEW k \in DOMAIN q
               PROVE  r[k] \in Commands /\ r[k].id = q[k].id /\ r[k].kind = q[k].kind
                      /\ (q[k].id = i => r[k].text = 1)
    OBVIOUS
  <2>1. q[k] \in Commands
    BY <1>1, IdsAreNumbers
  <2>2. CASE q[k].id = i
    <3>1. PICK c \in Commands : c = q[k]
      BY <2>1
    <3>2. r[k] = [c EXCEPT !.text = 1]
      BY <3>1, <2>2, <1>5, Zenon
    <3>3. r[k] \in Commands /\ r[k].id = c.id /\ r[k].kind = c.kind /\ r[k].text = 1
      BY <3>2 DEF Commands
    <3> QED BY <3>1, <3>3, Zenon
  <2>3. CASE q[k].id # i
    BY <2>1, <2>3, <1>5, Zenon
  <2> QED BY <2>2, <2>3
<1>8. r \in Seq(Commands) /\ DOMAIN r = DOMAIN q
  <2>1. DOMAIN q = 1..Len(q) /\ Len(q) \in Nat
    BY <1>1
  <2>2. r = [k \in 1..Len(q) |-> r[k]]
    BY <1>2, <2>1 DEF Edited
  <2> QED BY <2>1, <2>2, <1>7
<1>9. AllAsShown(r, n, st, new, wd)
  <2> SUFFICES ASSUME NEW k \in DOMAIN q PROVE AsShown(r[k], n, st, new, wd)
    BY <1>8 DEF AllAsShown
  <2>1. AsShown(q[k], n, st, lat, wd)
    BY <1>1 DEF AllAsShown
  <2>2. q[k].id \in 1..m
    BY <2>1 DEF AsShown
  <2>3. r[k].text = new[r[k].id]
    <3>1. CASE q[k].id = i
      BY <3>1, <1>4, <1>7
    <3>2. CASE q[k].id # i
      BY <3>2, <1>4, <1>5, <2>1, <2>2, Zenon DEF AsShown
    <3> QED BY <3>1, <3>2
  <2> QED BY <2>1, <2>3, <1>7 DEF AsShown
<1>10. ASSUME NEW x, AllAsShown(x, n, st, lat, wd), Apart(x, q, st)
       PROVE  AllAsShown(x, n, st, new, wd) /\ Apart(x, r, st)
  <2>1. Apart(x, r, st)
    BY <1>10, <1>7, <1>8 DEF Apart
  <2> SUFFICES ASSUME NEW k \in DOMAIN x PROVE AsShown(x[k], n, st, new, wd)
    BY <2>1 DEF AllAsShown
  <2>2. AsShown(x[k], n, st, lat, wd) /\ x[k].id # i
    BY <1>2, <1>10 DEF AllAsShown, Apart
  <2>3. x[k].id \in 1..m
    BY <2>2 DEF AsShown
  <2> QED BY <2>2, <2>3, <1>4 DEF AsShown
<1>11. Increasing(r)
  BY <1>7, <1>8 DEF Flow, Increasing
<1>12. Flow(a, d, r, n, st, new, wd)
  BY <1>8, <1>9, <1>10, <1>11 DEF Flow
<1> QED BY <1>2, <1>12

(* Appending a command is concatenating it. *)
LEMMA AppendsOne ==
    ASSUME NEW a \in Seq(Commands), NEW c \in Commands
    PROVE  a \o <<c>> = Append(a, c)
OBVIOUS

(* Where the driver is. *)
ControlPcs == NoTask \cup {"prepare", "turn", "merge", "stop", "steer", "drain", "done"}

(* The shapes, with the ids not issued yet untouched *)
ControlShape ==
    /\ issued \in 0..MaxCommands /\ steers \subseteq 1..issued /\ withdrawn \subseteq 1..issued
    /\ latest \in [1..MaxCommands -> {0, 1}]
    /\ \A i \in 1..MaxCommands : i > issued => latest[i] = 0
    /\ driver \in [pc : ControlPcs, prompt : Seq(Commands)]

(* A prompt is held exactly by a task that prepares it; with no task only prompts
   wait, and none at all unless an interrupt left them *)
Stranded ==
    /\ (driver.prompt # <<>> <=> driver.pc = "prepare")
    /\ (~Driving => \A k \in DOMAIN queue : queue[k].kind = "prompt")
    /\ (driver.pc = "idle" => queue = <<>>)

(* The commands that exist flow; with the shapes and the driver's states, this is inductive. *)
ControlFlows == Flow(applied, driver.prompt, queue, issued, steers, latest, withdrawn)

ControlInv == ControlShape /\ Stranded /\ ControlFlows

(* Nothing has been issued. *)
LEMMA ControlInit_Inv == ControlInit => ControlInv
<1> SUFFICES ASSUME ControlInit PROVE ControlInv
  OBVIOUS
<1> USE DEF ControlInit
<1>1. ControlShape
  BY ControlAssumption DEF ControlShape, CommandIds, ControlPcs, NoTask
<1>2. Stranded
  BY DEF Stranded, Driving, NoTask
<1>3. ControlFlows
  BY DEF ControlFlows, Flow, AllAsShown, InOrder, Increasing, Apart
<1> QED BY <1>1, <1>2, <1>3 DEF ControlInv

(* Commands have ids that were issued. *)
LEMMA QueuedAreIssued ==
    ASSUME ControlInv
    PROVE  /\ \A k \in DOMAIN queue : queue[k].id \in 1..issued
           /\ \A k \in DOMAIN applied : applied[k].id \in 1..issued
           /\ \A k \in DOMAIN driver.prompt : driver.prompt[k].id \in 1..issued
BY DEF ControlInv, ControlFlows, Flow, AllAsShown, AsShown

(* A command just issued is as shown, wherever it goes. *)
LEMMA IssuedAsShown ==
    ASSUME ControlInv, NEW kind \in {"prompt", "steer"}, Issue(kind)
    PROVE  /\ issued \in Nat /\ issued' = issued + 1 /\ issued' \in 0..MaxCommands
           /\ steers' \subseteq 1..issued' /\ withdrawn \subseteq 1..issued'
           /\ \A i \in 1..MaxCommands : i > issued' => latest[i] = 0
           /\ \E more \in {{}, {issued + 1}} :
                 /\ steers' = steers \cup more /\ (kind = "prompt" => more = {})
                 /\ AsShown(Command(issued + 1, kind), issued + 1, steers \cup more, latest, withdrawn)
           /\ Command(issued + 1, kind) \in Commands
           /\ Command(issued + 1, kind).id = issued + 1 /\ Command(issued + 1, kind).kind = kind
<1> USE DEF ControlInv, ControlShape, Issue
<1>1. /\ issued \in Nat /\ MaxCommands \in Nat /\ issued + 1 \in 1..MaxCommands
      /\ issued + 1 \notin steers /\ issued + 1 \notin withdrawn /\ latest[issued + 1] = 0
  BY ControlAssumption
<1>2. PICK c : c = Command(issued + 1, kind)
  OBVIOUS
<1>3. c \in Commands /\ c.id = issued + 1 /\ c.kind = kind /\ c.text = 0
  BY <1>1, <1>2 DEF Command, Commands
<1>4. PICK more \in {{}, {issued + 1}} : more = IF kind = "steer" THEN {issued + 1} ELSE {}
  OBVIOUS
<1>5. steers' = steers \cup more /\ (kind = "prompt" => more = {})
  BY <1>4
<1>6. AsShown(c, issued + 1, steers \cup more, latest, withdrawn)
  BY <1>1, <1>3, <1>4 DEF AsShown
<1>7. /\ issued' = issued + 1 /\ issued' \in 0..MaxCommands
      /\ steers' \subseteq 1..issued' /\ withdrawn \subseteq 1..issued'
      /\ \A i \in 1..MaxCommands : i > issued' => latest[i] = 0
  BY <1>1, <1>4, <1>5
<1> QED BY <1>1, <1>2, <1>3, <1>5, <1>6, <1>7, Zenon

(* Enter, a steer, or the end of a live task, while no task runs. *)
LEMMA OpensStep == ControlInv /\ (StartPrompt \/ StartSteer \/ LiveTaskFinished) => ControlInv'
<1> SUFFICES ASSUME ControlInv, StartPrompt \/ StartSteer \/ LiveTaskFinished PROVE ControlInv'
  OBVIOUS
<1>1. /\ ~Driving /\ driver.prompt = <<>> /\ driver.pc # "prepare"
      /\ \A k \in DOMAIN queue : queue[k].kind = "prompt"
      /\ Flow(applied, <<>>, queue, issued, steers, latest, withdrawn)
  BY DEF ControlInv, Stranded, ControlFlows, Driving, NoTask, StartPrompt, StartSteer, LiveTaskFinished
<1>2. \A k \in DOMAIN queue : queue[k].id \notin steers
  BY <1>1 DEF Flow, AllAsShown, AsShown
<1>3. latest \in [1..MaxCommands -> {0, 1}]
  BY DEF ControlInv, ControlShape
<1>4. CASE StartPrompt
  <2> DEFINE c == Command(issued + 1, "prompt")
  <2>1. Issue("prompt")
    BY <1>4 DEF StartPrompt
  <2>2. PICK more \in {{}, {issued + 1}} :
           steers' = steers \cup more /\ AsShown(c, issued + 1, steers \cup more, latest, withdrawn)
           /\ c.id = issued + 1 /\ c \in Commands /\ more = {} /\ issued \in Nat /\ issued' = issued + 1
    BY <2>1, IssuedAsShown
  <2> HIDE DEF c
  <2>3. driver' = [pc |-> "prepare", prompt |-> <<c>>] /\ UNCHANGED <<queue, applied, latest, withdrawn>>
    BY <1>4 DEF StartPrompt, Submit, c
  <2>4. Flow(applied, <<c>>, queue, issued + 1, steers \cup more, latest, withdrawn)
    BY <1>1, <1>2, <2>2, FlowStarts, Zenon
  <2>5. ControlFlows'
    BY <2>2, <2>3, <2>4 DEF ControlFlows
  <2>6. Stranded'
    BY <2>3 DEF Stranded, Driving, NoTask
  <2>7. ControlShape'
    <3>1. driver' \in [pc : ControlPcs, prompt : Seq(Commands)]
      BY <2>2, <2>3 DEF ControlPcs
    <3> QED BY <1>3, <2>1, <2>3, <3>1, IssuedAsShown DEF ControlShape
  <2> QED BY <2>5, <2>6, <2>7 DEF ControlInv
<1>5. CASE StartSteer
  <2> DEFINE c == Command(issued + 1, "steer")
  <2>1. Issue("steer")
    BY <1>5 DEF StartSteer
  <2>2. PICK more \in {{}, {issued + 1}} :
           steers' = steers \cup more /\ AsShown(c, issued + 1, steers \cup more, latest, withdrawn)
           /\ c.id = issued + 1 /\ c \in Commands /\ issued \in Nat /\ issued' = issued + 1
    BY <2>1, IssuedAsShown
  <2> HIDE DEF c
  <2>3. /\ driver' = [pc |-> "steer", prompt |-> <<>>] /\ UNCHANGED <<queue, latest, withdrawn>>
        /\ applied' = Append(applied, c)
    BY <1>5 DEF StartSteer, At, c
  <2>4. Flow(applied, <<c>>, queue, issued + 1, steers \cup more, latest, withdrawn)
    BY <1>1, <1>2, <2>2, FlowStarts, Zenon
  <2>5. applied' = applied \o <<c>>
    BY <1>1, <2>2, <2>3, AppendsOne DEF Flow
  <2>6. ControlFlows'
    BY <2>2, <2>3, <2>4, <2>5, FlowApplies DEF ControlFlows
  <2>7. Stranded'
    BY <2>3 DEF Stranded, Driving, NoTask
  <2>8. ControlShape'
    <3>1. driver' \in [pc : ControlPcs, prompt : Seq(Commands)]
      BY <2>3 DEF ControlPcs
    <3> QED BY <1>3, <2>1, <2>3, <3>1, IssuedAsShown DEF ControlShape
  <2> QED BY <2>6, <2>7, <2>8 DEF ControlInv
<1>6. CASE LiveTaskFinished
  <2> DEFINE c == Command(issued + 1, "prompt")
  <2>1. Issue("prompt")
    BY <1>6 DEF LiveTaskFinished
  <2>2. PICK more \in {{}, {issued + 1}} :
           steers' = steers \cup more /\ AsShown(c, issued + 1, steers \cup more, latest, withdrawn)
           /\ c.id = issued + 1 /\ c \in Commands /\ issued \in Nat /\ issued' = issued + 1
    BY <2>1, IssuedAsShown
  <2> HIDE DEF c
  <2>3. /\ driver' = [pc |-> "drain", prompt |-> <<>>] /\ UNCHANGED <<applied, latest, withdrawn>>
        /\ queue' = Append(queue, c)
    BY <1>6 DEF LiveTaskFinished, At, c
  <2>4. Flow(applied, <<>>, Append(queue, c), issued + 1, steers \cup more, latest, withdrawn)
    BY <1>1, <2>2, FlowQueues, Zenon
  <2>5. ControlFlows'
    BY <2>2, <2>3, <2>4 DEF ControlFlows
  <2>6. Stranded'
    BY <2>3 DEF Stranded, Driving, NoTask
  <2>7. ControlShape'
    <3>1. driver' \in [pc : ControlPcs, prompt : Seq(Commands)]
      BY <2>3 DEF ControlPcs
    <3> QED BY <1>3, <2>1, <2>3, <3>1, IssuedAsShown DEF ControlShape
  <2> QED BY <2>5, <2>6, <2>7 DEF ControlInv
<1> QED BY <1>4, <1>5, <1>6

(* The operator queues, edits and withdraws commands. *)
LEMMA EditsStep ==
    ControlInv /\ ((\E kind \in {"prompt", "steer"} : Enqueue(kind))
                     \/ \E i \in CommandIds : UpdatePending(i) \/ RemovePending(i)) => ControlInv'
<1> SUFFICES ASSUME ControlInv,
                    \/ \E kind \in {"prompt", "steer"} : Enqueue(kind)
                    \/ \E i \in CommandIds : UpdatePending(i)
                    \/ \E i \in CommandIds : RemovePending(i)
             PROVE  ControlInv'
  BY SMTT(30)
<1>1. /\ Flow(applied, driver.prompt, queue, issued, steers, latest, withdrawn)
      /\ queue \in Seq(Commands) /\ issued \in Nat /\ issued <= MaxCommands /\ MaxCommands \in Nat
      /\ latest \in [1..MaxCommands -> {0, 1}] /\ driver \in [pc : ControlPcs, prompt : Seq(Commands)]
  BY ControlAssumption DEF ControlInv, ControlFlows, Flow, ControlShape
<1>2. ASSUME NEW kind \in {"prompt", "steer"}, Enqueue(kind)
      PROVE  ControlInv'
  <2> DEFINE c == Command(issued + 1, kind)
  <2>1. Issue(kind)
    BY <1>2 DEF Enqueue
  <2>2. PICK more \in {{}, {issued + 1}} :
           steers' = steers \cup more /\ AsShown(c, issued + 1, steers \cup more, latest, withdrawn)
           /\ c.id = issued + 1 /\ issued' = issued + 1
    BY <2>1, IssuedAsShown
  <2> HIDE DEF c
  <2>3. queue' = Append(queue, c) /\ UNCHANGED <<driver, applied, latest, withdrawn>> /\ Driving
    BY <1>2 DEF Enqueue, c
  <2>4. Flow(applied, driver.prompt, Append(queue, c), issued + 1, steers \cup more, latest, withdrawn)
    BY <1>1, <2>2, FlowQueues, Zenon
  <2>5. ControlFlows'
    BY <2>2, <2>3, <2>4 DEF ControlFlows
  <2>6. Stranded'
    BY <2>3 DEF ControlInv, Stranded, Driving, NoTask
  <2>7. ControlShape'
    BY <1>1, <2>1, <2>3, IssuedAsShown DEF ControlShape
  <2> QED BY <2>5, <2>6, <2>7 DEF ControlInv
<1>3. ASSUME NEW i \in CommandIds, UpdatePending(i)
      PROVE  ControlInv'
  <2>1. PICK j \in DOMAIN queue : queue[j].id = i
    BY <1>3 DEF UpdatePending, QueuedIds
  <2>2. /\ latest' = [latest EXCEPT ![i] = 1] /\ queue' = Edited(queue, i)
        /\ UNCHANGED <<driver, applied, issued, steers, withdrawn>>
    BY <1>3 DEF UpdatePending, Edited
  <2>3. ControlFlows'
    BY <1>1, <2>1, <2>2, FlowEdits, Zenon DEF ControlFlows
  <2>4. i \in 1..issued
    BY <2>1, QueuedAreIssued
  <2>5. ControlShape'
    BY <1>1, <2>2, <2>4 DEF ControlInv, ControlShape
  <2>6. DOMAIN queue' = DOMAIN queue /\ \A k \in DOMAIN queue : queue'[k].kind = queue[k].kind
    <3>1. DOMAIN queue' = DOMAIN queue
      BY <2>2 DEF Edited
    <3>2. ASSUME NEW k \in DOMAIN queue PROVE queue'[k].kind = queue[k].kind
      <4>1. PICK c \in Commands : c = queue[k]
        BY <1>1
      <4>2. queue'[k] = c \/ queue'[k] = [c EXCEPT !.text = 1]
        BY <2>2, <4>1 DEF Edited
      <4>3. [c EXCEPT !.text = 1].kind = c.kind
        BY DEF Commands
      <4> QED BY <4>1, <4>2, <4>3, Zenon
    <3> QED BY <3>1, <3>2
  <2>7. queue # <<>>
    BY <2>1
  <2>8. Stranded'
    BY <2>2, <2>6, <2>7, SMTT(30) DEF ControlInv, Stranded, Driving
  <2> QED BY <2>3, <2>5, <2>8 DEF ControlInv
<1>4. ASSUME NEW i \in CommandIds, RemovePending(i)
      PROVE  ControlInv'
  <2>1. PICK j \in DOMAIN queue : queue[j].id = i
    BY <1>4 DEF RemovePending, QueuedIds
  <2>2. /\ queue' = Without(queue, i) /\ withdrawn' = withdrawn \cup {i}
        /\ UNCHANGED <<driver, applied, issued, steers, latest>>
    BY <1>4 DEF RemovePending
  <2>3. /\ Flow(applied, driver.prompt, queue', issued, steers, latest, withdrawn)
        /\ From(queue', queue) /\ \A k \in DOMAIN queue' : queue'[k].id # i
    <3>1. PICK r : r = Without(queue, i)
      OBVIOUS
    <3>2. /\ Flow(applied, driver.prompt, r, issued, steers, latest, withdrawn)
          /\ From(r, queue) /\ \A k \in DOMAIN r : r[k].id # i
      BY <1>1, <3>1, FlowRemoves, SMTT(30)
    <3> QED BY <2>2, <3>1, <3>2
  <2>4. /\ \A k \in DOMAIN applied : applied[k].id \notin {i}
        /\ \A k \in DOMAIN driver.prompt : driver.prompt[k].id \notin {i}
    BY <1>1, <2>1, Zenon DEF Flow, Apart
  <2>5. Flow(applied, driver.prompt, queue', issued, steers, latest, withdrawn \cup {i})
    BY <2>3, <2>4, FlowWithdraws, Zenon
  <2>6. ControlFlows'
    BY <2>2, <2>5 DEF ControlFlows
  <2>7. i \in 1..issued
    BY <2>1, QueuedAreIssued
  <2>8. ControlShape'
    BY <2>2, <2>7 DEF ControlInv, ControlShape
  <2>9. queue # <<>>
    BY <2>1
  <2>10. Stranded'
    BY <2>2, <2>3, <2>9 DEF ControlInv, Stranded, Driving, From
  <2> QED BY <2>6, <2>8, <2>10 DEF ControlInv
<1> QED BY <1>2, <1>3, <1>4

(* A queue that is not empty is its first command and the others. *)
LEMMA HeadAndTail ==
    ASSUME NEW S, NEW q \in Seq(S), q # <<>>
    PROVE  /\ Head(q) \in S /\ Head(q) = q[1] /\ 1 \in DOMAIN q
           /\ Tail(q) \in Seq(S) /\ \A k \in DOMAIN Tail(q) : k + 1 \in DOMAIN q /\ Tail(q)[k] = q[k + 1]
OBVIOUS

(* The driver puts commands into the transcript: the prompt it prepared, the steers of a
   safe point, the next command of the drain. *)
LEMMA AppliesStep == ControlInv /\ (PromptSubmitted \/ MergeSteer \/ PopNext) => ControlInv'
<1> SUFFICES ASSUME ControlInv, PromptSubmitted \/ MergeSteer \/ PopNext PROVE ControlInv'
  OBVIOUS
<1>1. /\ Flow(applied, driver.prompt, queue, issued, steers, latest, withdrawn)
      /\ queue \in Seq(Commands) /\ applied \in Seq(Commands)
      /\ driver \in [pc : ControlPcs, prompt : Seq(Commands)]
      /\ UNCHANGED <<issued, steers, latest, withdrawn>>
  BY SMTT(30) DEF ControlInv, ControlFlows, Flow, ControlShape, PromptSubmitted, MergeSteer, PopNext
<1>2. driver' \in [pc : ControlPcs, prompt : Seq(Commands)] => ControlShape'
  BY <1>1 DEF ControlInv, ControlShape
<1>3. ASSUME NEW pc \in ControlPcs \ (NoTask \cup {"prepare"}), At(pc)
      PROVE  ControlShape' /\ Stranded' /\ driver'.prompt = <<>>
  <2>1. driver' = [pc |-> pc, prompt |-> <<>>]
    BY <1>3 DEF At
  <2> QED BY <1>2, <2>1 DEF Stranded, Driving, NoTask
<1>4. CASE PromptSubmitted
  <2>1. applied' = applied \o driver.prompt /\ At("turn") /\ queue' = queue
    BY <1>4 DEF PromptSubmitted
  <2>2. ControlShape' /\ Stranded' /\ driver'.prompt = <<>>
    BY <1>3, <2>1 DEF ControlPcs, NoTask
  <2>3. ControlFlows'
    BY <1>1, <2>1, <2>2, FlowApplies DEF ControlFlows
  <2> QED BY <2>2, <2>3 DEF ControlInv
<1>5. CASE MergeSteer
  <2>1. PICK s, c, r : s = Steers(queue) /\ c = Head(s) /\ r = Without(queue, c.id)
    OBVIOUS
  <2>2. s # <<>> /\ applied' = Append(applied, c) /\ queue' = r /\ At("merge")
    BY <1>5, <2>1, SMTT(30) DEF MergeSteer
  <2>3. Flow(applied, <<c>>, r, issued, steers, latest, withdrawn)
    BY <1>1, <2>1, <2>2, FlowMerges
  <2>4. Flow(applied \o <<c>>, <<>>, r, issued, steers, latest, withdrawn)
    BY <2>3, FlowApplies
  <2>5. s \in Seq(Commands) /\ c \in Commands
    BY <1>1, <2>1, <2>2, KeptCommands DEF Steers, OfKind
  <2>6. applied \o <<c>> = Append(applied, c)
    BY <1>1, <2>5, AppendsOne
  <2>7. ControlShape' /\ Stranded' /\ driver'.prompt = <<>>
    BY <1>3, <2>2 DEF ControlPcs, NoTask
  <2>8. ControlFlows'
    BY <1>1, <2>2, <2>4, <2>6, <2>7, Zenon DEF ControlFlows
  <2> QED BY <2>7, <2>8 DEF ControlInv
<1>6. CASE PopNext /\ queue = <<>>
  <2>1. At("done") /\ queue' = queue /\ applied' = applied /\ driver.pc = "drain"
    BY <1>6 DEF PopNext
  <2>2. ControlShape' /\ Stranded' /\ driver'.prompt = <<>>
    BY <1>3, <2>1 DEF ControlPcs, NoTask
  <2>3. driver.prompt = <<>>
    BY <2>1 DEF ControlInv, Stranded
  <2>4. ControlFlows'
    BY <1>1, <2>1, <2>2, <2>3 DEF ControlFlows
  <2> QED BY <2>2, <2>4 DEF ControlInv
<1>7. CASE PopNext /\ queue # <<>>
  <2>1. PICK c, r : c = Head(queue) /\ r = Tail(queue)
    BY Zenon
  <2>2. c \in Commands
    BY <1>1, <1>7, <2>1, HeadAndTail
  <2>3. Flow(applied, <<c>>, r, issued, steers, latest, withdrawn)
    BY <1>1, <1>7, <2>1, FlowPops
  <2>4. CASE c.kind = "prompt"
    <3>1. driver' = [pc |-> "prepare", prompt |-> <<c>>] /\ applied' = applied /\ queue' = r
      BY <1>7, <2>1, <2>4 DEF PopNext, Submit
    <3>2. ControlShape'
      BY <1>2, <2>2, <3>1 DEF ControlPcs
    <3>3. Stranded'
      BY <3>1 DEF Stranded, Driving, NoTask
    <3>4. ControlFlows'
      BY <1>1, <2>3, <3>1 DEF ControlFlows
    <3> QED BY <3>2, <3>3, <3>4 DEF ControlInv
  <2>5. CASE c.kind # "prompt"
    <3>1. At("steer") /\ applied' = Append(applied, c) /\ queue' = r
      BY <1>7, <2>1, <2>5 DEF PopNext
    <3>2. Flow(applied \o <<c>>, <<>>, r, issued, steers, latest, withdrawn)
      BY <2>3, FlowApplies
    <3>3. applied \o <<c>> = Append(applied, c)
      BY <1>1, <2>2, AppendsOne
    <3>4. ControlShape' /\ Stranded' /\ driver'.prompt = <<>>
      BY <1>3, <3>1 DEF ControlPcs, NoTask
    <3>5. ControlFlows'
      BY <1>1, <3>1, <3>2, <3>3, <3>4, Zenon DEF ControlFlows
    <3> QED BY <3>4, <3>5 DEF ControlInv
  <2> QED BY <2>4, <2>5
<1> QED BY <1>4, <1>5, <1>6, <1>7, SMTT(30)

(* The driver moves on, or fails, and the terminal notices. *)
LEMMA MovesStep ==
    ControlInv /\ (SteersMerged \/ LastSafePoint \/ CommandDone \/ TaskFails \/ FinishTurn) => ControlInv'
<1> SUFFICES ASSUME ControlInv, SteersMerged \/ LastSafePoint \/ CommandDone \/ TaskFails \/ FinishTurn
             PROVE  ControlInv'
  OBVIOUS
<1>1. PICK pc \in ControlPcs \ {"prepare", "parked"} : At(pc)
  BY DEF SteersMerged, LastSafePoint, CommandDone, TaskFails, FinishTurn, ControlPcs, NoTask
<1>2. /\ UNCHANGED <<queue, applied, issued, steers, latest, withdrawn>>
      /\ (pc = "idle" => queue = <<>>)
  BY <1>1 DEF SteersMerged, LastSafePoint, CommandDone, TaskFails, FinishTurn, At
<1>3. driver' = [pc |-> pc, prompt |-> <<>>]
  BY <1>1, SMTT(30) DEF At
<1>4. ControlShape'
  BY <1>2, <1>3 DEF ControlInv, ControlShape
<1>5. Stranded'
  BY <1>1, <1>2, <1>3 DEF Stranded, Driving, NoTask, ControlPcs
<1>6. ControlFlows'
  <2>1. /\ Flow(applied, driver.prompt, queue, issued, steers, latest, withdrawn)
        /\ queue \in Seq(Commands) /\ Increasing(queue)
    BY DEF ControlInv, ControlFlows, Flow
  <2>2. From(<<>>, queue) /\ From(queue, queue) /\ Increasing(<<>>) /\ Apart(<<>>, queue, steers)
        /\ <<>> \in Seq(Commands)
    BY DEF From, Increasing, Apart
  <2>3. Flow(applied, <<>>, queue, issued, steers, latest, withdrawn)
    BY <2>1, <2>2, FlowTakes, Zenon
  <2> QED BY <1>2, <1>3, <2>3 DEF ControlFlows
<1> QED BY <1>4, <1>5, <1>6 DEF ControlInv

(* The operator interrupts the task, or starts a new session. *)
LEMMA StopsStep == ControlInv /\ (NewSession \/ Interrupt) => ControlInv'
<1> SUFFICES ASSUME ControlInv, NewSession \/ Interrupt PROVE ControlInv'
  OBVIOUS
<1>1. /\ Flow(applied, driver.prompt, queue, issued, steers, latest, withdrawn)
      /\ queue \in Seq(Commands) /\ UNCHANGED <<applied, issued, steers, latest>>
  BY DEF ControlInv, ControlFlows, Flow, NewSession, Interrupt
<1>2. CASE NewSession
  <2>1. /\ ~Driving /\ queue' = <<>> /\ withdrawn' = withdrawn \cup QueuedIds(queue)
        /\ driver' = [pc |-> "idle", prompt |-> <<>>]
    BY <1>2 DEF NewSession, At
  <2>2. driver.prompt = <<>>
    BY <2>1 DEF ControlInv, Stranded, Driving, NoTask
  <2>3. From(<<>>, queue) /\ Increasing(<<>>) /\ Apart(<<>>, <<>>, steers) /\ <<>> \in Seq(Commands)
    BY DEF From, Increasing, Apart
  <2>4. Flow(applied, <<>>, <<>>, issued, steers, latest, withdrawn)
    BY <1>1, <2>3, FlowTakes, Zenon
  <2>5. \A k \in DOMAIN applied : applied[k].id \notin QueuedIds(queue)
    BY <1>1 DEF Flow, Apart, QueuedIds
  <2>6. Flow(applied, <<>>, <<>>, issued, steers, latest, withdrawn \cup QueuedIds(queue))
    <3>1. PICK e : e = <<>> /\ DOMAIN e = {}
      OBVIOUS
    <3>2. /\ Flow(applied, e, e, issued, steers, latest, withdrawn)
          /\ \A k \in DOMAIN e : e[k].id \notin QueuedIds(queue)
      BY <2>4, <3>1, SMTT(30)
    <3>3. Flow(applied, e, e, issued, steers, latest, withdrawn \cup QueuedIds(queue))
      BY <2>5, <3>2, FlowWithdraws
    <3> QED BY <3>1, <3>3
  <2>7. ControlFlows'
    BY <1>1, <2>1, <2>6 DEF ControlFlows
  <2>8. QueuedIds(queue) \subseteq 1..issued
    BY QueuedAreIssued DEF QueuedIds
  <2>9. ControlShape'
    <3>1. driver' \in [pc : ControlPcs, prompt : Seq(Commands)]
      BY <2>1 DEF ControlPcs, NoTask
    <3>2. withdrawn' \subseteq 1..issued
      BY <2>1, <2>8, Zenon DEF ControlInv, ControlShape
    <3> QED BY <1>1, <3>1, <3>2 DEF ControlInv, ControlShape
  <2>10. Stranded'
    BY <2>1 DEF Stranded, Driving, NoTask
  <2> QED BY <2>7, <2>9, <2>10 DEF ControlInv
<1>3. CASE Interrupt
  <2>1. PICK s, p : s = Steers(queue) /\ p = Prompts(queue)
    OBVIOUS
  <2>2. /\ queue' = p /\ withdrawn' = withdrawn
        /\ driver' = [pc |-> IF s = <<>> THEN "parked" ELSE "prepare", prompt |-> s]
    BY <1>3, <2>1, Zenon DEF Interrupt, At, Submit
  <2>3. /\ Flow(applied, s, p, issued, steers, latest, withdrawn)
        /\ \A k \in DOMAIN p : p[k].kind = "prompt"
    BY <1>1, <2>1, FlowSteers, SMTT(30)
  <2>4. ControlFlows'
    BY <1>1, <2>2, <2>3 DEF ControlFlows
  <2>5. ControlShape'
    <3>1. s \in Seq(Commands)
      BY <2>3 DEF Flow
    <3> QED BY <1>1, <2>2, <3>1 DEF ControlInv, ControlShape, ControlPcs, NoTask
  <2>6. Stranded'
    BY <2>2, <2>3 DEF Stranded, Driving, NoTask
  <2> QED BY <2>4, <2>5, <2>6 DEF ControlInv
<1> QED BY <1>2, <1>3

(* Every step of the operator, the driver and the terminal keeps the invariant. *)
LEMMA ControlStep == ControlInv /\ [ControlNext]_controlVars => ControlInv'
<1>1. ControlInv /\ UNCHANGED controlVars => ControlInv'
  BY DEF ControlInv, ControlShape, Stranded, ControlFlows, controlVars, Driving
<1>2. ControlInv /\ ControlNext => ControlInv'
  BY OpensStep, EditsStep, AppliesStep, MovesStep, StopsStep DEF ControlNext, DriverStep
<1> QED BY <1>1, <1>2

(* The invariant holds in every state the control plane can reach. *)
LEMMA ControlAlways == ControlSpec => []ControlInv
BY ControlInit_Inv, ControlStep, PTL DEF ControlSpec

(* Commands keep their shapes and the queue holds none twice, for any number of commands
   (control.rs). *)
THEOREM CommandTypes == ControlSpec => []ControlTypeOK
<1>1. ControlInv => ControlTypeOK
  <2> SUFFICES ASSUME ControlInv PROVE ControlTypeOK
    OBVIOUS
  <2> DEFINE C == [id : 1..issued, kind : {"prompt", "steer"}, text : {0, 1}]
  <2>1. ASSUME NEW q \in Seq(Commands), \A k \in DOMAIN q : q[k].id \in 1..issued
        PROVE  q \in Seq(C)
    <3>1. DOMAIN q = 1..Len(q) /\ Len(q) \in Nat /\ q = [k \in 1..Len(q) |-> q[k]]
      OBVIOUS
    <3>2. \A k \in DOMAIN q : q[k] \in C
      <4> SUFFICES ASSUME NEW k \in DOMAIN q PROVE q[k] \in C
        OBVIOUS
      <4>1. PICK c \in Commands : c = q[k]
        BY IdsAreNumbers
      <4>2. c.id \in 1..issued
        BY <2>1, <4>1
      <4>3. c \in C
        BY <4>2 DEF Commands
      <4> QED BY <4>1, <4>3
    <3> HIDE DEF C
    <3> QED BY <3>1, <3>2
  <2>2. driver.prompt \in Seq(Commands) /\ applied \in Seq(Commands) /\ queue \in Seq(Commands)
    BY DEF ControlInv, ControlFlows, Flow
  <2>3. driver.prompt \in Seq(C) /\ applied \in Seq(C) /\ queue \in Seq(C)
    BY <2>1, <2>2, QueuedAreIssued, Zenon
  <2>4. \A j, k \in DOMAIN queue : queue[j].id = queue[k].id => j = k
    <3>1. Increasing(queue) /\ (\A k \in DOMAIN queue : queue[k].id \in Nat) /\ DOMAIN queue \subseteq Nat
      BY <2>2, IdsAreNumbers DEF ControlInv, ControlFlows, Flow
    <3> QED BY <3>1, SMTT(30) DEF Increasing
  <2>5. driver \in [pc : ControlPcs, prompt : Seq(C)]
    BY <2>3 DEF ControlInv, ControlShape
  <2> HIDE DEF C
  <2>6. /\ (driver.prompt # <<>> <=> driver.pc = "prepare")
        /\ issued \in 0..MaxCommands /\ steers \cup withdrawn \subseteq 1..issued
        /\ latest \in [CommandIds -> {0, 1}]
    BY DEF ControlInv, ControlShape, Stranded, CommandIds
  <2> QED BY <2>3, <2>4, <2>5, <2>6 DEF ControlTypeOK, C, ControlPcs
<1> QED BY <1>1, ControlAlways, PTL

(* What reaches the transcript is what the operator was last shown, once, and nothing
   they withdrew, for any number of commands (control.rs, drain_queued_controls). *)
THEOREM AppliedAlwaysAsShown == ControlSpec => []AppliedAsShown
<1>1. ControlInv => AppliedAsShown
  <2> SUFFICES ASSUME ControlInv PROVE AppliedAsShown
    OBVIOUS
  <2>1. AllAsShown(applied, issued, steers, latest, withdrawn) /\ InOrder(applied, steers)
        /\ applied \in Seq(Commands)
    BY DEF ControlInv, ControlFlows, Flow
  <2>2. DOMAIN applied \subseteq Nat
    BY <2>1
  <2>3. \A j, k \in DOMAIN applied : applied[j].id = applied[k].id => j = k
    BY <2>1, <2>2 DEF InOrder
  <2>4. withdrawn \cap QueuedIds(applied) = {}
    BY <2>1, SMTT(30) DEF AllAsShown, AsShown, QueuedIds
  <2> QED BY <2>1, <2>3, <2>4 DEF AppliedAsShown, AllAsShown, AsShown
<1> QED BY <1>1, ControlAlways, PTL

(* Steers take effect in the order they were entered, for any number of commands and
   interrupts (drain_runtime_steers, interrupt_active_turn). *)
THEOREM SteersAlwaysInOrder == ControlSpec => []SteersInOrder
<1>1. ControlInv => SteersInOrder
  BY DEF ControlInv, ControlFlows, Flow, InOrder, SteersInOrder
<1> QED BY <1>1, ControlAlways, PTL

(* Once no task runs no steer waits, and no prompt either unless an interrupt left it
   there, for any number of commands (maybe_finish_turn, interrupt_active_turn). *)
THEOREM NothingIsStranded == ControlSpec => []NothingStranded
<1>1. ControlInv => NothingStranded
  <2> SUFFICES ASSUME ControlInv PROVE NothingStranded
    OBVIOUS
  <2>1. queue \in Seq(Commands)
    BY DEF ControlInv, ControlFlows, Flow
  <2>2. ASSUME ~Driving PROVE Steers(queue) = <<>>
    <3>1. PICK s : s = Steers(queue)
      OBVIOUS
    <3>2. /\ s \in Seq(Commands) /\ From(s, queue)
          /\ \A k \in DOMAIN s : s[k] \in {c \in Range(queue) : c.kind = "steer"}
      BY <2>1, <3>1, KeptCommands DEF Steers, OfKind
    <3>3. \A k \in DOMAIN s : s[k].kind = "prompt"
      BY <2>2, <3>2 DEF ControlInv, Stranded, From
    <3>4. DOMAIN s = {}
      BY <3>2, <3>3
    <3> QED BY <3>1, <3>2, <3>4
  <2> QED BY <2>2 DEF ControlInv, Stranded, NothingStranded
<1> QED BY <1>1, ControlAlways, PTL
=============================================================================
