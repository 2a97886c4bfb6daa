---------------------------- MODULE QueueLemmas ----------------------------
(* What popping, appending and joining do to queues without repetition. *)
EXTENDS Naturals, SequencesExt, FiniteSetTheorems, SequenceTheorems, TLAPS

\* Popping removes exactly the head of a sequence without repetition.
LEMMA TailElements ==
  ASSUME NEW S, NEW q \in Seq(S), q # <<>>, IsInjective(q)
  PROVE  /\ Head(q) \in ToSet(q)
         /\ ToSet(Tail(q)) = ToSet(q) \ {Head(q)}
         /\ IsInjective(Tail(q))
<1> DEFINE n == Len(q)
<1>1. n \in Nat /\ n > 0 /\ DOMAIN q = 1 .. n /\ Head(q) = q[1]
  OBVIOUS
<1>2. DOMAIN Tail(q) = 1 .. n - 1 /\ \A i \in 1 .. n - 1 : Tail(q)[i] = q[i + 1]
  BY <1>1
<1>3. \A j \in 1 .. n : j # 1 => j - 1 \in 1 .. n - 1 /\ Tail(q)[j - 1] = q[j]
  BY <1>1, <1>2
<1>4. \A i \in 1 .. n - 1 : i + 1 \in 1 .. n /\ q[i + 1] # q[1]
  BY <1>1 DEF IsInjective
<1>5. IsInjective(Tail(q))
  BY <1>1, <1>2, <1>4 DEF IsInjective
<1>6. ToSet(Tail(q)) \subseteq ToSet(q) \ {Head(q)}
  BY <1>1, <1>2, <1>4 DEF ToSet
<1>7. ToSet(q) \ {Head(q)} \subseteq ToSet(Tail(q))
  <2> SUFFICES ASSUME NEW t \in ToSet(q), t # q[1] PROVE t \in ToSet(Tail(q))
    BY <1>1
  <2>1. PICK j \in 1 .. n : q[j] = t
    BY <1>1 DEF ToSet
  <2>2. j # 1
    BY <2>1
  <2>3. j - 1 \in 1 .. n - 1 /\ Tail(q)[j - 1] = t
    BY <1>3, <2>1, <2>2
  <2> QED
    BY <1>2, <2>3 DEF ToSet
<1>8. Head(q) \in ToSet(q)
  BY <1>1 DEF ToSet
<1> QED
  BY <1>5, <1>6, <1>7, <1>8

\* Appending adds exactly the appended entry.
LEMMA AppendElements ==
  ASSUME NEW S, NEW q \in Seq(S), NEW t \in S, t \notin ToSet(q), IsInjective(q)
  PROVE  /\ Append(q, t) \in Seq(S) /\ Len(Append(q, t)) = Len(q) + 1
         /\ ToSet(Append(q, t)) = ToSet(q) \cup {t}
         /\ IsInjective(Append(q, t))
<1> DEFINE n == Len(q)
           r == Append(q, t)
<1>1. n \in Nat /\ DOMAIN q = 1 .. n /\ DOMAIN r = 1 .. n + 1 /\ r \in Seq(S)
  OBVIOUS
<1>2. r[n + 1] = t /\ \A i \in 1 .. n : r[i] = q[i]
  BY <1>1
<1>3. \A i \in 1 .. n : q[i] # t
  BY <1>1 DEF ToSet
<1>4. IsInjective(r)
  BY <1>1, <1>2, <1>3 DEF IsInjective
<1>5. ToSet(r) = ToSet(q) \cup {t}
  BY <1>1, <1>2 DEF ToSet
<1> QED
  BY <1>1, <1>4, <1>5

\* Induction over the numbers, for what a set can hold.
LEMMA SetInduction ==
  ASSUME NEW S, 0 \in S, \A n \in Nat : n \in S => n + 1 \in S
  PROVE  Nat \subseteq S
<1> DEFINE R == StrictSubsetOrdering(Nat)
           F == FiniteSubsetsOf(Nat)
           T == {0 .. n : n \in Nat \ S}
<1>1. IsWellFoundedOn(R, F)
  BY FS_StrictSubsetOrderingWellFounded
<1>2. SUFFICES ASSUME Nat \ S # {} PROVE FALSE
  OBVIOUS
<1>3. T # {}
  BY <1>2
<1>4. T \subseteq F
  <2> SUFFICES ASSUME NEW n \in Nat PROVE 0 .. n \in F
    OBVIOUS
  <2>1. IsFiniteSet(0 .. n)
    BY FS_Interval
  <2>2. 0 .. n \subseteq Nat
    OBVIOUS
  <2> QED
    BY <2>1, <2>2 DEF FiniteSubsetsOf
<1>5. PICK X \in T : \A Y \in T : ~ (<<Y, X>> \in R)
  <2> HIDE DEF R, F, T
  <2> QED
    BY <1>1, <1>3, <1>4, WFMin
<1>6. PICK x \in Nat \ S : X = 0 .. x
  OBVIOUS
<1>7. x # 0 /\ x - 1 \in Nat
  OBVIOUS
<1>8. x - 1 \notin S
  <2> SUFFICES ASSUME x - 1 \in S PROVE FALSE
    OBVIOUS
  <2>1. (x - 1) + 1 = x
    BY <1>7
  <2> QED
    BY <1>6, <1>7, <2>1
<1>9. 0 .. x - 1 \in T
  BY <1>7, <1>8
<1>10. <<0 .. x - 1, 0 .. x>> \in R
  <2>1. x \in 0 .. x /\ x \notin 0 .. x - 1
    BY <1>7
  <2>2. 0 .. x - 1 \in SUBSET Nat /\ 0 .. x \in SUBSET Nat /\ 0 .. x - 1 \subseteq 0 .. x
    BY <1>7
  <2> QED
    BY <2>1, <2>2 DEF StrictSubsetOrdering
<1> QED
  BY <1>5, <1>6, <1>9, <1>10

\* The images of finitely many things are finitely many.
LEMMA FiniteImage ==
  ASSUME NEW S, IsFiniteSet(S), NEW f, DOMAIN f = S, f = [x \in S |-> f[x]]
  PROVE  IsFiniteSet({f[x] : x \in S}) /\ Cardinality({f[x] : x \in S}) <= Cardinality(S)
<1> DEFINE T == {f[x] : x \in S}
<1>1. f \in [S -> T] /\ \A y \in T : \E x \in S : f[x] = y
  OBVIOUS
<1>2. f \in Surjection(S, T)
  BY <1>1 DEF Surjection
<1> HIDE DEF T
<1>3. IsFiniteSet(T) /\ Cardinality(T) <= Cardinality(S)
  BY <1>2, FS_Surjection
<1> QED
  BY <1>3 DEF T

\* A sequence that is not empty has a first member.
LEMMA FirstOfSeq ==
  ASSUME NEW S, NEW s \in Seq(S), s # <<>>
  PROVE  s[1] \in S
<1>1. Len(s) \in Nat \ {0}
  BY EmptySeq
<1>2. 1 \in 1 .. Len(s)
  BY <1>1
<1> QED
  BY <1>2, ElementOfSeq

\* The empty sequence stores nothing.
LEMMA EmptyElements == ToSet(<<>>) = {} /\ IsInjective(<<>>)
  BY DEF ToSet, IsInjective

\* The members of two sets without a common one.
LEMMA DisjointCount ==
  ASSUME NEW S, NEW T, IsFiniteSet(S), IsFiniteSet(T), S \cap T = {}
  PROVE  /\ IsFiniteSet(S \cup T) /\ Cardinality(S \cup T) = Cardinality(S) + Cardinality(T)
         /\ Cardinality(S) \in Nat /\ Cardinality(T) \in Nat
<1>1. Cardinality(S \cup T) = Cardinality(S) + Cardinality(T) - Cardinality(S \cap T)
  BY FS_Union
<1>2. Cardinality(S \cap T) = 0
  BY FS_EmptySet
<1>3. IsFiniteSet(S \cup T) /\ Cardinality(S) \in Nat /\ Cardinality(T) \in Nat
  BY FS_Union, FS_CardinalityType
<1> QED
  BY <1>1, <1>2, <1>3

\* What remains of a set when some members are taken out.
LEMMA RestCount ==
  ASSUME NEW S, NEW T, IsFiniteSet(S), T \subseteq S
  PROVE  /\ IsFiniteSet(S \ T) /\ Cardinality(S \ T) = Cardinality(S) - Cardinality(T)
         /\ Cardinality(S) \in Nat /\ Cardinality(T) \in Nat /\ Cardinality(S \ T) \in Nat
<1>1. S \cap T = T
  OBVIOUS
<1>2. Cardinality(S \ T) = Cardinality(S) - Cardinality(T)
  BY <1>1, FS_Difference
<1>3. IsFiniteSet(S \ T) /\ IsFiniteSet(T)
  BY FS_Subset, FS_Difference
<1> QED
  BY <1>2, <1>3, FS_CardinalityType

-----------------------------------------------------------------------------
(* The queue of a port scanner: entries with a port each, no port twice.      *)

QueuedPorts(q) == {q[i].port : i \in 1 .. Len(q)}
PortsDistinct(q) == \A i, j \in 1 .. Len(q) : q[i].port = q[j].port => i = j

\* Every port once, in order, before its first try.
LEMMA FirstEntries ==
  ASSUME NEW n \in Nat, NEW E, \A i \in 1 .. n : [port |-> i, try |-> 1] \in E
  PROVE  LET q == [i \in 1 .. n |-> [port |-> i, try |-> 1]]
         IN  /\ q \in Seq(E) /\ Len(q) = n
             /\ QueuedPorts(q) = 1 .. n /\ PortsDistinct(q)
<1> DEFINE q == [i \in 1 .. n |-> [port |-> i, try |-> 1]]
<1>1. \A i \in 1 .. n : q[i] \in E /\ q[i].port = i
  OBVIOUS
<1>2. q \in Seq(E) /\ Len(q) = n
  BY <1>1
<1> HIDE DEF q
<1>3. QueuedPorts(q) = 1 .. n /\ PortsDistinct(q)
  BY <1>1, <1>2 DEF QueuedPorts, PortsDistinct
<1> QED
  BY <1>2, <1>3 DEF q

\* Popping takes the port of the head out.
LEMMA TailEntries ==
  ASSUME NEW E, NEW q \in Seq(E), q # <<>>, PortsDistinct(q)
  PROVE  /\ Head(q) \in E /\ Head(q).port \in QueuedPorts(q)
         /\ Tail(q) \in Seq(E) /\ Len(Tail(q)) = Len(q) - 1
         /\ QueuedPorts(Tail(q)) = QueuedPorts(q) \ {Head(q).port}
         /\ PortsDistinct(Tail(q))
<1> DEFINE n == Len(q)
           t == Tail(q)
<1>1. n \in Nat /\ n > 0 /\ Head(q) = q[1] /\ \A i \in 1 .. n : q[i] \in E
  <2>1. n \in Nat /\ n > 0 /\ Head(q) = q[1]
    OBVIOUS
  <2> QED
    BY <2>1, ElementOfSeq
<1>2. t \in Seq(E) /\ Len(t) = n - 1 /\ \A i \in 1 .. n - 1 : t[i] = q[i + 1]
  BY <1>1
<1> HIDE DEF n, t
<1>3. Len(q) = n
  BY DEF n
<1>4. \A i \in 1 .. n - 1 : i + 1 \in 1 .. n /\ q[i + 1].port # q[1].port
  BY <1>1, <1>3 DEF PortsDistinct
<1>5. PortsDistinct(t)
  BY <1>1, <1>2, <1>3, <1>4 DEF PortsDistinct
<1>6. QueuedPorts(t) \subseteq QueuedPorts(q) \ {q[1].port}
  BY <1>2, <1>3, <1>4 DEF QueuedPorts
<1>7. QueuedPorts(q) \ {q[1].port} \subseteq QueuedPorts(t)
  <2> SUFFICES ASSUME NEW i \in 1 .. n, q[i].port # q[1].port PROVE q[i].port \in QueuedPorts(t)
    BY <1>3 DEF QueuedPorts
  <2>1. i # 1 /\ i - 1 \in 1 .. n - 1
    BY <1>1
  <2>2. t[i - 1] = q[i]
    BY <1>1, <1>2, <2>1
  <2> QED
    BY <1>2, <2>1, <2>2 DEF QueuedPorts
<1>8. q[1].port \in QueuedPorts(q)
  BY <1>1, <1>3 DEF QueuedPorts
<1> QED
  BY <1>1, <1>2, <1>3, <1>5, <1>6, <1>7, <1>8 DEF t

\* Two queues of different ports make one.
LEMMA JoinedEntries ==
  ASSUME NEW E, NEW q \in Seq(E), NEW r \in Seq(E),
         PortsDistinct(q), PortsDistinct(r), QueuedPorts(q) \cap QueuedPorts(r) = {}
  PROVE  /\ q \o r \in Seq(E) /\ Len(q \o r) = Len(q) + Len(r)
         /\ QueuedPorts(q \o r) = QueuedPorts(q) \cup QueuedPorts(r) /\ PortsDistinct(q \o r)
<1> DEFINE m == Len(q)
           n == Len(r)
           s == q \o r
<1>1. m \in Nat /\ n \in Nat
  OBVIOUS
<1>2. /\ s \in Seq(E) /\ Len(s) = m + n
      /\ \A i \in 1 .. m + n : s[i] = IF i <= m THEN q[i] ELSE r[i - m]
  OBVIOUS
<1>3. Len(q) = m /\ Len(r) = n
  OBVIOUS
<1> HIDE DEF m, n, s
<1>4. \A i \in 1 .. m : i \in 1 .. m + n /\ s[i] = q[i] /\ q[i].port \in QueuedPorts(q)
  BY <1>1, <1>2, <1>3 DEF QueuedPorts
<1>5. \A i \in 1 .. m + n : i \notin 1 .. m => i - m \in 1 .. n /\ s[i] = r[i - m]
  BY <1>1, <1>2
<1>6. \A j \in 1 .. n : j + m \in 1 .. m + n /\ s[j + m] = r[j] /\ r[j].port \in QueuedPorts(r)
  <2> TAKE j \in 1 .. n
  <2>1. j + m \in 1 .. m + n /\ ~ (j + m <= m) /\ (j + m) - m = j
    BY <1>1
  <2>2. s[j + m] = r[j]
    BY <1>2, <2>1
  <2> QED
    BY <1>3, <2>1, <2>2 DEF QueuedPorts
<1>7. PortsDistinct(s)
  <2> SUFFICES ASSUME NEW i \in 1 .. m + n, NEW j \in 1 .. m + n, s[i].port = s[j].port
               PROVE  i = j
    BY <1>2 DEF PortsDistinct
  <2>1. CASE i \in 1 .. m /\ j \in 1 .. m
    BY <1>3, <1>4, <2>1 DEF PortsDistinct
  <2>2. CASE i \notin 1 .. m /\ j \notin 1 .. m
    <3>1. i - m = j - m
      BY <1>3, <1>5, <2>2 DEF PortsDistinct
    <3> QED
      BY <1>1, <3>1
  <2>3. CASE i \in 1 .. m /\ j \notin 1 .. m
    <3>1. s[i].port \in QueuedPorts(q) /\ s[j].port \in QueuedPorts(r)
      BY <1>3, <1>4, <1>5, <2>3 DEF QueuedPorts
    <3> QED
      BY <3>1
  <2>4. CASE i \notin 1 .. m /\ j \in 1 .. m
    <3>1. s[i].port \in QueuedPorts(r) /\ s[j].port \in QueuedPorts(q)
      BY <1>3, <1>4, <1>5, <2>4 DEF QueuedPorts
    <3> QED
      BY <3>1
  <2> QED
    BY <2>1, <2>2, <2>3, <2>4
<1>8. QueuedPorts(s) \subseteq QueuedPorts(q) \cup QueuedPorts(r)
  BY <1>2, <1>3, <1>4, <1>5 DEF QueuedPorts
<1>9. QueuedPorts(q) \subseteq QueuedPorts(s)
  BY <1>2, <1>3, <1>4 DEF QueuedPorts
<1>10. QueuedPorts(r) \subseteq QueuedPorts(s)
  BY <1>2, <1>3, <1>6 DEF QueuedPorts
<1> QED
  BY <1>2, <1>3, <1>7, <1>8, <1>9, <1>10 DEF s

\* A finite set put in a row, every member once.
LEMMA RowOfSet ==
  ASSUME NEW S, IsFiniteSet(S), NEW order \in SetToSeqs(S)
  PROVE  /\ Len(order) = Cardinality(S) /\ Len(order) \in Nat
         /\ order \in [1 .. Len(order) -> S]
         /\ \A i, j \in 1 .. Len(order) : order[i] = order[j] => i = j
         /\ \A p \in S : \E i \in 1 .. Len(order) : order[i] = p
<1> DEFINE n == Cardinality(S)
<1>1. n \in Nat
  BY FS_CardinalityType
<1>2. order \in [1 .. n -> S] /\ \A i, j \in 1 .. n : i # j => order[i] # order[j]
  BY DEF SetToSeqs
<1>3. Len(order) = n
  BY <1>1, <1>2
<1>4. order \in Injection(1 .. n, S)
  BY <1>2 DEF Injection, IsInjective
<1>5. IsFiniteSet(1 .. n) /\ Cardinality(1 .. n) = n
  BY <1>1, FS_Interval
<1>6. order \in Surjection(1 .. n, S)
  BY <1>4, <1>5, FS_Injection
<1> QED
  BY <1>1, <1>2, <1>3, <1>6 DEF Surjection

\* The same with the ports of entries.
LEMMA RowOfEntries ==
  ASSUME NEW E, NEW S, IsFiniteSet(S), NEW order \in SetToSeqs(S),
         NEW q \in [1 .. Len(order) -> E],
         \A i \in 1 .. Len(order) : q[i].port = order[i]
  PROVE  /\ q \in Seq(E) /\ Len(q) = Cardinality(S)
         /\ QueuedPorts(q) = S /\ PortsDistinct(q)
<1> DEFINE n == Len(order)
<1>1. /\ n = Cardinality(S) /\ n \in Nat /\ order \in [1 .. n -> S]
      /\ \A i, j \in 1 .. n : order[i] = order[j] => i = j
      /\ \A p \in S : \E i \in 1 .. n : order[i] = p
  BY RowOfSet
<1>2. q \in [1 .. n -> E] /\ \A i \in 1 .. n : q[i].port = order[i]
  OBVIOUS
<1> HIDE DEF n
<1>3. q \in Seq(E) /\ Len(q) = n
  BY <1>1, <1>2
<1>4. PortsDistinct(q)
  BY <1>1, <1>2, <1>3 DEF PortsDistinct
<1>5. QueuedPorts(q) = S
  BY <1>1, <1>2, <1>3 DEF QueuedPorts
<1> QED
  BY <1>1, <1>3, <1>4, <1>5

\* The length of a queue is the number of its ports.
LEMMA CountEntries ==
  ASSUME NEW E, NEW q \in Seq(E), PortsDistinct(q)
  PROVE  IsFiniteSet(QueuedPorts(q)) /\ Cardinality(QueuedPorts(q)) = Len(q)
<1> DEFINE n == Len(q)
           f == [i \in 1 .. n |-> q[i].port]
<1>1. n \in Nat /\ \A i \in 1 .. n : q[i] \in E
  BY ElementOfSeq, LenProperties
<1>2. f \in Bijection(1 .. n, QueuedPorts(q))
  <2>1. f \in Injection(1 .. n, QueuedPorts(q))
    BY DEF QueuedPorts, PortsDistinct, Injection, IsInjective
  <2>2. f \in Surjection(1 .. n, QueuedPorts(q))
    BY DEF QueuedPorts, Surjection
  <2> QED
    BY <2>1, <2>2 DEF Bijection
<1>3. ExistsBijection(1 .. n, QueuedPorts(q))
  BY <1>2 DEF ExistsBijection
<1> HIDE DEF n
<1>4. IsFiniteSet(1 .. n) /\ Cardinality(1 .. n) = n
  BY <1>1, FS_Interval
<1> QED
  BY <1>3, <1>4, FS_Bijection DEF n

\* A port is in the queue at one place, or at none.
LEMMA PlacesOfPort ==
  ASSUME NEW E, NEW q \in Seq(E), PortsDistinct(q), NEW p
  PROVE  Cardinality({i \in 1 .. Len(q) : q[i].port = p}) = IF p \in QueuedPorts(q) THEN 1 ELSE 0
<1>1. CASE p \in QueuedPorts(q)
  <2>1. PICK i \in 1 .. Len(q) : q[i].port = p
    BY <1>1 DEF QueuedPorts
  <2>2. {j \in 1 .. Len(q) : q[j].port = p} = {i}
    BY <2>1 DEF PortsDistinct
  <2>3. Cardinality({i}) = 1
    BY FS_Singleton
  <2> QED
    BY <1>1, <2>2, <2>3
<1>2. CASE p \notin QueuedPorts(q)
  <2>1. {j \in 1 .. Len(q) : q[j].port = p} = {}
    BY <1>2 DEF QueuedPorts
  <2> QED
    BY <1>2, <2>1, FS_EmptySet
<1> QED
  BY <1>1, <1>2

-----------------------------------------------------------------------------
(* The first of a set of numbers.                                          *)

\* A set of numbers has a least one.
LEMMA Smallest ==
  ASSUME NEW T, T \subseteq Nat, T # {}
  PROVE  \E m \in T : \A n \in T : m <= n
<1> SUFFICES ASSUME \A m \in T : \E n \in T : ~(m <= n) PROVE FALSE
  OBVIOUS
<1> DEFINE S == {n \in Nat : \A k \in 0 .. n : k \notin T}
<1>1. 0 \in S
  <2>1. 0 \notin T
    OBVIOUS
  <2> QED
    BY <2>1
<1>2. ASSUME NEW n \in Nat, n \in S PROVE n + 1 \in S
  <2>1. n + 1 \notin T
    <3> SUFFICES ASSUME n + 1 \in T PROVE FALSE
      OBVIOUS
    <3>1. PICK m \in T : ~(n + 1 <= m)
      OBVIOUS
    <3>2. m \in 0 .. n
      BY <3>1
    <3> QED
      BY <1>2, <3>2
  <2>2. \A k \in 0 .. n + 1 : k \in 0 .. n \/ k = n + 1
    OBVIOUS
  <2> QED
    BY <1>2, <2>1, <2>2
<1> HIDE DEF S
<1>3. Nat \subseteq S
  BY <1>1, <1>2, SetInduction
<1>4. PICK n : n \in T
  OBVIOUS
<1>5. n \in S /\ n \in 0 .. n
  BY <1>3, <1>4
<1> QED
  BY <1>4, <1>5 DEF S

\* The first members of a set of numbers, as many as there is room for.
Firsts(N, room) == {i \in N : Cardinality({j \in N : j <= i}) <= room}

\* There are no more of them than there is room for.
LEMMA FirstsFew ==
  ASSUME NEW n \in Nat, NEW N, N \subseteq 1 .. n, NEW room \in Nat
  PROVE  /\ IsFiniteSet(Firsts(N, room)) /\ Firsts(N, room) \subseteq N
         /\ Cardinality(Firsts(N, room)) \in Nat /\ Cardinality(Firsts(N, room)) <= room
<1> DEFINE upto(i) == {j \in N : j <= i}
           I == Firsts(N, room)
<1>1. IsFiniteSet(N)
  <2>1. IsFiniteSet(1 .. n)
    BY FS_Interval
  <2> QED
    BY <2>1, FS_Subset
<1>2. IsFiniteSet(I) /\ I \subseteq N
  BY <1>1, FS_Subset DEF Firsts
<1>3. Cardinality(I) \in Nat
  <2> HIDE DEF I
  <2> QED
    BY <1>2, FS_CardinalityType
<1>4. CASE I = {}
  <2>1. Cardinality(I) = 0
    <3> HIDE DEF I
    <3> QED
      BY <1>4, FS_EmptySet
  <2> HIDE DEF I
  <2> QED
    BY <1>2, <1>3, <2>1 DEF I
<1>5. CASE I # {}
  <2> DEFINE D == {n - i : i \in I}
  <2>1. D \subseteq Nat /\ D # {}
    <3>1. I \subseteq 1 .. n
      BY <1>2
    <3> HIDE DEF I
    <3>2. \A i \in I : n - i \in Nat
      BY <3>1
    <3> QED
      BY <1>5, <3>2
  <2>2. PICK d \in D : \A k \in D : d <= k
    <3> HIDE DEF D
    <3> QED
      BY <2>1, Smallest
  <2>3. PICK m \in I : d = n - m
    BY <2>2
  <2>4. \A i \in I : i <= m
    <3> SUFFICES ASSUME NEW i \in I PROVE i <= m
      OBVIOUS
    <3>1. i \in 1 .. n /\ m \in 1 .. n
      BY <1>2
    <3>2. n - i \in D
      OBVIOUS
    <3>3. n - m <= n - i
      BY <2>2, <2>3, <3>2
    <3> HIDE DEF I, D
    <3> QED
      BY <3>1, <3>3
  <2>5. I \subseteq upto(m) /\ IsFiniteSet(upto(m))
    BY <1>1, <1>2, <2>4, FS_Subset
  <2>6. Cardinality(I) <= Cardinality(upto(m)) /\ Cardinality(upto(m)) \in Nat
    <3> HIDE DEF I, upto
    <3> QED
      BY <2>5, FS_Subset, FS_CardinalityType
  <2>7. Cardinality(upto(m)) <= room
    BY <2>3 DEF Firsts
  <2>8. Cardinality(I) <= room
    <3> HIDE DEF I, upto
    <3> QED
      BY <1>3, <2>6, <2>7
  <2> HIDE DEF I, upto
  <2> QED
    BY <1>2, <1>3, <2>8 DEF I
<1> QED
  BY <1>4, <1>5

=============================================================================
