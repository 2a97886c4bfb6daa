----------------------------- MODULE TaskProofs -----------------------------
(***************************************************************************)
(* Theorems about what single tasks and searches conclude, for any world   *)
(* outside: the fetches of a web task (WebFetch), the crawl of one         *)
(* (Crawl), the search for a username (UsernameSearch), the probing of a   *)
(* port (ServiceProbe), the rules that name its product (FingerprintMerge) *)
(* and what is said of a host's operating system (OsInference).            *)
(***************************************************************************)
EXTENDS WebFetch, Crawl, UsernameSearch, ServiceProbe, FingerprintMerge, OsInference, QueueLemmas

-----------------------------------------------------------------------------
(* Values found one after the other.                                       *)

\* The values from 0 to n: the first, and each what the step makes of the one
\* before.
Unfolds(f, n, S, base, step) ==
  f \in [0 .. n -> S] /\ f[0] = base /\ \A k \in 1 .. n : f[k] = step[<<k, f[k - 1]>>]

\* A function is defined by its value at 0 and a step from each value to the next.
LEMMA Recursion ==
  ASSUME NEW n \in Nat, NEW S, NEW base \in S, NEW step \in [(1 .. n) \X S -> S]
  PROVE  \E f : Unfolds(f, n, S, base, step)
<1> DEFINE Up(f, m) == f \in [0 .. m -> S] /\ f[0] = base /\ \A k \in 1 .. m : f[k] = step[<<k, f[k - 1]>>]
           T == {m \in Nat : m <= n => \E f : Up(f, m)}
<1>1. 0 \in T
  <2> DEFINE f == [k \in 0 .. 0 |-> base]
  <2>1. f \in [0 .. 0 -> S] /\ f[0] = base /\ 1 .. 0 = {}
    OBVIOUS
  <2> HIDE DEF f
  <2>2. Up(f, 0)
    BY <2>1
  <2> QED
    BY <2>2
<1>2. ASSUME NEW m \in Nat, m \in T PROVE m + 1 \in T
  <2> SUFFICES ASSUME m + 1 <= n PROVE \E f : Up(f, m + 1)
    OBVIOUS
  <2>1. PICK g : Up(g, m)
    BY <1>2
  <2> DEFINE h == [k \in 0 .. m + 1 |-> IF k <= m THEN g[k] ELSE step[<<m + 1, g[m]>>]]
  <2>2. g[m] \in S /\ step[<<m + 1, g[m]>>] \in S
    BY <2>1
  <2>3. h \in [0 .. m + 1 -> S]
    BY <2>1, <2>2
  <2>4. h[0] = base
    BY <2>1
  <2>5. ASSUME NEW k \in 1 .. m + 1 PROVE h[k] = step[<<k, h[k - 1]>>]
    <3>1. h[k - 1] = g[k - 1]
      OBVIOUS
    <3>2. CASE k <= m
      <4>1. h[k] = g[k] /\ k \in 1 .. m
        BY <3>2
      <4> HIDE DEF h
      <4> QED
        BY <2>1, <3>1, <4>1
    <3>3. CASE k = m + 1
      <4>1. h[k] = step[<<m + 1, g[m]>>] /\ k - 1 = m
        BY <3>3
      <4> HIDE DEF h
      <4> QED
        BY <3>1, <3>3, <4>1
    <3> QED
      BY <3>2, <3>3
  <2> HIDE DEF h
  <2> QED
    BY <2>3, <2>4, <2>5
<1> HIDE DEF T
<1>3. Nat \subseteq T
  BY <1>1, <1>2, SetInduction
<1>4. n \in T /\ n <= n
  BY <1>3
<1>5. PICK f : Up(f, n)
  BY <1>4 DEF T
<1> QED
  BY <1>5 DEF Unfolds

\* What a row of addresses leaves when some are permitted: at most MaxDials of
\* them, each once.
LEMMA FirstPermittedFew ==
  ASSUME NEW A, NEW addresses \in Seq(A), IsInjective(addresses), NEW permitted, MaxDials \in Nat
  PROVE  LET fit == FirstPermitted(addresses, permitted)
         IN  /\ fit \in Seq(permitted) /\ Len(fit) <= MaxDials /\ IsInjective(fit)
<1> DEFINE n == Len(addresses)
           S == Seq(permitted)
           step == [kv \in (1 .. n) \X S |-> IF addresses[kv[1]] \in permitted /\ Len(kv[2]) < MaxDials
                                              THEN Append(kv[2], addresses[kv[1]]) ELSE kv[2]]
           Fit(f) == f = [k \in 0 .. n |-> IF k = 0 THEN <<>>
                                           ELSE IF addresses[k] \in permitted /\ Len(f[k - 1]) < MaxDials
                                                THEN Append(f[k - 1], addresses[k]) ELSE f[k - 1]]
<1>1. n \in Nat /\ <<>> \in S
  OBVIOUS
<1>2. step \in [(1 .. n) \X S -> S] /\ \A k \in 1 .. n, v \in S : step[<<k, v>>] = IF addresses[k] \in permitted /\ Len(v) < MaxDials
                                              THEN Append(v, addresses[k]) ELSE v
  OBVIOUS
<1> HIDE DEF step
<1>3. PICK f : Unfolds(f, n, S, <<>>, step)
  <2> HIDE DEF S, n, Fit
  <2> QED
    BY <1>1, <1>2, Recursion
<1>4. Fit(f)
  <2> SUFFICES ASSUME NEW k \in 0 .. n
               PROVE  f[k] = IF k = 0 THEN <<>>
                                           ELSE IF addresses[k] \in permitted /\ Len(f[k - 1]) < MaxDials
                                                THEN Append(f[k - 1], addresses[k]) ELSE f[k - 1]
    BY <1>3 DEF Unfolds
  <2>1. CASE k = 0
    BY <1>3, <2>1 DEF Unfolds
  <2>2. CASE k # 0
    <3>1. k \in 1 .. n /\ k - 1 \in 0 .. n
      BY <2>2
    <3>2. f[k] = step[<<k, f[k - 1]>>] /\ f[k - 1] \in S
      BY <1>3, <3>1 DEF Unfolds
    <3> HIDE DEF S
    <3> QED
      BY <1>2, <2>2, <3>1, <3>2
  <2> QED
    BY <2>1, <2>2
<1> DEFINE g == CHOOSE h : Fit(h)
<1>5. Fit(g)
  BY <1>4
<1>6. FirstPermitted(addresses, permitted) = g[n]
  BY DEF FirstPermitted
<1> HIDE DEF g
<1>7. g[0] = <<>> /\ \A k \in 1 .. n : g[k] = IF addresses[k] \in permitted /\ Len(g[k - 1]) < MaxDials
                                              THEN Append(g[k - 1], addresses[k]) ELSE g[k - 1]
  <2>1. g = [k \in 0 .. n |-> IF k = 0 THEN <<>>
                                           ELSE IF addresses[k] \in permitted /\ Len(g[k - 1]) < MaxDials
                                                THEN Append(g[k - 1], addresses[k]) ELSE g[k - 1]]
    BY <1>5
  <2> HIDE DEF n, Fit
  <2>2. 0 \in 0 .. n /\ \A k \in 1 .. n : k \in 0 .. n /\ k # 0
    BY <1>1
  <2> QED
    BY <2>1, <2>2
<1> HIDE DEF Fit
<1> DEFINE Good(k) == g[k] \in S /\ Len(g[k]) <= MaxDials /\ IsInjective(g[k])
                        /\ \A i \in DOMAIN g[k] : \E j \in 1 .. k : g[k][i] = addresses[j]
           T == {k \in Nat : k <= n => Good(k)}
<1>8. 0 \in T
  <2>1. g[0] = <<>> /\ <<>> \in S /\ Len(<<>>) = 0 /\ DOMAIN <<>> = {}
    BY <1>1, <1>7
  <2>2. IsInjective(<<>>)
    BY EmptyElements
  <2>3. Good(0)
    BY <2>1, <2>2
  <2> HIDE DEF Good
  <2> QED
    BY <2>3
<1>9. ASSUME NEW k \in Nat, k \in T PROVE k + 1 \in T
  <2> SUFFICES ASSUME k + 1 <= n PROVE Good(k + 1)
    OBVIOUS
  <2>1. Good(k)
    BY <1>9
  <2>2. g[k + 1] = IF addresses[k + 1] \in permitted /\ Len(g[k]) < MaxDials
                   THEN Append(g[k], addresses[k + 1]) ELSE g[k]
    <3>1. k + 1 \in 1 .. n /\ (k + 1) - 1 = k
      BY <1>1
    <3> HIDE DEF n
    <3> QED
      BY <1>7, <3>1
  <2>3. CASE g[k + 1] = g[k]
    BY <2>1, <2>3
  <2>4. CASE /\ addresses[k + 1] \in permitted /\ Len(g[k]) < MaxDials
             /\ g[k + 1] = Append(g[k], addresses[k + 1])
    <3>1. PICK q : q = g[k]
      OBVIOUS
    <3>2. PICK a : a = addresses[k + 1]
      OBVIOUS
    <3>3. /\ q \in Seq(permitted) /\ Len(q) <= MaxDials /\ IsInjective(q) /\ a \in permitted
          /\ \A i \in DOMAIN q : \E j \in 1 .. k : q[i] = addresses[j]
      BY <2>1, <2>4, <3>1, <3>2
    <3>4. a \notin ToSet(q)
      <4> SUFFICES ASSUME a \in ToSet(q) PROVE FALSE
        OBVIOUS
      <4>1. PICK j \in 1 .. k : a = addresses[j]
        BY <3>3 DEF ToSet
      <4>2. j \in DOMAIN addresses /\ k + 1 \in DOMAIN addresses /\ j # k + 1
        OBVIOUS
      <4> QED
        BY <3>2, <4>1, <4>2 DEF IsInjective
    <3>5. /\ Append(q, a) \in Seq(permitted) /\ Len(Append(q, a)) = Len(q) + 1 /\ IsInjective(Append(q, a))
      BY <3>3, <3>4, AppendElements
    <3>6. \A i \in DOMAIN Append(q, a) : \E j \in 1 .. k + 1 : Append(q, a)[i] = addresses[j]
      <4> SUFFICES ASSUME NEW i \in 1 .. Len(q) + 1 PROVE \E j \in 1 .. k + 1 : Append(q, a)[i] = addresses[j]
        BY <3>3
      <4>1. CASE i = Len(q) + 1
        BY <3>2, <3>3, <4>1
      <4>2. CASE i # Len(q) + 1
        <5>1. Append(q, a)[i] = q[i] /\ i \in DOMAIN q
          BY <3>3, <4>2
        <5> QED
          BY <3>3, <5>1
      <4> QED
        BY <4>1, <4>2
    <3>7. g[k + 1] = Append(q, a) /\ Len(q) < MaxDials
      BY <2>4, <3>1, <3>2
    <3>8. Len(q) + 1 <= MaxDials
      BY <3>3, <3>7
    <3> QED
      BY <3>5, <3>6, <3>7, <3>8
  <2> QED
    BY <2>2, <2>3, <2>4
<1> HIDE DEF T
<1>10. Nat \subseteq T
  BY <1>8, <1>9, SetInduction
<1>11. n \in T /\ n <= n
  BY <1>1, <1>10
<1>12. Good(n)
  BY <1>11 DEF T
<1> QED
  BY <1>6, <1>12

\* The members of a finite set in some order.
LEMMA OrderOfSet ==
  ASSUME NEW S, IsFiniteSet(S)
  PROVE  SetToSeq(S) \in Seq(S) /\ IsInjective(SetToSeq(S))
<1> DEFINE n == Cardinality(S)
<1>1. n \in Nat
  BY FS_CardinalityType
<1>2. PICK f : f \in Bijection(1 .. n, S)
  BY FS_NatBijection, FS_CardinalityType DEF ExistsBijection
<1>3. f \in [1 .. n -> S] /\ IsInjective(f)
  BY <1>2 DEF Bijection, Injection, IsInjective
<1>4. SetToSeq(S) \in [1 .. n -> S] /\ IsInjective(SetToSeq(S))
  BY <1>3 DEF SetToSeq
<1> HIDE DEF n
<1>5. SetToSeq(S) \in Seq(S)
  BY <1>1, <1>4
<1> QED
  BY <1>4, <1>5

-----------------------------------------------------------------------------
(* Web fetches.                                                            *)

Starts == ToSet(PlanStarts(yworld.task))
MidHop == ydials # <<>> \/ yread # NoRead

\* Whether the first addresses of a hop are at hand or its answer is read, its
\* URL is one more than the redirects followed.
ChainOK ==
  /\ DOMAIN ychain = {"start", "url", "visited", "steps"}
  /\ ychain.steps \in Nat /\ ychain.steps <= MaxRedirectsAt(yworld.level)
  /\ ychain = NoChain => ydials = <<>> /\ yread = NoRead
  /\ ychain # NoChain =>
       /\ ychain.start \notin ToSet(ystarts) /\ IsFiniteSet(ychain.visited)
       /\ Cardinality(ychain.visited) = ychain.steps + (IF MidHop THEN 1 ELSE 0)
       /\ MidHop => ychain.url \in ychain.visited /\ HostOf(ychain.url) \in yworld.permitted

DialsOK == ydials \in Seq(yworld.permitted) /\ Len(ydials) <= MaxDials /\ IsInjective(ydials)

ReadOK ==
  /\ DOMAIN yread = {"phase", "address", "head", "body", "left", "why"}
  /\ yread.phase \in {"none", "head", "body", "end"} /\ yread.body \in 0 .. BodyCap /\ yread.left \in Nat
  /\ yread.why = "size" => yread.body >= BodyCap /\ yread.phase = "end"
  /\ yread # NoRead => yread.phase # "none" /\ ydials = <<>>

\* A chain's requests are for what it visited, and those of its hop come last.
ContactsOK ==
  /\ \E X : ycontacts \in Seq(X)
  /\ \A k \in DOMAIN ycontacts : ycontacts[k].start \notin ToSet(ystarts)
  /\ ychain # NoChain =>
       \A k \in DOMAIN ycontacts : ycontacts[k].start = ychain.start => ycontacts[k].url \in ychain.visited
  /\ ychain # NoChain /\ MidHop =>
       \A i \in DOMAIN ycontacts : ycontacts[i].start = ychain.start /\ ycontacts[i].url = ychain.url =>
         /\ \A j \in i .. Len(ycontacts) : ycontacts[j].start = ychain.start /\ ycontacts[j].url = ychain.url
         /\ ycontacts[i].address \notin ToSet(ydials)

\* A start is still to be taken, is at hand, or something is said of it.
SaidOf(start) ==
  \/ \E o \in yseen : o.url = start
  \/ \E n \in ynotes : n.url = start
  \/ \E n \in ynotes : n.why = "late"
StartsOK ==
  /\ ystarts \in Seq(Starts) /\ IsInjective(ystarts) /\ <<>> \notin Starts
  /\ yend \in {"no", "done"} =>
       \A start \in Starts : start \in ToSet(ystarts) \/ SaidOf(start) \/ (ychain # NoChain /\ ychain.url = start)
  /\ yend = "done" => ystarts = <<>> /\ ychain = NoChain
  /\ yend = "cancelled" => yseen = {}

FetchInv ==
  /\ yworld \in FetchWorlds /\ ypermitted \subseteq yworld.permitted
  /\ ChainOK /\ DialsOK /\ ReadOK /\ ContactsOK /\ StartsOK
  /\ StaysInScope /\ ChainsBounded /\ SizeCutsMarked

\* The URLs a task starts from are different.
LEMMA StartsDistinct ==
  ASSUME NEW w \in FetchWorlds
  PROVE  LET s == PlanStarts(w.task) IN s \in Seq(ToSet(s)) /\ IsInjective(s) /\ <<>> \notin ToSet(s)
<1>1. w.task.kind \in {"none", "host", "url"} /\ IsFiniteSet(w.task.ports) /\ (w.task.kind = "url" => w.task.url # <<>>)
  BY FetchAssumption
<1> DEFINE Good(s) == s \in Seq(ToSet(s)) /\ IsInjective(s) /\ <<>> \notin ToSet(s)
<1>2. CASE w.task.kind = "url"
  <2>1. PlanStarts(w.task) = <<w.task.url>>
    BY <1>2 DEF PlanStarts
  <2>2. ToSet(<<w.task.url>>) = {w.task.url}
    BY DEF ToSet
  <2>3. IsInjective(<<w.task.url>>)
    BY DEF IsInjective
  <2> QED
    BY <1>1, <1>2, <2>1, <2>2, <2>3
<1>3. CASE w.task.kind = "none"
  <2>1. PlanStarts(w.task) = <<>>
    BY <1>3 DEF PlanStarts
  <2> QED
    BY <2>1, EmptyElements
<1>4. CASE w.task.kind = "host" /\ w.task.ports = {}
  <2> DEFINE a == <<"http", w.task.host, "/">>
             b == <<"https", w.task.host, "/">>
  <2>1. PlanStarts(w.task) = <<a, b>>
    BY <1>4 DEF PlanStarts
  <2>2. a # b /\ a # <<>> /\ b # <<>>
    OBVIOUS
  <2> HIDE DEF a, b
  <2>3. ToSet(<<a, b>>) = {a, b}
    BY DEF ToSet
  <2>4. IsInjective(<<a, b>>)
    BY <2>2 DEF IsInjective
  <2> QED
    BY <2>1, <2>2, <2>3, <2>4
<1>5. CASE w.task.kind = "host" /\ w.task.ports # {}
  <2> DEFINE S == {<<"http", w.task.host, port>> : port \in w.task.ports}
  <2>1. PlanStarts(w.task) = SetToSeq(S)
    BY <1>5 DEF PlanStarts
  <2>2. IsFiniteSet(S)
    <3> DEFINE f == [port \in w.task.ports |-> <<"http", w.task.host, port>>]
    <3>1. DOMAIN f = w.task.ports /\ f = [port \in w.task.ports |-> f[port]] /\ S = {f[port] : port \in w.task.ports}
      OBVIOUS
    <3> HIDE DEF f, S
    <3> QED
      BY <1>1, <3>1, FiniteImage
  <2>3. <<>> \notin S
    OBVIOUS
  <2> HIDE DEF S
  <2>4. SetToSeq(S) \in Seq(S) /\ IsInjective(SetToSeq(S))
    BY <2>2, OrderOfSet
  <2>5. PICK s \in Seq(S) : s = SetToSeq(S)
    BY <2>4
  <2>6. s \in Seq(ToSet(s)) /\ ToSet(s) \subseteq S
    BY DEF ToSet
  <2> QED
    BY <2>1, <2>3, <2>4, <2>5, <2>6
<1> QED
  BY <1>1, <1>2, <1>3, <1>4, <1>5

\* Before the first start nothing was asked.
LEMMA FetchStarts == FetchInit => FetchInv
<1> SUFFICES ASSUME FetchInit PROVE FetchInv
  OBVIOUS
<1> USE DEF FetchInit
<1>1. yworld \in FetchWorlds /\ ypermitted \subseteq yworld.permitted
  OBVIOUS
<1>2. ChainOK
  <2>1. MaxRedirectsAt(yworld.level) >= 0
    BY <1>1, FetchAssumption DEF MaxRedirectsAt
  <2> QED
    BY <2>1 DEF ChainOK, NoChain
<1>3. DialsOK
  BY EmptyElements, FetchAssumption DEF DialsOK
<1>4. ReadOK
  BY FetchAssumption DEF ReadOK, NoRead
<1>5. ContactsOK
  BY DEF ContactsOK
<1>6. StartsOK
  BY <1>1, StartsDistinct DEF StartsOK, Starts
<1>7. StaysInScope /\ SizeCutsMarked
  BY DEF StaysInScope, SizeCutsMarked
<1>8. ChainsBounded
  BY DEF ChainsBounded
<1> QED
  BY <1>1, <1>2, <1>3, <1>4, <1>5, <1>6, <1>7, <1>8 DEF FetchInv

\* A note that is put is there.
LEMMA Noted ==
  ASSUME NEW u, NEW why, ynotes' = NotePut(u, why)
  PROVE  ynotes \subseteq ynotes' /\ \E n \in ynotes' : n.url = u /\ n.why = why
<1> DEFINE n == [url |-> u, why |-> why]
<1>1. n \in ynotes' /\ n.url = u /\ n.why = why /\ ynotes \subseteq ynotes'
  BY DEF NotePut
<1> QED
  BY <1>1

\* A step that makes no request leaves the requests as they are.
LEMMA RequestsStand ==
  ASSUME FetchInv, ycontacts' = ycontacts, yworld' = yworld
  PROVE  StaysInScope' /\ ChainsBounded'
<1>1. StaysInScope /\ ChainsBounded
  BY DEF FetchInv
<1>2. StaysInScope'
  BY <1>1 DEF StaysInScope
<1>3. \A start : UrlsOf(start)' = UrlsOf(start)
  BY DEF UrlsOf
<1>4. ChainsBounded'
  BY <1>1, <1>3 DEF ChainsBounded
<1> QED
  BY <1>2, <1>4

\* Around the chain at hand: a cancellation, the time, the scope, the end.
LEMMA SurroundingsKeep ==
  ASSUME FetchInv, yworld' = yworld, ypermitted' \subseteq ypermitted, ystarts' = ystarts, ychain' = ychain,
         ydials' = ydials, yread' = yread, ynotes' = ynotes, ycontacts' = ycontacts,
         \/ yend' = yend /\ yseen' = yseen
         \/ yend' = "done" /\ yseen' = yseen /\ ystarts = <<>> /\ ychain = NoChain /\ yend = "no"
         \/ yend' = "cancelled" /\ yseen' = {}
  PROVE  FetchInv'
<1> USE DEF FetchInv
<1>1. yworld' \in FetchWorlds /\ ypermitted' \subseteq yworld'.permitted
  OBVIOUS
<1>2. ChainOK'
  BY DEF ChainOK, MidHop
<1>3. DialsOK' /\ ReadOK'
  BY DEF DialsOK, ReadOK
<1>4. ContactsOK'
  BY DEF ContactsOK, MidHop
<1>5. Starts' = Starts
  BY DEF Starts
<1>6. StartsOK'
  <2>1. CASE yend' = "cancelled" /\ yseen' = {}
    BY <1>5, <2>1 DEF StartsOK
  <2>2. CASE yend' = yend /\ yseen' = yseen
    BY <1>5, <2>2 DEF StartsOK, SaidOf
  <2>3. CASE yend' = "done" /\ yseen' = yseen /\ ystarts = <<>> /\ ychain = NoChain /\ yend = "no"
    BY <1>5, <2>3 DEF StartsOK, SaidOf
  <2> QED
    BY <2>1, <2>2, <2>3
<1>7. SizeCutsMarked'
  BY DEF SizeCutsMarked
<1> QED
  BY <1>1, <1>2, <1>3, <1>4, <1>6, <1>7, RequestsStand

\* A start is left: it is noted, or a chain begins at it.
LEMMA TakeStartKeeps == ASSUME FetchInv, TakeStart PROVE FetchInv'
<1> USE DEF FetchInv
<1> DEFINE url == Head(ystarts)
           fresh == [start |-> url, url |-> url, visited |-> {}, steps |-> 0]
<1>1. /\ yworld' = yworld /\ ypermitted' = ypermitted /\ ydials' = ydials /\ yread' = yread /\ yseen' = yseen
      /\ ycontacts' = ycontacts /\ yend' = yend /\ ychain = NoChain /\ ystarts # <<>> /\ yend = "no"
  BY DEF TakeStart, Working
<1>2. \/ ystarts' = <<>> /\ ynotes' = NotePut(url, "late") /\ ychain' = ychain
      \/ ystarts' = Tail(ystarts) /\ ynotes' = ynotes /\ ychain' = fresh
      \/ ystarts' = Tail(ystarts) /\ ynotes' = NotePut(url, "outside") /\ ychain' = ychain
  BY DEF TakeStart
<1> HIDE DEF TakeStart
<1>3. /\ ystarts \in Seq(Starts) /\ IsInjective(ystarts) /\ <<>> \notin Starts
      /\ url \in ToSet(ystarts) /\ ToSet(Tail(ystarts)) = ToSet(ystarts) \ {url} /\ IsInjective(Tail(ystarts))
  <2>1. ystarts \in Seq(Starts) /\ IsInjective(ystarts) /\ <<>> \notin Starts
    BY DEF StartsOK
  <2> HIDE DEF FetchInv, url
  <2> QED
    BY <1>1, <2>1, TailElements DEF url
<1>4. url \in Starts /\ url # <<>>
  BY <1>1, <1>3 DEF ToSet
<1>5. ydials = <<>> /\ yread = NoRead
  BY <1>1 DEF ChainOK
<1>6. /\ ystarts' \in Seq(Starts) /\ IsInjective(ystarts') /\ ToSet(ystarts') \subseteq ToSet(ystarts)
      /\ ychain' = NoChain \/ (ychain' = fresh /\ url \notin ToSet(ystarts'))
  <2>1. CASE ystarts' = <<>>
    BY <1>1, <1>2, <1>3, <2>1, EmptyElements
  <2>2. CASE ystarts' = Tail(ystarts)
    <3>1. Tail(ystarts) \in Seq(Starts)
      BY <1>1, <1>3
    <3> QED
      BY <1>1, <1>2, <1>3, <2>2, <3>1
  <2> QED
    BY <1>2, <2>1, <2>2
<1>7. ~MidHop'
  BY <1>1, <1>5 DEF MidHop
<1>8. ChainOK'
  <2>1. MaxRedirectsAt(yworld.level) >= 0
    BY FetchAssumption DEF MaxRedirectsAt
  <2>2. IsFiniteSet({}) /\ Cardinality({}) = 0
    BY FS_EmptySet
  <2>3. CASE ychain' = NoChain
    BY <1>1, <1>5, <2>1, <2>3 DEF ChainOK, NoChain
  <2>4. CASE ychain' = fresh /\ url \notin ToSet(ystarts')
    <3>1. /\ ychain'.steps = 0 /\ ychain'.visited = {} /\ ychain'.start = url /\ DOMAIN ychain' = {"start", "url", "visited", "steps"}
      BY <2>4
    <3> QED
      BY <1>1, <1>5, <1>7, <2>1, <2>2, <2>4, <3>1 DEF ChainOK
  <2> QED
    BY <1>6, <2>3, <2>4
<1>9. DialsOK' /\ ReadOK'
  BY <1>1 DEF DialsOK, ReadOK
<1>10. ContactsOK'
  <2>1. ychain' = NoChain \/ (ychain'.start = url)
    BY <1>6
  <2>2. \A k \in DOMAIN ycontacts : ycontacts[k].start \notin ToSet(ystarts)
    BY DEF ContactsOK
  <2> QED
    BY <1>1, <1>3, <1>6, <1>7, <2>1, <2>2 DEF ContactsOK
<1>11. StartsOK'
  <2>1. Starts' = Starts
    BY <1>1 DEF Starts
  <2>2. ASSUME NEW start \in Starts
        PROVE  start \in ToSet(ystarts') \/ SaidOf(start)' \/ (ychain' # NoChain /\ ychain'.url = start)
    <3>1. start \in ToSet(ystarts) \/ SaidOf(start)
      BY <1>1, <2>2 DEF StartsOK
    <3>2. ynotes \subseteq ynotes'
      BY <1>2 DEF NotePut
    <3>3. CASE SaidOf(start)
      BY <1>1, <3>2, <3>3 DEF SaidOf
    <3>4. CASE start \in ToSet(ystarts) /\ ystarts' = <<>>
      <4>1. ynotes' = NotePut(url, "late") \/ Tail(ystarts) = <<>>
        BY <1>2, <3>4
      <4>2. CASE ynotes' = NotePut(url, "late")
        BY <4>2, Noted DEF SaidOf
      <4>3. CASE ynotes' # NotePut(url, "late")
        <5>1. start = url
          BY <1>2, <1>3, <3>4, <4>1, <4>3, EmptyElements
        <5>2. CASE ychain' = fresh
          <6>1. ychain'.url = url /\ NoChain.url = <<>>
            BY <5>2 DEF NoChain
          <6> QED
            BY <1>4, <5>1, <6>1
        <5>3. CASE ynotes' = NotePut(url, "outside")
          BY <5>1, <5>3, Noted DEF SaidOf
        <5> QED
          BY <1>2, <4>3, <5>2, <5>3
      <4> QED
        BY <4>2, <4>3
    <3>5. CASE start \in ToSet(ystarts) /\ ystarts' = Tail(ystarts)
      <4>1. CASE start # url
        BY <1>3, <3>5, <4>1
      <4>2. CASE start = url
        <5>1. CASE ychain' = fresh
          <6>1. ychain'.url = url /\ NoChain.url = <<>>
            BY <5>1 DEF NoChain
          <6> QED
            BY <1>4, <4>2, <6>1
        <5>2. CASE ynotes' = NotePut(url, "outside") \/ ynotes' = NotePut(url, "late")
          BY <4>2, <5>2, Noted DEF SaidOf
        <5> QED
          BY <1>2, <5>1, <5>2
      <4> QED
        BY <4>1, <4>2
    <3> QED
      BY <1>2, <3>1, <3>3, <3>4, <3>5
  <2> QED
    BY <1>1, <1>3, <1>6, <2>1, <2>2 DEF StartsOK
<1>12. SizeCutsMarked'
  BY <1>1 DEF SizeCutsMarked
<1> QED
  BY <1>1, <1>8, <1>9, <1>10, <1>11, <1>12, RequestsStand

\* The addresses of a hop are permitted ones, few, and different.
LEMMA DialsPermitted ==
  ASSUME FetchInv, NEW url, HostOf(url) \in ypermitted
  PROVE  LET dials == Dialled(url, ypermitted)
         IN  dials \in Seq(yworld.permitted) /\ Len(dials) <= MaxDials /\ IsInjective(dials)
<1> DEFINE h == HostOf(url)
<1>1. ypermitted \subseteq yworld.permitted /\ MaxDials \in Nat \ {0} /\ h \in yworld.permitted
  BY FetchAssumption DEF FetchInv
<1>2. CASE IsLiteral(h)
  <2>1. Dialled(url, ypermitted) = <<h>>
    BY <1>2 DEF Dialled
  <2> HIDE DEF h
  <2>2. PICK g : g = h
    OBVIOUS
  <2>4. <<g>> \in Seq(yworld.permitted)
    <3>1. PICK P : P = yworld.permitted
      OBVIOUS
    <3>2. g \in P
      BY <1>1, <2>2, <3>1
    <3>3. <<g>> \in Seq(P)
      BY <3>2
    <3> QED
      BY <3>1, <3>3
  <2>5. Len(<<g>>) = 1
    OBVIOUS
  <2>3. IsInjective(<<h>>)
    BY DEF IsInjective
  <2> QED
    BY <1>1, <2>1, <2>2, <2>3, <2>4, <2>5
<1>3. CASE ~IsLiteral(h)
  <2> DEFINE row == yworld.resolves[h]
  <2>1. Dialled(url, ypermitted) = FirstPermitted(row, ypermitted)
    BY <1>3 DEF Dialled
  <2>2. row \in Seq(ToSet(row)) /\ IsInjective(row)
    BY <1>1, <1>3, FetchAssumption DEF FetchInv
  <2> HIDE DEF row
  <2>3. PICK dials : dials = FirstPermitted(row, ypermitted)
    OBVIOUS
  <2>4. dials \in Seq(ypermitted) /\ Len(dials) <= MaxDials /\ IsInjective(dials)
    BY <1>1, <2>2, <2>3, FirstPermittedFew
  <2>5. dials \in Seq(yworld.permitted)
    BY <1>1, <2>4
  <2> QED
    BY <2>1, <2>3, <2>4, <2>5
<1> QED
  BY <1>2, <1>3

\* A step that ends the chain with a note of its URL, and makes no request.
LEMMA ChainEnds ==
  ASSUME FetchInv, NEW u, NEW why, ychain # NoChain, u = ychain.url,
         yworld' = yworld, ypermitted' = ypermitted, ystarts' = ystarts, yend' = yend, ycontacts' = ycontacts,
         ychain' = NoChain, ydials' = <<>>, yread' = NoRead,
         yseen \subseteq yseen', \A o \in yseen' \ yseen : o.why = "size" => o.cut, yend = "no",
         ynotes \subseteq ynotes', (\E n \in ynotes' : n.url = u) \/ \E o \in yseen' : o.url = u
  PROVE  FetchInv'
<1> USE DEF FetchInv
<1>1. ChainOK'
  <2>1. MaxRedirectsAt(yworld.level) >= 0
    BY FetchAssumption DEF MaxRedirectsAt
  <2> QED
    BY <2>1 DEF ChainOK, NoChain
<1>2. DialsOK'
  BY EmptyElements, FetchAssumption DEF DialsOK
<1>3. ReadOK'
  BY FetchAssumption DEF ReadOK, NoRead
<1>4. ContactsOK'
  BY DEF ContactsOK
<1>5. StartsOK'
  <2>1. Starts' = Starts
    BY DEF Starts
  <2>2. ASSUME NEW start \in Starts PROVE start \in ToSet(ystarts) \/ SaidOf(start)'
    <3>1. start \in ToSet(ystarts) \/ SaidOf(start) \/ start = u
      BY DEF StartsOK
    <3> QED
      BY <3>1 DEF SaidOf
  <2> QED
    BY <2>1, <2>2 DEF StartsOK
<1>6. SizeCutsMarked'
  BY DEF SizeCutsMarked
<1> QED
  BY <1>1, <1>2, <1>3, <1>4, <1>5, <1>6, RequestsStand

\* A hop is refused with a note, or its URL is visited and its addresses are at
\* hand.
LEMMA TakeHopKeeps == ASSUME FetchInv, NEW stop, TakeHop(stop) PROVE FetchInv'
<1> DEFINE url == ychain.url
           dials == Dialled(url, ypermitted)
<1>1. /\ yworld' = yworld /\ ypermitted' = ypermitted /\ ystarts' = ystarts /\ yread' = yread /\ yseen' = yseen
      /\ ycontacts' = ycontacts /\ yend' = yend /\ yend = "no"
      /\ ychain # NoChain /\ ydials = <<>> /\ yread = NoRead
  BY DEF TakeHop, AtHop, Working
<1>2. \/ \E why : ychain' = NoChain /\ ynotes' = NotePut(url, why) /\ ydials' = ydials
      \/ /\ url \notin ychain.visited /\ HostOf(url) \in ypermitted /\ dials # <<>>
         /\ ychain' = [ychain EXCEPT !.visited = @ \cup {url}] /\ ydials' = dials /\ ynotes' = ynotes
  BY DEF TakeHop
<1> HIDE DEF url
<1>3. CASE \E why : ychain' = NoChain /\ ynotes' = NotePut(url, why) /\ ydials' = ydials
  <2>1. PICK why : ychain' = NoChain /\ ynotes' = NotePut(url, why) /\ ydials' = ydials
    BY <1>3
  <2>2. ynotes \subseteq ynotes' /\ \E n \in ynotes' : n.url = url
    BY <2>1, Noted
  <2> QED
    BY <1>1, <2>1, <2>2, ChainEnds DEF url
<1>4. CASE /\ url \notin ychain.visited /\ HostOf(url) \in ypermitted /\ dials # <<>>
           /\ ychain' = [ychain EXCEPT !.visited = @ \cup {url}] /\ ydials' = dials /\ ynotes' = ynotes
  <2> HIDE DEF dials
  <2>1. DOMAIN ychain = {"start", "url", "visited", "steps"}
    BY DEF FetchInv, ChainOK
  <2>2. /\ ychain'.visited = ychain.visited \cup {url} /\ ychain'.url = url /\ ychain'.steps = ychain.steps
        /\ ychain'.start = ychain.start /\ DOMAIN ychain' = DOMAIN ychain
    BY <1>4, <2>1 DEF url
  <2>3. dials \in Seq(yworld.permitted) /\ Len(dials) <= MaxDials /\ IsInjective(dials)
    BY <1>4, DialsPermitted DEF dials
  <2>4. ychain' # NoChain
    <3>1. NoChain.visited = {}
      BY DEF NoChain
    <3> QED
      BY <2>2, <3>1
  <2>5. MidHop' /\ ~MidHop
    BY <1>1, <1>4 DEF MidHop
  <2>6. ChainOK'
    <3>1. /\ ychain.steps \in Nat /\ ychain.steps <= MaxRedirectsAt(yworld.level)
          /\ ychain.start \notin ToSet(ystarts) /\ IsFiniteSet(ychain.visited) /\ Cardinality(ychain.visited) = ychain.steps
      BY <1>1, <2>5 DEF FetchInv, ChainOK
    <3>2. IsFiniteSet(ychain'.visited) /\ Cardinality(ychain'.visited) = ychain.steps + 1
      <4>1. IsFiniteSet(ychain.visited \cup {url}) /\ Cardinality(ychain.visited \cup {url}) = Cardinality(ychain.visited) + 1
        BY <1>4, <3>1, FS_AddElement
      <4> QED
        BY <2>2, <3>1, <4>1
    <3>3. ychain'.url \in ychain'.visited /\ HostOf(ychain'.url) \in yworld.permitted
      BY <1>4, <2>2 DEF FetchInv
    <3> QED
      BY <1>1, <2>1, <2>2, <2>4, <2>5, <3>1, <3>2, <3>3 DEF ChainOK
  <2>7. DialsOK'
    BY <1>1, <1>4, <2>3 DEF DialsOK
  <2>8. ReadOK'
    BY <1>1 DEF FetchInv, ReadOK
  <2>9. ContactsOK'
    <3>1. \A k \in DOMAIN ycontacts : ycontacts[k].start = ychain.start => ycontacts[k].url \in ychain.visited
      BY <1>1 DEF FetchInv, ContactsOK
    <3> QED
      BY <1>1, <1>4, <2>2, <3>1 DEF FetchInv, ContactsOK
  <2>10. StartsOK'
    <3>1. Starts' = Starts
      BY <1>1 DEF Starts
    <3> QED
      BY <1>1, <1>4, <2>2, <2>4, <3>1 DEF FetchInv, StartsOK, SaidOf, url
  <2>11. SizeCutsMarked'
    BY <1>1 DEF FetchInv, SizeCutsMarked
  <2>12. yworld' \in FetchWorlds /\ ypermitted' \subseteq yworld'.permitted
    BY <1>1 DEF FetchInv
  <2>13. StaysInScope' /\ ChainsBounded'
    BY <1>1, RequestsStand
  <2> QED
    BY <2>6, <2>7, <2>8, <2>9, <2>10, <2>11, <2>12, <2>13 DEF FetchInv
<1> QED
  BY <1>2, <1>3, <1>4

\* Nobody waits for a connection any longer.
LEMMA GiveUpDiallingKeeps == ASSUME FetchInv, GiveUpDialling PROVE FetchInv'
<1>1. /\ yworld' = yworld /\ ypermitted' = ypermitted /\ ystarts' = ystarts /\ yread' = yread /\ yseen' = yseen
      /\ ycontacts' = ycontacts /\ yend' = yend /\ yend = "no" /\ ydials # <<>>
      /\ ychain' = NoChain /\ ydials' = <<>> /\ ynotes' = NotePut(ychain.url, "unreachable")
  BY DEF GiveUpDialling, Working
<1>2. ychain # NoChain /\ yread = NoRead
  BY <1>1 DEF FetchInv, ChainOK, ReadOK
<1>3. ynotes \subseteq ynotes' /\ \E n \in ynotes' : n.url = ychain.url
  BY <1>1, Noted
<1> QED
  BY <1>1, <1>2, <1>3, ChainEnds

\* An address of the hop is tried: it is the last request, of a chain that is
\* at hand, and the hop's other addresses remain.
LEMMA DialKeeps == ASSUME FetchInv, NEW answers, Dial(answers) PROVE FetchInv'
<1> DEFINE a == Head(ydials)
           c == [url |-> ychain.url, address |-> a, start |-> ychain.start]
           n == Len(ycontacts)
<1>1. /\ yworld' = yworld /\ ypermitted' = ypermitted /\ ystarts' = ystarts /\ yseen' = yseen /\ yend' = yend
      /\ yend = "no" /\ ydials # <<>> /\ yread = NoRead /\ ycontacts' = Append(ycontacts, c)
  BY DEF Dial, Working
<1>2. \/ /\ yread' = [NoRead EXCEPT !.phase = "head", !.address = a, !.left = yworld.size]
         /\ ydials' = <<>> /\ ychain' = ychain /\ ynotes' = ynotes
      \/ /\ ydials' = Tail(ydials) /\ yread' = yread /\ Tail(ydials) # <<>> /\ ychain' = ychain /\ ynotes' = ynotes
      \/ /\ ydials' = <<>> /\ yread' = yread /\ ychain' = NoChain /\ ynotes' = NotePut(ychain.url, "unreachable")
  BY DEF Dial
<1>3. ychain # NoChain /\ MidHop
  BY <1>1 DEF FetchInv, ChainOK, MidHop
<1>4. /\ a \in yworld.permitted /\ a \in ToSet(ydials) /\ IsInjective(ydials)
      /\ ydials \in Seq(yworld.permitted) /\ Len(ydials) <= MaxDials
      /\ ToSet(Tail(ydials)) = ToSet(ydials) \ {a} /\ IsInjective(Tail(ydials))
  <2>1. ydials \in Seq(yworld.permitted) /\ Len(ydials) <= MaxDials /\ IsInjective(ydials)
    BY DEF FetchInv, DialsOK
  <2>2. Head(ydials) \in ToSet(ydials) /\ ToSet(Tail(ydials)) = ToSet(ydials) \ {Head(ydials)} /\ IsInjective(Tail(ydials))
    BY <1>1, <2>1, TailElements
  <2>3. Head(ydials) \in yworld.permitted
    BY <1>1, <2>1
  <2> QED
    BY <2>1, <2>2, <2>3
<1>13. PICK s, u, V : s = ychain.start /\ u = ychain.url /\ V = ychain.visited
  OBVIOUS
<1>5. PICK X : ycontacts \in Seq(X)
  BY DEF FetchInv, ContactsOK
<1>6. c.url = ychain.url /\ c.address = a /\ c.start = ychain.start
  OBVIOUS
<1> HIDE DEF c
<1>7. /\ n \in Nat /\ DOMAIN ycontacts = 1 .. n /\ DOMAIN ycontacts' = 1 .. n + 1 /\ Len(ycontacts') = n + 1
      /\ ycontacts'[n + 1] = c /\ \A k \in 1 .. n : ycontacts'[k] = ycontacts[k]
      /\ ycontacts' \in Seq(X \cup {c})
  BY <1>1, <1>5
<1> HIDE DEF n, a
<1>8. /\ ychain.url \in ychain.visited /\ HostOf(ychain.url) \in yworld.permitted /\ ychain.start \notin ToSet(ystarts)
      /\ IsFiniteSet(ychain.visited) /\ ychain.steps \in Nat /\ ychain.steps <= MaxRedirectsAt(yworld.level)
      /\ Cardinality(ychain.visited) = ychain.steps + 1
      /\ DOMAIN ychain = {"start", "url", "visited", "steps"}
  BY <1>3 DEF FetchInv, ChainOK
<1> DEFINE Same(i) == ycontacts[i].start = s /\ ycontacts[i].url = u
<1>9. /\ \A k \in 1 .. n : ycontacts[k].start \notin ToSet(ystarts)
      /\ \A k \in 1 .. n : ycontacts[k].start = s => ycontacts[k].url \in V
      /\ \A i \in 1 .. n : Same(i) => (\A j \in i .. n : Same(j)) /\ ycontacts[i].address \notin ToSet(ydials)
  BY <1>3, <1>7, <1>13 DEF FetchInv, ContactsOK, n
<1>10. StaysInScope'
  <2>1. \A k \in 1 .. n : ycontacts[k].address \in yworld.permitted /\ HostOf(ycontacts[k].url) \in yworld.permitted
    BY <1>7 DEF FetchInv, StaysInScope
  <2>2. ASSUME NEW k \in 1 .. n + 1
        PROVE  ycontacts'[k].address \in yworld.permitted /\ HostOf(ycontacts'[k].url) \in yworld.permitted
    <3>1. CASE k = n + 1
      BY <1>4, <1>6, <1>7, <1>8, <3>1
    <3>2. CASE k # n + 1
      BY <1>7, <2>1, <3>2
    <3> QED
      BY <3>1, <3>2
  <2> QED
    BY <1>1, <1>7, <2>2 DEF StaysInScope
<1>11. ASSUME NEW start, start # s PROVE UrlsOf(start)' = UrlsOf(start)
  <2>1. {k \in 1 .. n + 1 : ycontacts'[k].start = start} = {k \in 1 .. n : ycontacts[k].start = start}
    BY <1>6, <1>7, <1>11, <1>13
  <2> DEFINE K == {k \in 1 .. n : ycontacts[k].start = start}
  <2>2. {ycontacts'[k].url : k \in K} = {ycontacts[k].url : k \in K}
    BY <1>7
  <2> QED
    BY <1>7, <2>1, <2>2 DEF UrlsOf
<1>12. UrlsOf(s)' \subseteq V
  <2>1. ASSUME NEW k \in 1 .. n + 1, ycontacts'[k].start = s PROVE ycontacts'[k].url \in V
    <3>1. CASE k = n + 1
      BY <1>6, <1>7, <1>8, <1>13, <3>1
    <3>2. CASE k # n + 1
      BY <1>7, <1>9, <2>1, <3>2
    <3> QED
      BY <3>1, <3>2
  <2>2. {ycontacts'[k].url : k \in {k \in 1 .. n + 1 : ycontacts'[k].start = s}} \subseteq V
    BY <2>1
  <2> QED
    BY <2>2, <1>7 DEF UrlsOf
<1>14. ChainsBounded'
  <2> DEFINE cap == 1 + MaxRedirectsAt(yworld.level)
  <2>1. cap \in Nat /\ cap' = cap /\ MaxRedirectsAt(yworld.level) \in Nat
    BY <1>1, FetchAssumption DEF FetchInv, MaxRedirectsAt
  <2>2. IsFiniteSet(V) /\ Cardinality(V) <= cap /\ Cardinality(V) \in Nat
    BY <1>8, <1>13, <2>1, FS_CardinalityType
  <2>3. IsFiniteSet(UrlsOf(s)') /\ Cardinality(UrlsOf(s)') <= cap
    <3>1. PICK U : U = UrlsOf(s)'
      OBVIOUS
    <3>2. U \subseteq V
      BY <1>12, <3>1
    <3> HIDE DEF cap
    <3>3. IsFiniteSet(U) /\ Cardinality(U) <= Cardinality(V) /\ Cardinality(U) \in Nat
      BY <2>2, <3>2, FS_Subset, FS_CardinalityType
    <3> QED
      BY <2>1, <2>2, <3>1, <3>3
  <2> HIDE DEF cap
  <2>4. ASSUME NEW start \in {ycontacts'[k].start : k \in 1 .. n + 1} PROVE Cardinality(UrlsOf(start)') <= cap
    <3>1. CASE start = s
      BY <2>3, <3>1
    <3>2. CASE start # s
      <4>1. \E k \in 1 .. n : ycontacts[k].start = start
        BY <1>6, <1>7, <1>13, <2>4, <3>2
      <4>2. start \in {ycontacts[k].start : k \in DOMAIN ycontacts}
        BY <1>7, <4>1
      <4>3. Cardinality(UrlsOf(start)) <= cap
        BY <4>2 DEF FetchInv, ChainsBounded, cap
      <4> QED
        BY <1>11, <3>2, <4>3
    <3> QED
      BY <3>1, <3>2
  <2> DEFINE Apart(row, i, k) == /\ \A j \in i .. k : row[j].url = row[i].url
                                 /\ \A j \in (i + 1) .. k : row[j].address # row[i].address
  <2>5. ASSUME NEW i \in 1 .. n, NEW k \in 1 .. n, i < k, ycontacts[i].start = ycontacts[k].start,
               ycontacts[i].url = ycontacts[k].url
        PROVE  Apart(ycontacts, i, k)
    <3>1. ycontacts[i].start \in {ycontacts[m].start : m \in DOMAIN ycontacts}
      BY <1>7
    <3> QED
      BY <1>7, <2>5, <3>1 DEF FetchInv, ChainsBounded
  <2>6. ASSUME NEW i \in 1 .. n + 1, NEW k \in 1 .. n + 1, i < k, ycontacts'[i].start = ycontacts'[k].start,
               ycontacts'[i].url = ycontacts'[k].url
        PROVE  Apart(ycontacts', i, k)
    <3>1. i \in 1 .. n
      BY <1>7, <2>6
    <3>2. CASE k \in 1 .. n
      <4>1. Apart(ycontacts, i, k)
        BY <1>7, <2>5, <2>6, <3>1, <3>2
      <4>2. \A j \in i .. k : j \in 1 .. n /\ ycontacts'[j] = ycontacts[j]
        BY <1>7, <3>1, <3>2
      <4> QED
        BY <1>7, <3>1, <3>2, <4>1, <4>2
    <3>3. CASE k = n + 1
      <4>1. Same(i) /\ ycontacts'[i] = ycontacts[i]
        BY <1>6, <1>7, <1>13, <2>6, <3>1, <3>3
      <4>2. (\A j \in i .. n : Same(j)) /\ ycontacts[i].address # a
        BY <1>4, <1>9, <3>1, <4>1
      <4>3. ASSUME NEW j \in i .. n + 1 PROVE ycontacts'[j].url = ycontacts'[i].url
        <5>1. CASE j = n + 1
          BY <1>6, <1>7, <1>13, <4>1, <5>1
        <5>2. CASE j # n + 1
          <6>1. j \in i .. n /\ ycontacts'[j] = ycontacts[j]
            BY <1>7, <3>1, <5>2
          <6> QED
            BY <4>1, <4>2, <6>1
        <5> QED
          BY <5>1, <5>2
      <4>4. ASSUME NEW j \in i + 1 .. n + 1 PROVE ycontacts'[j].address # ycontacts'[i].address
        <5>1. CASE j = n + 1
          BY <1>6, <1>7, <4>1, <4>2, <5>1
        <5>2. CASE j # n + 1
          <6>1. j \in i .. n /\ j \in i + 1 .. j /\ j \in 1 .. n /\ i < j /\ ycontacts'[j] = ycontacts[j]
            BY <1>7, <3>1, <5>2
          <6>2. Same(j)
            BY <4>2, <6>1
          <6>3. Apart(ycontacts, i, j)
            BY <2>5, <3>1, <4>1, <6>1, <6>2
          <6> QED
            BY <4>1, <6>1, <6>3
        <5> QED
          BY <5>1, <5>2
      <4> QED
        BY <3>3, <4>3, <4>4
    <3> QED
      BY <1>7, <2>6, <3>2, <3>3
  <2> QED
    BY <1>7, <2>1, <2>4, <2>6 DEF ChainsBounded, cap
<1>15. /\ ychain'.start = s \/ ychain' = NoChain
       /\ ychain' # NoChain => ychain' = ychain
  BY <1>2, <1>13
<1>16. ychain' # NoChain => MidHop'
  <2>1. [NoRead EXCEPT !.phase = "head", !.address = a, !.left = yworld.size].phase = "head" /\ NoRead.phase = "none"
    BY DEF NoRead
  <2>2. CASE yread' = [NoRead EXCEPT !.phase = "head", !.address = a, !.left = yworld.size]
    BY <2>1, <2>2 DEF MidHop
  <2>3. CASE ydials' # <<>>
    BY <2>3 DEF MidHop
  <2> QED
    BY <1>2, <2>2, <2>3
<1>17. ChainOK'
  <2>1. MaxRedirectsAt(yworld.level) >= 0
    BY FetchAssumption DEF FetchInv, MaxRedirectsAt
  <2>2. CASE ychain' = NoChain
    <3>1. ydials' = <<>> /\ yread' = NoRead
      BY <1>1, <1>2, <1>3, <2>2
    <3> QED
      BY <1>1, <2>1, <2>2, <3>1 DEF ChainOK, NoChain
  <2>3. CASE ychain' # NoChain
    BY <1>1, <1>8, <1>15, <1>16, <2>3 DEF ChainOK
  <2> QED
    BY <2>2, <2>3
<1>18. DialsOK'
  <2>1. CASE ydials' = <<>>
    BY <1>1, <2>1, EmptyElements, FetchAssumption DEF DialsOK
  <2>2. CASE ydials' = Tail(ydials)
    <3>1. Tail(ydials) \in Seq(yworld.permitted) /\ Len(Tail(ydials)) = Len(ydials) - 1 /\ Len(ydials) \in Nat
      BY <1>1, <1>4
    <3>2. Len(Tail(ydials)) <= MaxDials
      BY <1>4, <3>1, FetchAssumption
    <3> QED
      BY <1>1, <1>4, <2>2, <3>1, <3>2 DEF DialsOK
  <2> QED
    BY <1>2, <2>1, <2>2
<1>19. ReadOK'
  <2>1. CASE yread' = yread
    BY <1>1, <2>1 DEF FetchInv, ReadOK
  <2>2. CASE /\ yread' = [NoRead EXCEPT !.phase = "head", !.address = a, !.left = yworld.size] /\ ydials' = <<>>
    <3>1. /\ yread'.phase = "head" /\ yread'.body = 0 /\ yread'.left = yworld.size /\ yread'.why = "open"
          /\ DOMAIN yread' = {"phase", "address", "head", "body", "left", "why"}
      BY <2>2 DEF NoRead
    <3>2. yworld.size \in Nat /\ BodyCap \in Nat
      BY FetchAssumption DEF FetchInv
    <3> QED
      BY <2>2, <3>1, <3>2 DEF ReadOK
  <2> QED
    BY <1>2, <2>1, <2>2
<1>20. ContactsOK'
  <2>1. \E Y : ycontacts' \in Seq(Y)
    BY <1>7
  <2>2. \A k \in DOMAIN ycontacts' : ycontacts'[k].start \notin ToSet(ystarts')
    BY <1>1, <1>6, <1>7, <1>8, <1>9
  <2>3. CASE ychain' = NoChain
    BY <2>1, <2>2, <2>3 DEF ContactsOK
  <2>4. CASE ychain' # NoChain
    <3>1. ychain'.start = s /\ ychain'.url = u /\ ychain'.visited = V
      BY <1>13, <1>15, <2>4
    <3>2. ASSUME NEW k \in 1 .. n + 1, ycontacts'[k].start = s PROVE ycontacts'[k].url \in V
      <4>1. CASE k = n + 1
        BY <1>6, <1>7, <1>8, <1>13, <4>1
      <4>2. CASE k # n + 1
        BY <1>7, <1>9, <3>2, <4>2
      <4> QED
        BY <4>1, <4>2
    <3>3. ToSet(ydials') \subseteq ToSet(ydials) \ {a}
      BY <1>2, <1>4, <2>4, EmptyElements
    <3>4. ASSUME NEW i \in 1 .. n + 1, ycontacts'[i].start = s, ycontacts'[i].url = u
          PROVE  /\ \A j \in i .. n + 1 : ycontacts'[j].start = s /\ ycontacts'[j].url = u
                 /\ ycontacts'[i].address \notin ToSet(ydials')
      <4>1. CASE i = n + 1
        <5>1. \A j \in i .. n + 1 : j = n + 1
          BY <1>7, <4>1
        <5> QED
          BY <1>6, <1>7, <1>13, <3>3, <4>1, <5>1
      <4>2. CASE i # n + 1
        <5>1. i \in 1 .. n /\ ycontacts'[i] = ycontacts[i] /\ Same(i)
          BY <1>7, <3>4, <4>2
        <5>2. (\A j \in i .. n : Same(j)) /\ ycontacts[i].address \notin ToSet(ydials)
          BY <1>9, <5>1
        <5>3. ASSUME NEW j \in i .. n + 1 PROVE ycontacts'[j].start = s /\ ycontacts'[j].url = u
          <6>1. CASE j = n + 1
            BY <1>6, <1>7, <1>13, <6>1
          <6>2. CASE j # n + 1
            <7>1. j \in i .. n /\ ycontacts'[j] = ycontacts[j]
              BY <1>7, <5>1, <6>2
            <7> QED
              BY <5>2, <7>1
          <6> QED
            BY <6>1, <6>2
        <5> QED
          BY <3>3, <5>1, <5>2, <5>3
      <4> QED
        BY <4>1, <4>2
    <3> QED
      BY <1>7, <2>1, <2>2, <3>1, <3>2, <3>4 DEF ContactsOK
  <2> QED
    BY <2>3, <2>4
<1>21. StartsOK'
  <2>1. Starts' = Starts
    BY <1>1 DEF Starts
  <2>2. ynotes \subseteq ynotes' /\ (ychain' # NoChain \/ \E e \in ynotes' : e.url = u)
    BY <1>2, <1>3, <1>13, Noted
  <2>3. ASSUME NEW start \in Starts
        PROVE  start \in ToSet(ystarts) \/ SaidOf(start)' \/ (ychain' # NoChain /\ ychain'.url = start)
    <3>1. start \in ToSet(ystarts) \/ SaidOf(start) \/ start = u
      BY <1>1, <1>13 DEF FetchInv, StartsOK
    <3>2. CASE SaidOf(start)
      BY <1>1, <2>2, <3>2 DEF SaidOf
    <3>3. CASE start = u
      <4>1. CASE ychain' # NoChain
        BY <1>13, <1>15, <3>3, <4>1
      <4>2. CASE \E e \in ynotes' : e.url = u
        BY <3>3, <4>2 DEF SaidOf
      <4> QED
        BY <2>2, <4>1, <4>2
    <3> QED
      BY <3>1, <3>2, <3>3
  <2> QED
    BY <1>1, <2>1, <2>3 DEF FetchInv, StartsOK
<1>22. SizeCutsMarked'
  BY <1>1 DEF FetchInv, SizeCutsMarked
<1>23. yworld' \in FetchWorlds /\ ypermitted' \subseteq yworld'.permitted
  BY <1>1 DEF FetchInv
<1> QED
  BY <1>10, <1>14, <1>17, <1>18, <1>19, <1>20, <1>21, <1>22, <1>23 DEF FetchInv

\* A piece of a response is read, or no more of it.
LEMMA ReadKeeps ==
  ASSUME FetchInv, yread.phase \in {"head", "body"}, yworld' = yworld, ypermitted' = ypermitted, ystarts' = ystarts,
         ychain' = ychain, ydials' = ydials, yseen' = yseen, ynotes' = ynotes, ycontacts' = ycontacts, yend' = yend,
         DOMAIN yread' = DOMAIN yread, yread'.phase \in {"head", "body", "end"}, yread'.body \in 0 .. BodyCap,
         yread'.left \in Nat, yread'.why = "size" => yread'.body >= BodyCap /\ yread'.phase = "end"
  PROVE  FetchInv'
<1> USE DEF FetchInv
<1>1. NoRead.phase = "none"
  BY DEF NoRead
<1>2. yread # NoRead /\ yread' # NoRead /\ ydials = <<>>
  BY <1>1 DEF ReadOK
<1>3. MidHop /\ MidHop'
  BY <1>2 DEF MidHop
<1>4. ychain # NoChain
  BY <1>2 DEF ChainOK
<1>5. ChainOK'
  BY <1>2, <1>3, <1>4 DEF ChainOK
<1>6. DialsOK'
  BY DEF DialsOK
<1>7. ReadOK'
  BY <1>2 DEF ReadOK
<1>8. ContactsOK'
  BY <1>3, <1>4 DEF ContactsOK
<1>9. StartsOK'
  BY DEF StartsOK, Starts, SaidOf
<1>10. SizeCutsMarked'
  BY DEF SizeCutsMarked
<1> QED
  BY <1>5, <1>6, <1>7, <1>8, <1>9, <1>10, RequestsStand

\* The bytes of one read.
LEMMA PieceKeeps ==
  ASSUME FetchInv, NEW piece \in ChunkSizes, ReadHead(piece) \/ ReadBody(piece) PROVE FetchInv'
<1>1. /\ yworld' = yworld /\ ypermitted' = ypermitted /\ ystarts' = ystarts
      /\ ychain' = ychain /\ ydials' = ydials /\ yseen' = yseen /\ ynotes' = ynotes /\ ycontacts' = ycontacts /\ yend' = yend
  BY DEF ReadHead, ReadBody, ReadStep
<1>2. /\ DOMAIN yread = {"phase", "address", "head", "body", "left", "why"} /\ yread.body \in 0 .. BodyCap
      /\ yread.left \in Nat /\ yread.phase \in {"head", "body"}
      /\ yread.why = "size" => yread.phase = "end"
  BY DEF FetchInv, ReadOK, ReadHead, ReadBody, ReadStep, Reading
<1>3. BodyCap \in Nat /\ piece \in 1 .. BodyCap
  BY FetchAssumption
<1>4. CASE ReadHead(piece)
  <2>1. PICK phase, why, body :
             /\ phase \in {"body", "end"} /\ why \in {"open", "whole"} /\ body \in {0, piece - 1}
             /\ yread' = [yread EXCEPT !.phase = phase, !.head = 1, !.why = why, !.body = body, !.left = @ - piece]
    <3>1. CASE WantsBody
      BY <1>4, <3>1 DEF ReadHead, ReadStep
    <3>2. CASE ~WantsBody
      BY <1>4, <3>2 DEF ReadHead, ReadStep
    <3> QED
      BY <3>1, <3>2
  <2>2. /\ yread'.phase = phase /\ yread'.why = why /\ yread'.body = body /\ yread'.left = yread.left - piece
        /\ DOMAIN yread' = DOMAIN yread
    BY <1>2, <2>1
  <2>3. piece \in 1 .. yread.left
    BY <1>4 DEF ReadHead
  <2>4. yread'.left \in Nat /\ yread'.body \in 0 .. BodyCap
    BY <1>2, <1>3, <2>1, <2>2, <2>3
  <2> QED
    BY <1>1, <1>2, <2>1, <2>2, <2>4, ReadKeeps
<1>5. CASE ReadBody(piece)
  <2> DEFINE kept == Min({piece, BodyRoom})
             why == IF kept < piece THEN "size" ELSE "open"
             phase == IF yread.body + kept >= BodyCap THEN "end" ELSE "body"
  <2>1. yread' = [yread EXCEPT !.body = @ + kept, !.left = @ - piece, !.why = why, !.phase = phase]
    BY <1>5 DEF ReadBody, ReadStep
  <2>2. BodyRoom \in 0 .. BodyCap /\ BodyRoom = BodyCap - yread.body
    BY <1>2, <1>3 DEF BodyRoom
  <2>3. kept = IF piece <= BodyRoom THEN piece ELSE BodyRoom
    BY <1>3, <2>2 DEF Min
  <2>4. yread.body + kept \in 0 .. BodyCap /\ (kept < piece => yread.body + kept >= BodyCap)
    BY <1>2, <1>3, <2>2, <2>3
  <2>5. piece \in 1 .. yread.left
    BY <1>5 DEF ReadBody
  <2>6. phase \in {"body", "end"} /\ (why = "size" => phase = "end" /\ yread.body + kept >= BodyCap)
    BY <2>4
  <2> HIDE DEF kept, why, phase
  <2>7. /\ yread'.phase = phase /\ yread'.why = why /\ yread'.body = yread.body + kept
        /\ yread'.left = yread.left - piece /\ DOMAIN yread' = DOMAIN yread
    BY <1>2, <2>1
  <2>8. yread'.left \in Nat
    BY <1>2, <1>3, <2>5, <2>7
  <2> QED
    BY <1>1, <1>2, <2>4, <2>6, <2>7, <2>8, ReadKeeps
<1> QED
  BY <1>4, <1>5

\* No more of a response comes.
LEMMA ReadEndsKeeps == ASSUME FetchInv, ReadEnds PROVE FetchInv'
<1>1. /\ yworld' = yworld /\ ypermitted' = ypermitted /\ ystarts' = ystarts
      /\ ychain' = ychain /\ ydials' = ydials /\ yseen' = yseen /\ ynotes' = ynotes /\ ycontacts' = ycontacts /\ yend' = yend
  BY DEF ReadEnds, ReadStep
<1>2. /\ DOMAIN yread = {"phase", "address", "head", "body", "left", "why"} /\ yread.body \in 0 .. BodyCap
      /\ yread.left \in Nat /\ yread.phase \in {"head", "body"}
  BY DEF FetchInv, ReadOK, ReadEnds
<1>3. PICK why \in {"whole", "stopped"} : yread' = [yread EXCEPT !.phase = "end", !.why = why]
  BY DEF ReadEnds, ReadStep
<1>4. /\ yread'.phase = "end" /\ yread'.why = why /\ yread'.body = yread.body /\ yread'.left = yread.left
      /\ DOMAIN yread' = DOMAIN yread
  BY <1>2, <1>3
<1> QED
  BY <1>1, <1>2, <1>4, ReadKeeps

\* A response is observed: the chain ends or goes on at another URL.
LEMMA InterpretKeeps == ASSUME FetchInv, Interpret PROVE FetchInv'
<1> DEFINE url == ychain.url
           answer == AnswerOf(url)
<1>1. /\ yworld' = yworld /\ ypermitted' = ypermitted /\ ystarts' = ystarts /\ ydials' = ydials
      /\ ycontacts' = ycontacts /\ yend' = yend /\ yend = "no" /\ yread.phase = "end" /\ yread' = NoRead
  BY DEF Interpret, Working
<1>2. \/ \E why : ychain' = NoChain /\ ynotes' = NotePut(url, why) /\ yseen' = yseen
      \/ ychain' = NoChain /\ ynotes' = ynotes /\ yseen' = yseen \cup {Observation}
      \/ \E why : ychain' = NoChain /\ ynotes' = NotePut(url, why) /\ yseen' = yseen \cup {Observation}
      \/ /\ ychain.steps < MaxRedirectsAt(yworld.level) /\ yseen' = yseen \cup {Observation}
         /\ ychain' = [ychain EXCEPT !.url = answer.to, !.steps = @ + 1] /\ ynotes' = ynotes
  <2>1. CASE answer.kind = "garbage"
    BY <2>1 DEF Interpret, EndChain
  <2>2. CASE answer.kind # "garbage" /\ answer.kind = "page"
    BY <2>2 DEF Interpret, EndChain
  <2>3. CASE answer.kind # "garbage" /\ answer.kind # "page" /\ WhyNotFollowed(answer) # "none"
    BY <2>3 DEF Interpret, EndChain
  <2>4. CASE answer.kind # "garbage" /\ answer.kind # "page" /\ WhyNotFollowed(answer) = "none"
    <3>1. ychain.steps \in Nat /\ MaxRedirectsAt(yworld.level) \in Nat
      BY FetchAssumption DEF FetchInv, ChainOK, MaxRedirectsAt
    <3>2. ~(ychain.steps >= MaxRedirectsAt(yworld.level))
      <4> SUFFICES ASSUME ychain.steps >= MaxRedirectsAt(yworld.level) PROVE FALSE
        OBVIOUS
      <4>1. ~(ychain.steps < MaxRedirectsAt(yworld.level))
        BY <3>1
      <4>2. WhyNotFollowed(answer) = "cap"
        BY <4>1 DEF WhyNotFollowed
      <4> QED
        BY <2>4, <4>2
    <3> QED
      BY <2>4, <3>1, <3>2 DEF Interpret
  <2> QED
    BY <2>1, <2>2, <2>3, <2>4
<1> HIDE DEF answer, url
<1>3. Observation.url = url /\ (Observation.why = "size" => Observation.cut)
  BY DEF FetchInv, ReadOK, Observation, Marked, url
<1>4. /\ ydials = <<>> /\ yread # NoRead /\ ychain # NoChain /\ MidHop
  <2>1. NoRead.phase = "none"
    BY DEF NoRead
  <2> QED
    BY <1>1, <2>1 DEF FetchInv, ChainOK, ReadOK, MidHop
<1>5. ASSUME ychain' = NoChain, ynotes \subseteq ynotes', yseen' = yseen \/ yseen' = yseen \cup {Observation},
             (\E n \in ynotes' : n.url = url) \/ yseen' = yseen \cup {Observation}
      PROVE  FetchInv'
  <2>1. (\E n \in ynotes' : n.url = url) \/ \E o \in yseen' : o.url = url
    BY <1>3, <1>5
  <2>2. yseen \subseteq yseen' /\ \A o \in yseen' \ yseen : o.why = "size" => o.cut
    BY <1>3, <1>5
  <2> QED
    BY <1>1, <1>4, <1>5, <2>1, <2>2, ChainEnds DEF url
<1>6. CASE /\ ychain.steps < MaxRedirectsAt(yworld.level) /\ yseen' = yseen \cup {Observation}
           /\ ychain' = [ychain EXCEPT !.url = answer.to, !.steps = @ + 1] /\ ynotes' = ynotes
  <2>1. /\ DOMAIN ychain = {"start", "url", "visited", "steps"} /\ ychain.steps \in Nat
        /\ ychain.start \notin ToSet(ystarts) /\ IsFiniteSet(ychain.visited)
        /\ Cardinality(ychain.visited) = ychain.steps + 1
    BY <1>4 DEF FetchInv, ChainOK
  <2>2. /\ ychain'.visited = ychain.visited /\ ychain'.steps = ychain.steps + 1 /\ ychain'.start = ychain.start
        /\ DOMAIN ychain' = DOMAIN ychain
    BY <1>6, <2>1
  <2>3. ychain' # NoChain
    BY <2>1, <2>2 DEF NoChain
  <2>4. ~MidHop'
    BY <1>1, <1>4 DEF MidHop
  <2>5. MaxRedirectsAt(yworld.level) \in Nat
    BY FetchAssumption DEF FetchInv, MaxRedirectsAt
  <2>6. ChainOK'
    BY <1>1, <1>6, <2>1, <2>2, <2>3, <2>4, <2>5 DEF ChainOK
  <2>7. DialsOK'
    BY <1>1 DEF FetchInv, DialsOK
  <2>8. ReadOK'
    BY <1>1, FetchAssumption DEF FetchInv, ReadOK, NoRead
  <2>9. ContactsOK'
    BY <1>1, <1>4, <2>2, <2>4 DEF FetchInv, ContactsOK
  <2>10. StartsOK'
    <3>1. Starts' = Starts
      BY <1>1 DEF Starts
    <3>2. ASSUME NEW start \in Starts PROVE start \in ToSet(ystarts) \/ SaidOf(start)'
      <4>1. start \in ToSet(ystarts) \/ SaidOf(start) \/ start = url
        BY <1>1, <3>2 DEF FetchInv, StartsOK, url
      <4>2. CASE SaidOf(start)
        BY <1>6, <4>2 DEF SaidOf
      <4>3. CASE start = url
        BY <1>3, <1>6, <4>3 DEF SaidOf
      <4> QED
        BY <4>1, <4>2, <4>3
    <3> QED
      BY <1>1, <3>1, <3>2 DEF FetchInv, StartsOK
  <2>11. SizeCutsMarked'
    BY <1>3, <1>6 DEF FetchInv, SizeCutsMarked
  <2>12. yworld' \in FetchWorlds /\ ypermitted' \subseteq yworld'.permitted
    BY <1>1 DEF FetchInv
  <2>13. StaysInScope' /\ ChainsBounded'
    BY <1>1, RequestsStand
  <2> QED
    BY <2>6, <2>7, <2>8, <2>9, <2>10, <2>11, <2>12, <2>13 DEF FetchInv
<1>7. ASSUME NEW why, ynotes' = NotePut(url, why) PROVE ynotes \subseteq ynotes' /\ \E n \in ynotes' : n.url = url
  BY <1>7, Noted
<1> QED
  BY <1>2, <1>5, <1>6, <1>7

\* A web probe keeps to its bounds, contacts only what the scope permits, follows
\* a redirect chain through each URL once, and accounts for every start.
THEOREM FetchIsSound == FetchSpec => [](FetchTypeOK /\ FetchSound)
<1>1. FetchInv /\ [FetchNext]_fetchvars => FetchInv'
  <2> SUFFICES ASSUME FetchInv, [FetchNext]_fetchvars PROVE FetchInv'
    OBVIOUS
  <2>1. CASE UNCHANGED fetchvars
    BY <2>1, SurroundingsKeep DEF fetchvars
  <2>2. CASE FetchCancel \/ FetchLate
    BY <2>2, SurroundingsKeep DEF FetchCancel, FetchLate
  <2>3. ASSUME NEW host, ScopeShrinks(host) PROVE FetchInv'
    BY <2>3, SurroundingsKeep DEF ScopeShrinks
  <2>4. CASE FetchStops \/ DeadlineInConnect
    BY <2>4, SurroundingsKeep DEF FetchStops, DeadlineInConnect
  <2>5. CASE FinishTask
    BY <2>5, SurroundingsKeep DEF FinishTask, Working
  <2>6. CASE TakeStart
    BY <2>6, TakeStartKeeps
  <2>7. ASSUME NEW b, TakeHop(b) \/ Dial(b) PROVE FetchInv'
    BY <2>7, TakeHopKeeps, DialKeeps
  <2>8. CASE GiveUpDialling
    BY <2>8, GiveUpDiallingKeeps
  <2>9. CASE ReadEnds
    BY <2>9, ReadEndsKeeps
  <2>10. CASE Interpret
    BY <2>10, InterpretKeeps
  <2>11. ASSUME NEW piece \in ChunkSizes, ReadHead(piece) \/ ReadBody(piece) PROVE FetchInv'
    BY <2>11, PieceKeeps
  <2> QED
    BY <2>1, <2>2, <2>3, <2>4, <2>5, <2>6, <2>7, <2>8, <2>9, <2>10, <2>11 DEF FetchNext, FetchLoop
<1>2. FetchInv => FetchTypeOK /\ FetchSound
  <2> SUFFICES ASSUME FetchInv PROVE FetchTypeOK /\ FetchSound
    OBVIOUS
  <2>1. FetchTypeOK
    BY FetchAssumption DEF FetchInv, FetchTypeOK, ReadOK, ChainOK, DialsOK
  <2>2. StartsAccounted
    <3>1. yend = "cancelled" => yseen = {}
      BY DEF FetchInv, StartsOK
    <3>2. ASSUME yend = "done", NEW k \in DOMAIN PlanStarts(yworld.task)
          PROVE  SaidOf(PlanStarts(yworld.task)[k])
      <4>1. PlanStarts(yworld.task)[k] \in Starts
        BY DEF Starts, ToSet
      <4>2. ystarts = <<>> /\ ychain = NoChain
        BY <3>2 DEF FetchInv, StartsOK
      <4> QED
        BY <3>2, <4>1, <4>2, EmptyElements DEF FetchInv, StartsOK
    <3> QED
      BY <3>1, <3>2 DEF StartsAccounted, SaidOf
  <2> QED
    BY <2>1, <2>2 DEF FetchInv, FetchSound
<1> QED
  BY <1>1, <1>2, FetchStarts, PTL DEF FetchSpec

-----------------------------------------------------------------------------
(* Rows and their members.                                                 *)

\* A member at the end of a row.
LEMMA AppendMembers ==
  ASSUME NEW S, NEW q \in Seq(S), NEW t \in S
  PROVE  /\ Append(q, t) \in Seq(S) /\ Len(Append(q, t)) = Len(q) + 1 /\ Len(q) \in Nat
         /\ ToSet(Append(q, t)) = ToSet(q) \cup {t}
<1> DEFINE n == Len(q)
           r == Append(q, t)
<1>1. n \in Nat /\ DOMAIN q = 1 .. n
  OBVIOUS
<1>2. /\ r \in Seq(S) /\ Len(r) = n + 1 /\ DOMAIN r = 1 .. n + 1
      /\ r[n + 1] = t /\ \A i \in 1 .. n : r[i] = q[i]
  BY <1>1
<1> HIDE DEF r, n
<1>3. ToSet(r) \subseteq ToSet(q) \cup {t}
  <2> SUFFICES ASSUME NEW i \in 1 .. n + 1 PROVE r[i] \in ToSet(q) \cup {t}
    BY <1>2 DEF ToSet
  <2>1. CASE i = n + 1
    BY <1>2, <2>1
  <2>2. CASE i # n + 1
    <3>1. i \in 1 .. n
      BY <1>1, <2>2
    <3> QED
      BY <1>1, <1>2, <3>1 DEF ToSet
  <2> QED
    BY <2>1, <2>2
<1>4. ToSet(q) \cup {t} \subseteq ToSet(r)
  <2>1. t \in ToSet(r)
    BY <1>1, <1>2 DEF ToSet
  <2>2. ASSUME NEW i \in 1 .. n PROVE q[i] \in ToSet(r)
    <3>1. i \in 1 .. n + 1 /\ r[i] = q[i]
      BY <1>1, <1>2
    <3> QED
      BY <1>2, <3>1 DEF ToSet
  <2> QED
    BY <1>1, <2>1, <2>2 DEF ToSet
<1> QED
  BY <1>1, <1>2, <1>3, <1>4 DEF r, n

\* The first member of a row and the rest of them.
LEMMA TailMembers ==
  ASSUME NEW S, NEW q \in Seq(S), q # <<>>
  PROVE  /\ Head(q) \in S /\ Tail(q) \in Seq(S)
         /\ ToSet(q) = {Head(q)} \cup ToSet(Tail(q))
<1> DEFINE n == Len(q)
           r == Tail(q)
<1>1. n \in Nat /\ n # 0 /\ DOMAIN q = 1 .. n
  OBVIOUS
<1>2. r \in Seq(S) /\ DOMAIN r = 1 .. n - 1 /\ \A i \in 1 .. n - 1 : r[i] = q[i + 1]
  BY <1>1
<1>3. Head(q) = q[1] /\ q[1] \in S
  BY <1>1
<1> HIDE DEF n, r
<1>4. ToSet(q) \subseteq {q[1]} \cup ToSet(r)
  <2> SUFFICES ASSUME NEW i \in 1 .. n PROVE q[i] \in {q[1]} \cup ToSet(r)
    BY <1>1 DEF ToSet
  <2>1. CASE i # 1
    <3>1. i - 1 \in 1 .. n - 1 /\ (i - 1) + 1 = i
      BY <1>1, <2>1
    <3>2. r[i - 1] = q[i]
      BY <1>2, <3>1
    <3> QED
      BY <1>2, <3>1, <3>2 DEF ToSet
  <2> QED
    BY <2>1
<1>5. {q[1]} \cup ToSet(r) \subseteq ToSet(q)
  <2>1. q[1] \in ToSet(q)
    BY <1>1 DEF ToSet
  <2>2. ASSUME NEW i \in 1 .. n - 1 PROVE r[i] \in ToSet(q)
    <3>1. i + 1 \in 1 .. n /\ r[i] = q[i + 1]
      BY <1>1, <1>2
    <3> QED
      BY <1>1, <3>1 DEF ToSet
  <2> QED
    BY <1>2, <2>1, <2>2 DEF ToSet
<1> QED
  BY <1>2, <1>3, <1>4, <1>5 DEF r

\* Two rows one after the other.
LEMMA JoinMembers ==
  ASSUME NEW S, NEW q \in Seq(S), NEW r \in Seq(S)
  PROVE  q \o r \in Seq(S) /\ ToSet(q \o r) = ToSet(q) \cup ToSet(r)
<1> DEFINE m == Len(q)
           n == Len(r)
           s == q \o r
<1>1. m \in Nat /\ n \in Nat /\ DOMAIN q = 1 .. m /\ DOMAIN r = 1 .. n
  OBVIOUS
<1>2. s \in Seq(S) /\ DOMAIN s = 1 .. m + n
  BY <1>1
<1>3. \A i \in 1 .. m + n : s[i] = IF i <= m THEN q[i] ELSE r[i - m]
  BY <1>1
<1> HIDE DEF m, n, s
<1>4. ASSUME NEW i \in 1 .. m + n PROVE s[i] \in ToSet(q) \cup ToSet(r)
  <2>1. CASE i <= m
    <3>1. i \in 1 .. m /\ s[i] = q[i]
      BY <1>1, <1>3, <2>1
    <3> QED
      BY <1>1, <3>1 DEF ToSet
  <2>2. CASE ~(i <= m)
    <3>1. i - m \in 1 .. n /\ s[i] = r[i - m]
      BY <1>1, <1>3, <2>2
    <3> QED
      BY <1>1, <3>1 DEF ToSet
  <2> QED
    BY <2>1, <2>2
<1>5. ASSUME NEW i \in 1 .. m PROVE q[i] \in ToSet(s)
  <2>1. i \in 1 .. m + n /\ s[i] = q[i]
    BY <1>1, <1>3
  <2> QED
    BY <1>2, <2>1 DEF ToSet
<1>6. ASSUME NEW i \in 1 .. n PROVE r[i] \in ToSet(s)
  <2>1. m + i \in 1 .. m + n /\ ~(m + i <= m) /\ (m + i) - m = i
    BY <1>1
  <2>2. s[m + i] = r[i]
    BY <1>3, <2>1
  <2> QED
    BY <1>2, <2>1, <2>2 DEF ToSet
<1>7. ToSet(s) = ToSet(q) \cup ToSet(r)
  <2>1. ToSet(s) \subseteq ToSet(q) \cup ToSet(r)
    BY <1>2, <1>4 DEF ToSet
  <2>2. ToSet(q) \subseteq ToSet(s)
    BY <1>1, <1>5 DEF ToSet
  <2>3. ToSet(r) \subseteq ToSet(s)
    BY <1>1, <1>6 DEF ToSet
  <2> QED
    BY <2>1, <2>2, <2>3
<1> QED
  BY <1>2, <1>7 DEF s

\* No more members than places.
LEMMA MembersFew ==
  ASSUME NEW S, NEW q \in Seq(S)
  PROVE  IsFiniteSet(ToSet(q)) /\ Cardinality(ToSet(q)) \in Nat /\ Cardinality(ToSet(q)) <= Len(q)
<1> DEFINE n == Len(q)
<1>1. n \in Nat /\ DOMAIN q = 1 .. n /\ q = [i \in 1 .. n |-> q[i]]
  OBVIOUS
<1>2. IsFiniteSet(1 .. n) /\ Cardinality(1 .. n) = n
  <2> HIDE DEF n
  <2>1. n \in Int /\ 1 \in Int
    BY <1>1
  <2>2. IsFiniteSet(1 .. n) /\ Cardinality(1 .. n) = IF 1 > n THEN 0 ELSE n - 1 + 1
    BY <2>1, FS_Interval
  <2> QED
    BY <1>1, <2>2
<1>3. ToSet(q) = {q[i] : i \in 1 .. n}
  BY <1>1 DEF ToSet
<1> HIDE DEF n
<1>4. IsFiniteSet({q[i] : i \in 1 .. n}) /\ Cardinality({q[i] : i \in 1 .. n}) <= Cardinality(1 .. n)
  BY <1>1, <1>2, FiniteImage
<1> QED
  BY <1>2, <1>3, <1>4, FS_CardinalityType DEF n

\* Finitely many sets of at most m members have at most m members each together.
LEMMA UnionFew ==
  ASSUME NEW S, IsFiniteSet(S), NEW F, NEW m \in Nat, \A x \in S : IsFiniteSet(F[x]) /\ Cardinality(F[x]) <= m
  PROVE  LET U == UNION {F[x] : x \in S}
         IN  IsFiniteSet(U) /\ Cardinality(U) \in Nat /\ Cardinality(U) <= m * Cardinality(S)
<1> DEFINE U(X) == UNION {F[x] : x \in X}
           Few(X) == IsFiniteSet(U(X)) /\ Cardinality(U(X)) \in Nat /\ Cardinality(U(X)) <= m * Cardinality(X)
           T == {n \in Nat : \A X \in SUBSET S : Cardinality(X) = n => Few(X)}
<1>1. 0 \in T
  <2> SUFFICES ASSUME NEW X \in SUBSET S, Cardinality(X) = 0 PROVE Few(X)
    OBVIOUS
  <2>1. X = {}
    BY FS_Subset, FS_EmptySet
  <2>2. U(X) = {}
    BY <2>1
  <2>3. IsFiniteSet({}) /\ Cardinality({}) = 0
    BY FS_EmptySet
  <2> HIDE DEF U
  <2>4. IsFiniteSet(U(X)) /\ Cardinality(U(X)) = 0
    BY <2>2, <2>3
  <2>5. Cardinality(X) = 0 /\ m * 0 = 0
    OBVIOUS
  <2> QED
    BY <2>4, <2>5
<1>2. ASSUME NEW n \in Nat, n \in T PROVE n + 1 \in T
  <2> SUFFICES ASSUME NEW X \in SUBSET S, Cardinality(X) = n + 1 PROVE Few(X)
    OBVIOUS
  <2>1. IsFiniteSet(X) /\ X # {}
    BY FS_Subset, FS_EmptySet
  <2>2. PICK x \in X : TRUE
    BY <2>1
  <2>3. IsFiniteSet(X \ {x}) /\ Cardinality(X \ {x}) = n
    <3>1. IsFiniteSet(X \ {x}) /\ Cardinality(X \ {x}) = Cardinality(X) - 1
      BY <2>1, <2>2, FS_RemoveElement
    <3> QED
      BY <3>1
  <2>4. Few(X \ {x})
    BY <1>2, <2>3
  <2>5. U(X) = U(X \ {x}) \cup F[x]
    OBVIOUS
  <2>6. PICK A, B, C : A = U(X \ {x}) /\ B = F[x] /\ C = U(X)
    OBVIOUS
  <2>7. IsFiniteSet(A) /\ Cardinality(A) \in Nat /\ Cardinality(A) <= m * n
    BY <2>3, <2>4, <2>6
  <2>8. IsFiniteSet(B) /\ Cardinality(B) <= m /\ Cardinality(B) \in Nat
    BY <2>6, FS_CardinalityType
  <2>9. C = A \cup B
    BY <2>5, <2>6
  <2> HIDE DEF U
  <2>10. IsFiniteSet(C) /\ Cardinality(C) <= Cardinality(A) + Cardinality(B) /\ Cardinality(C) \in Nat
    <3>1. IsFiniteSet(A \cup B) /\ Cardinality(A \cup B) = Cardinality(A) + Cardinality(B) - Cardinality(A \cap B)
      BY <2>7, <2>8, FS_Union
    <3>2. Cardinality(A \cap B) \in Nat
      BY <2>7, FS_Intersection, FS_CardinalityType
    <3>3. Cardinality(A \cup B) \in Nat
      BY <3>1, FS_CardinalityType
    <3> QED
      BY <2>7, <2>8, <2>9, <3>1, <3>2, <3>3
  <2>11. m * (n + 1) = m * n + m /\ m * n \in Nat
    OBVIOUS
  <2>12. Cardinality(C) <= m * (n + 1)
    BY <2>7, <2>8, <2>10, <2>11
  <2> QED
    BY <2>6, <2>10, <2>12
<1> HIDE DEF T
<1>3. Nat \subseteq T
  BY <1>1, <1>2, SetInduction
<1>4. Cardinality(S) \in T
  BY <1>3, FS_CardinalityType
<1>5. Few(S)
  BY <1>4 DEF T
<1> QED
  BY <1>5

-----------------------------------------------------------------------------
(* Crawls.                                                                 *)

\* A URL in scope that a crawl comes to know has a document.
Known(url) == Permits(url) => url \in DOMAIN xworld.site

\* Where a job comes from: a start, or a document that was read.
FilesOf(u) == PermittedOf(xworld.site[u].sitemaps, RootSitemaps)
Named(job) ==
  \/ job.kind = "page" /\ (job.url = xworld.url \/ (job.url[1] = xworld.url[1] /\ xworld.start = "host"))
  \/ job.kind = "script" /\ FetchJs /\ \E t \in xtold : t.url = job.url /\ t.source = "script"
  \/ job.kind = "robots" /\ FetchRobots /\ \E u \in ReadAs("page") : u[1] = job.url[1]
  \/ job.kind = "sitemap" /\ FetchSitemap /\ \E u \in ReadAs("robots") : job.url \in ToSet(FilesOf(u))

Asked == {c.url : c \in ToSet(xcontacts)}
NotedUrls == {n[2] : n \in xnotes}

AgendaOK ==
  /\ Row(xagenda) /\ \A job \in ToSet(xagenda) : Known(job.url) /\ Named(job)
  /\ xstage = "start" => xagenda = <<>>
  /\ xstage = "done" => xagenda = <<>> /\ Idle

\* A hop after the first is where an earlier request was sent on.
FetchOK ==
  /\ DOMAIN xfetch = {"job", "at", "visited", "hops"}
  /\ ~Idle =>
       /\ Known(xfetch.at) /\ Named(xfetch.job) /\ xfetch.hops \in Nat
       /\ xfetch.hops = 0 => xfetch.at = xfetch.job.url
       /\ xfetch.hops # 0 => xworld.level >= 3 /\ \E c \in ToSet(xcontacts) : xworld.site[c.url].to = xfetch.at

RequestsOK ==
  /\ Row(xcontacts) /\ xworld.claims \subseteq xclaims
  /\ \A c \in ToSet(xcontacts) :
       /\ <<c.url, c.purpose>> \in xclaims /\ c.purpose \in {"page", "redirect"}
       /\ c.purpose = "redirect" => xworld.level >= 3
       /\ c.purpose = "page" =>
            /\ c.url = c.job.url /\ Named(c.job)
            /\ c.url \in NotedUrls \/ (\E p \in xpages : p.kind = c.job.kind) \/ (~Idle /\ xfetch.job = c.job)
  /\ \A p \in xpages : p.url \in DOMAIN xworld.site
  /\ IsFiniteSet(xpages)

\* What is to be read is asked for, noted, on the agenda, or at hand.
Handled(url) ==
  \/ url \in Asked \/ url \in NotedUrls
  \/ \E job \in ToSet(xagenda) : job.url = url
  \/ ~Idle /\ xfetch.hops = 0 /\ xfetch.job.url = url
KeptOK ==
  /\ FetchJs => \A t \in xtold : t.source = "script" /\ t.permitted => Handled(t.url)
  /\ FetchSitemap => \A u \in ReadAs("robots") : xworld.site[u].status = 200 =>
       \A v \in ToSet(xworld.site[u].sitemaps) : ~Permits(v) \/ Handled(v) \/ <<"sitemaps", u>> \in xnotes

CrawlInv ==
  /\ xworld \in CrawlWorlds /\ xfindings \in Nat /\ xfindings <= PageFindings
  /\ AgendaOK /\ FetchOK /\ RequestsOK /\ KeptOK /\ ContactsNamed /\ CandidatesHonest

\* A sequence is a row of its members.
LEMMA RowOf ==
  ASSUME NEW S, NEW q \in Seq(S)
  PROVE  Row(q) /\ ToSet(q) \subseteq S
<1> DEFINE n == Len(q)
<1>1. n \in Nat /\ q \in [1 .. n -> S] /\ DOMAIN q = 1 .. n
  OBVIOUS
<1> HIDE DEF n
<1>2. q \in [1 .. n -> ToSet(q)] /\ ToSet(q) \subseteq S
  BY <1>1 DEF ToSet
<1> QED
  BY <1>1, <1>2 DEF Row

\* The rest of a row is a row.
LEMMA TailRow ==
  ASSUME NEW q, Row(q), q # <<>>
  PROVE  /\ Row(Tail(q)) /\ ToSet(q) = {Head(q)} \cup ToSet(Tail(q))
         /\ Head(q) \in ToSet(q) /\ Head(q) = q[1] /\ ToSet(Tail(q)) \subseteq ToSet(q)
<1> DEFINE S == ToSet(q)
<1>1. q \in Seq(S)
  BY DEF Row
<1>2. Head(q) = q[1]
  BY <1>1
<1> HIDE DEF S
<1>3. Head(q) \in S /\ Tail(q) \in Seq(S) /\ ToSet(q) = {Head(q)} \cup ToSet(Tail(q))
  BY <1>1, TailMembers
<1>4. Row(Tail(q))
  BY <1>3, RowOf
<1> QED
  BY <1>2, <1>3, <1>4 DEF S

\* Two rows one after the other are a row of the members of both.
LEMMA JoinRow ==
  ASSUME NEW q, Row(q), NEW r, Row(r)
  PROVE  Row(q \o r) /\ ToSet(q \o r) = ToSet(q) \cup ToSet(r)
<1> DEFINE S == ToSet(q) \cup ToSet(r)
<1>1. q \in Seq(S) /\ r \in Seq(S)
  BY DEF Row
<1> HIDE DEF S
<1>2. q \o r \in Seq(S) /\ ToSet(q \o r) = ToSet(q) \cup ToSet(r)
  BY <1>1, JoinMembers
<1> QED
  BY <1>2, RowOf

\* The lesser of two numbers.
LEMMA LesserOfTwo ==
  ASSUME NEW a \in Nat, NEW b \in Nat
  PROVE  Min({a, b}) = IF a <= b THEN a ELSE b
<1> DEFINE S == {a, b}
           m == IF a <= b THEN a ELSE b
<1>1. m \in S /\ \A y \in S : m <= y
  OBVIOUS
<1>2. ASSUME NEW x \in S, \A y \in S : x <= y PROVE x = m
  BY <1>2
<1> HIDE DEF m
<1>3. Min(S) = m
  BY <1>1, <1>2 DEF Min
<1> QED
  BY <1>3 DEF m

\* The first few of a row.
LEMMA UptoRow ==
  ASSUME NEW q, Row(q), NEW n \in Nat
  PROVE  /\ Row(Upto(q, n)) /\ ToSet(Upto(q, n)) \subseteq ToSet(q) /\ Len(Upto(q, n)) <= n
         /\ Len(q) <= n => Upto(q, n) = q
<1> DEFINE l == Len(q)
           S == ToSet(q)
           m == Min({l, n})
<1>1. l \in Nat /\ q \in Seq(S)
  BY DEF Row
<1>2. m = IF l <= n THEN l ELSE n
  <2> HIDE DEF l
  <2> QED
    BY <1>1, LesserOfTwo
<1> HIDE DEF m, S
<1>3. m \in Nat /\ m <= l /\ m <= n
  BY <1>1, <1>2
<1> DEFINE u == SubSeq(q, 1, m)
<1>4. u \in Seq(S) /\ Len(u) = m
  BY <1>1, <1>3
<1>5. l <= n => u = q
  BY <1>1, <1>2, <1>3
<1>6. Upto(q, n) = u
  BY DEF Upto, m, l
<1> HIDE DEF u
<1>7. Row(u) /\ ToSet(u) \subseteq S
  BY <1>4, RowOf
<1> QED
  BY <1>3, <1>4, <1>5, <1>6, <1>7 DEF S

\* The jobs for a row of URLs.
LEMMA JobsRow ==
  ASSUME NEW urls, Row(urls), NEW kind
  PROVE  Row(JobsFor(urls, kind)) /\ ToSet(JobsFor(urls, kind)) = {Job(kind, u, FALSE) : u \in ToSet(urls)}
<1> DEFINE n == Len(urls)
           S == {Job(kind, u, FALSE) : u \in ToSet(urls)}
           q == JobsFor(urls, kind)
<1>1. n \in Nat /\ DOMAIN urls = 1 .. n /\ \A k \in 1 .. n : urls[k] \in ToSet(urls)
  BY DEF Row, ToSet
<1>2. DOMAIN q = 1 .. n /\ \A k \in 1 .. n : q[k] = Job(kind, urls[k], FALSE)
  BY <1>1 DEF JobsFor
<1>3. q = [k \in 1 .. n |-> q[k]]
  BY <1>1 DEF JobsFor
<1> HIDE DEF q, n
<1>4. \A k \in 1 .. n : q[k] \in S
  BY <1>1, <1>2
<1>5. q \in Seq(S)
  <2> HIDE DEF S
  <2>1. q \in [1 .. n -> S]
    BY <1>3, <1>4
  <2> QED
    BY <1>1, <2>1
<1>6. Row(q) /\ ToSet(q) \subseteq S
  BY <1>5, RowOf
<1>7. S \subseteq ToSet(q)
  <2> SUFFICES ASSUME NEW k \in 1 .. n PROVE Job(kind, urls[k], FALSE) \in ToSet(q)
    BY <1>1 DEF ToSet
  <2> QED
    BY <1>2 DEF ToSet
<1> QED
  BY <1>6, <1>7 DEF q

\* What a row of URLs leaves when some are in scope: no more than the cap, and
\* one that was looked at while there was room is among them.
LEMMA PermittedRowHas ==
  ASSUME NEW urls, Row(urls), NEW cap \in Nat
  PROVE  /\ Row(PermittedOf(urls, cap)) /\ Len(PermittedOf(urls, cap)) <= cap
         /\ \A v \in ToSet(PermittedOf(urls, cap)) : v \in ToSet(urls) /\ Permits(v)
         /\ \A j \in DOMAIN urls :
              Permits(urls[j]) /\ Len(PermittedRow(urls, cap)[j - 1]) < cap => urls[j] \in ToSet(PermittedOf(urls, cap))
         /\ Len(urls) <= cap => \A v \in ToSet(urls) : Permits(v) => v \in ToSet(PermittedOf(urls, cap))
<1> DEFINE n == Len(urls)
           U == ToSet(urls)
           S == Seq(U)
           step == [kv \in (1 .. n) \X S |-> IF Permits(urls[kv[1]]) /\ Len(kv[2]) < cap
                                              THEN Append(kv[2], urls[kv[1]]) ELSE kv[2]]
           Fit(f) == f = [k \in 0 .. n |-> IF k = 0 THEN <<>>
                                           ELSE IF Permits(urls[k]) /\ Len(f[k - 1]) < cap
                                                THEN Append(f[k - 1], urls[k]) ELSE f[k - 1]]
<1>1. n \in Nat /\ <<>> \in S /\ DOMAIN urls = 1 .. n /\ \A k \in 1 .. n : urls[k] \in U
  BY DEF Row, ToSet
<1> HIDE DEF U
<1>2. step \in [(1 .. n) \X S -> S] /\ \A k \in 1 .. n, v \in S : step[<<k, v>>] = IF Permits(urls[k]) /\ Len(v) < cap
                                              THEN Append(v, urls[k]) ELSE v
  BY <1>1
<1> HIDE DEF step
<1>3. PICK f : Unfolds(f, n, S, <<>>, step)
  <2> HIDE DEF S, n, Fit
  <2> QED
    BY <1>1, <1>2, Recursion
<1>4. Fit(f)
  <2> SUFFICES ASSUME NEW k \in 0 .. n
               PROVE  f[k] = IF k = 0 THEN <<>>
                                           ELSE IF Permits(urls[k]) /\ Len(f[k - 1]) < cap
                                                THEN Append(f[k - 1], urls[k]) ELSE f[k - 1]
    BY <1>3 DEF Unfolds
  <2>1. CASE k = 0
    BY <1>3, <2>1 DEF Unfolds
  <2>2. CASE k # 0
    <3>1. k \in 1 .. n /\ k - 1 \in 0 .. n
      BY <2>2
    <3>2. f[k] = step[<<k, f[k - 1]>>] /\ f[k - 1] \in S
      BY <1>3, <3>1 DEF Unfolds
    <3> HIDE DEF S
    <3> QED
      BY <1>2, <2>2, <3>1, <3>2
  <2> QED
    BY <2>1, <2>2
<1> DEFINE g == CHOOSE h : Fit(h)
<1>5. Fit(g)
  BY <1>4
<1>6. PermittedRow(urls, cap) = g /\ PermittedOf(urls, cap) = g[n]
  BY DEF PermittedOf, PermittedRow
<1> HIDE DEF g
<1>7. g[0] = <<>> /\ \A k \in 1 .. n : g[k] = IF Permits(urls[k]) /\ Len(g[k - 1]) < cap
                                              THEN Append(g[k - 1], urls[k]) ELSE g[k - 1]
  <2>1. g = [k \in 0 .. n |-> IF k = 0 THEN <<>>
                                           ELSE IF Permits(urls[k]) /\ Len(g[k - 1]) < cap
                                                THEN Append(g[k - 1], urls[k]) ELSE g[k - 1]]
    BY <1>5
  <2> HIDE DEF n, Fit
  <2>2. 0 \in 0 .. n /\ \A k \in 1 .. n : k \in 0 .. n /\ k # 0
    BY <1>1
  <2> QED
    BY <2>1, <2>2
<1> HIDE DEF Fit
<1> DEFINE Good(k) == /\ g[k] \in S /\ Len(g[k]) <= cap /\ Len(g[k]) <= k
                      /\ \A v \in ToSet(g[k]) : Permits(v)
                      /\ \A j \in 1 .. k : Permits(urls[j]) /\ Len(g[j - 1]) < cap => urls[j] \in ToSet(g[k])
           T == {k \in Nat : k <= n => Good(k)}
<1>8. Good(0)
  <2>1. g[0] = <<>> /\ <<>> \in S /\ Len(<<>>) = 0
    BY <1>1, <1>7
  <2>2. ToSet(<<>>) = {}
    BY EmptyElements
  <2> QED
    BY <2>1, <2>2
<1>9. ASSUME NEW k \in Nat, k + 1 <= n, Good(k) PROVE Good(k + 1)
  <2>1. k + 1 \in 1 .. n /\ (k + 1) - 1 = k
    BY <1>1, <1>9
  <2>2. g[k + 1] = IF Permits(urls[k + 1]) /\ Len(g[k]) < cap THEN Append(g[k], urls[k + 1]) ELSE g[k]
    <3> HIDE DEF n
    <3> QED
      BY <1>7, <2>1
  <2>3. PICK q, a : q = g[k] /\ a = urls[k + 1]
    OBVIOUS
  <2>4. q \in Seq(U) /\ Len(q) <= cap /\ Len(q) <= k /\ Len(q) \in Nat /\ a \in U
    BY <1>1, <1>9, <2>1, <2>3
  <2>5. \A v \in ToSet(q) : Permits(v)
    BY <1>9, <2>3
  <2>6. \A j \in 1 .. k : Permits(urls[j]) /\ Len(g[j - 1]) < cap => urls[j] \in ToSet(q)
    BY <1>9, <2>3
  <2>7. CASE Permits(a) /\ Len(q) < cap
    <3> DEFINE r == Append(q, a)
    <3>1. g[k + 1] = r
      BY <2>2, <2>3, <2>7
    <3>2. r \in Seq(U) /\ Len(r) = Len(q) + 1 /\ ToSet(r) = ToSet(q) \cup {a}
      BY <2>4, AppendMembers
    <3> HIDE DEF r
    <3>3. r \in S /\ Len(r) <= cap /\ Len(r) <= k + 1
      BY <2>4, <2>7, <3>2
    <3>4. \A v \in ToSet(r) : Permits(v)
      BY <2>5, <2>7, <3>2
    <3>5. ASSUME NEW j \in 1 .. k + 1, Permits(urls[j]), Len(g[j - 1]) < cap PROVE urls[j] \in ToSet(r)
      <4>1. CASE j = k + 1
        BY <2>3, <3>2, <4>1
      <4>2. CASE j # k + 1
        <5>1. j \in 1 .. k
          BY <4>2
        <5> QED
          BY <2>6, <3>2, <3>5, <5>1
      <4> QED
        BY <4>1, <4>2
    <3> QED
      BY <3>1, <3>3, <3>4, <3>5
  <2>8. CASE ~(Permits(a) /\ Len(q) < cap)
    <3>1. g[k + 1] = q
      BY <2>2, <2>3, <2>8
    <3>2. q \in S /\ Len(q) <= cap /\ Len(q) <= k + 1
      BY <2>4
    <3>3. ASSUME NEW j \in 1 .. k + 1, Permits(urls[j]), Len(g[j - 1]) < cap PROVE urls[j] \in ToSet(q)
      <4>1. j # k + 1
        BY <2>1, <2>3, <2>8, <3>3
      <4>2. j \in 1 .. k
        BY <4>1
      <4> QED
        BY <2>6, <3>3, <4>2
    <3> QED
      BY <2>5, <3>1, <3>2, <3>3
  <2> QED
    BY <2>7, <2>8
<1> HIDE DEF Good
<1>10. Nat \subseteq T
  <2>1. 0 \in T
    BY <1>8
  <2>2. ASSUME NEW k \in Nat, k \in T PROVE k + 1 \in T
    <3> SUFFICES ASSUME k + 1 <= n PROVE Good(k + 1)
      OBVIOUS
    <3>1. k <= n
      BY <1>1
    <3> QED
      BY <1>9, <2>2, <3>1
  <2> HIDE DEF T
  <2> QED
    BY <2>1, <2>2, SetInduction
<1>11. \A k \in 0 .. n : Good(k)
  <2> SUFFICES ASSUME NEW k \in 0 .. n PROVE Good(k)
    OBVIOUS
  <2>1. k \in T /\ k <= n
    BY <1>1, <1>10
  <2> QED
    BY <2>1
<1>12. Good(n)
  BY <1>1, <1>11
<1>13. PICK q : q = g[n]
  OBVIOUS
<1>14. q \in Seq(U) /\ Len(q) <= cap /\ \A v \in ToSet(q) : Permits(v)
  BY <1>12, <1>13 DEF Good
<1>15. Row(q) /\ ToSet(q) \subseteq U
  BY <1>14, RowOf
<1>16. \A j \in 1 .. n : Permits(urls[j]) /\ Len(g[j - 1]) < cap => urls[j] \in ToSet(q)
  BY <1>12, <1>13 DEF Good
<1>17. ASSUME n <= cap, NEW v \in U, Permits(v) PROVE v \in ToSet(q)
  <2>1. PICK j \in 1 .. n : v = urls[j]
    BY <1>1 DEF U, ToSet
  <2>2. j - 1 \in 0 .. n
    BY <1>1
  <2>3. Len(g[j - 1]) <= j - 1 /\ Len(g[j - 1]) \in Nat
    BY <1>11, <2>2 DEF Good
  <2>4. Len(g[j - 1]) < cap
    BY <1>1, <1>17, <2>3
  <2> QED
    BY <1>16, <1>17, <2>1, <2>4
<1>18. PermittedOf(urls, cap) = q /\ PermittedRow(urls, cap) = g
  BY <1>6, <1>13
<1>19. \A v \in ToSet(q) : v \in ToSet(urls) /\ Permits(v)
  BY <1>14, <1>15 DEF U
<1>20. Len(urls) <= cap => \A v \in ToSet(urls) : Permits(v) => v \in ToSet(q)
  BY <1>17 DEF U
<1>21. DOMAIN urls = 1 .. n
  BY <1>1
<1> HIDE DEF n, U, S
<1> QED
  BY <1>14, <1>15, <1>16, <1>18, <1>19, <1>20, <1>21

\* Before the crawl nothing is on its agenda.
LEMMA CrawlStartsOK == CrawlInit => CrawlInv
<1> SUFFICES ASSUME CrawlInit PROVE CrawlInv
  OBVIOUS
<1> USE DEF CrawlInit
<1>1. xworld \in CrawlWorlds /\ xfindings \in Nat /\ xfindings <= PageFindings
  BY CrawlAssumption
<1>2. Row(<<>>) /\ ToSet(<<>>) = {}
  BY EmptyElements DEF Row
<1>3. AgendaOK
  BY <1>2 DEF AgendaOK
<1>4. FetchOK
  BY DEF FetchOK, NoFetch, Idle
<1>5. RequestsOK
  BY <1>2, FS_EmptySet DEF RequestsOK
<1>6. KeptOK /\ CandidatesHonest
  BY DEF KeptOK, CandidatesHonest, ReadAs
<1>7. ContactsNamed
  BY DEF ContactsNamed
<1> QED
  BY <1>1, <1>3, <1>4, <1>5, <1>6, <1>7 DEF CrawlInv

\* What comes from a document stays so while more are read.
LEMMA NamedStays ==
  ASSUME NEW job, xworld' = xworld, xtold \subseteq xtold', xpages \subseteq xpages', Named(job)
  PROVE  Named(job)'
<1>1. \A kind : ReadAs(kind) \subseteq ReadAs(kind)'
  BY DEF ReadAs
<1>2. \A u : FilesOf(u)' = FilesOf(u)
  BY DEF FilesOf, PermittedOf, PermittedRow, Permits
<1> QED
  BY <1>1, <1>2 DEF Named, FetchJs, FetchRobots, FetchSitemap

\* A step that makes no request and reads nothing.
LEMMA QuietStep ==
  ASSUME CrawlInv, UNCHANGED <<xworld, xclaims, xcontacts, xtold, xpages, xfindings>>, xnotes \subseteq xnotes',
         AgendaOK', FetchOK',
         \A c \in ToSet(xcontacts) : c.purpose = "page" /\ ~Idle /\ xfetch.job = c.job =>
           c.url \in NotedUrls' \/ (~Idle' /\ xfetch'.job = c.job),
         \A url : Handled(url) /\ Permits(url) => Handled(url)'
  PROVE  CrawlInv'
<1>1. (xworld \in CrawlWorlds /\ xfindings \in Nat /\ xfindings <= PageFindings)'
  BY DEF CrawlInv
<1>2. NotedUrls \subseteq NotedUrls' /\ \A kind : ReadAs(kind)' = ReadAs(kind)
  BY DEF NotedUrls, ReadAs
<1>3. \A job : Named(job)' <=> Named(job)
  <2>1. \A u : FilesOf(u)' = FilesOf(u)
    BY DEF FilesOf, PermittedOf, PermittedRow, Permits
  <2> QED
    BY <1>2, <2>1 DEF Named, FetchJs, FetchRobots, FetchSitemap
<1>4. RequestsOK'
  BY <1>2, <1>3 DEF RequestsOK, CrawlInv
<1>5. KeptOK'
  <2>1. KeptOK
    BY DEF CrawlInv
  <2>2. ASSUME FetchJs', NEW t \in xtold', t.source = "script", t.permitted PROVE Handled(t.url)'
    <3>1. Handled(t.url)
      BY <2>1, <2>2 DEF KeptOK, FetchJs
    <3>2. Permits(t.url)
      BY <2>2 DEF CrawlInv, CandidatesHonest, Permits
    <3> QED
      BY <3>1, <3>2
  <2>3. ASSUME FetchSitemap', NEW u \in ReadAs("robots")', xworld'.site[u].status = 200,
               NEW v \in ToSet(xworld'.site[u].sitemaps), Permits(v)', <<"sitemaps", u>> \notin xnotes'
        PROVE  Handled(v)'
    <3>1. FetchSitemap /\ u \in ReadAs("robots") /\ Permits(v) /\ <<"sitemaps", u>> \notin xnotes
      BY <1>2, <2>3 DEF FetchSitemap, Permits
    <3>2. Handled(v)
      BY <2>1, <2>3, <3>1 DEF KeptOK
    <3> QED
      BY <3>1, <3>2
  <2> QED
    BY <2>2, <2>3 DEF KeptOK
<1>6. ContactsNamed'
  BY <1>2 DEF CrawlInv, ContactsNamed, Permits, FetchJs, FetchRobots, FetchSitemap
<1>7. CandidatesHonest'
  BY <1>2 DEF CrawlInv, CandidatesHonest
<1> QED
  BY <1>1, <1>4, <1>5, <1>6, <1>7 DEF CrawlInv

\* The pages of a host that a crawl starts from.
LEMMA StartRootsRow ==
  ASSUME NEW w \in CrawlWorlds, w = xworld, w.start = "host"
  PROVE  LET jobs == StartRoots(w.url[1])
         IN  Row(jobs) /\ \A job \in ToSet(jobs) : Known(job.url) /\ Named(job)
<1> DEFINE host == w.url[1]
           ports == w.ports
           paths == IF ports = <<>> THEN <<"/", "/s">> ELSE SubSeq(ports, 1, Min({Len(ports), CrawlStarts}))
           n == Min({Len(paths), CrawlStarts})
           jobs == [k \in 1 .. n |-> Job("page", <<host, paths[k]>>, TRUE)]
           Good(path) == <<host, path>> \in DOMAIN w.site
<1>1. Row(ports) /\ CrawlStarts \in Nat /\ \A path \in ToSet(ports) \cup {"/", "/s"} : Good(path)
  BY CrawlAssumption
<1>2. Len(paths) \in Nat /\ \A k \in 1 .. Len(paths) : Good(paths[k])
  <2> HIDE DEF Good
  <2>1. CASE ports = <<>>
    <3>1. paths = <<"/", "/s">> /\ Len(<<"/", "/s">>) = 2
      BY <2>1
    <3>2. \A k \in 1 .. 2 : k = 1 \/ k = 2
      OBVIOUS
    <3>3. <<"/", "/s">>[1] = "/" /\ <<"/", "/s">>[2] = "/s"
      OBVIOUS
    <3> HIDE DEF paths
    <3> QED
      BY <1>1, <3>1, <3>2, <3>3
  <2>2. CASE ports # <<>>
    <3>1. paths = Upto(ports, CrawlStarts)
      BY <2>2 DEF Upto
    <3>2. Row(paths) /\ ToSet(paths) \subseteq ToSet(ports)
      BY <1>1, <3>1, UptoRow
    <3> HIDE DEF paths, ports
    <3>3. Len(paths) \in Nat /\ DOMAIN paths = 1 .. Len(paths)
      BY <3>2 DEF Row
    <3>4. \A k \in 1 .. Len(paths) : paths[k] \in ToSet(ports)
      BY <3>2, <3>3 DEF ToSet
    <3> QED
      BY <1>1, <3>3, <3>4
  <2> QED
    BY <2>1, <2>2
<1> HIDE DEF Good, paths
<1>3. n \in Nat /\ n <= Len(paths)
  BY <1>1, <1>2, LesserOfTwo
<1> HIDE DEF n
<1>4. StartRoots(host) = jobs
  BY DEF StartRoots, n, paths
<1> DEFINE S == {Job("page", <<host, paths[k]>>, TRUE) : k \in 1 .. n}
<1>5. jobs \in [1 .. n -> S]
  OBVIOUS
<1>6. \A job \in S : Known(job.url) /\ Named(job)
  <2> SUFFICES ASSUME NEW k \in 1 .. n
               PROVE  LET job == Job("page", <<host, paths[k]>>, TRUE) IN Known(job.url) /\ Named(job)
    OBVIOUS
  <2>1. Good(paths[k])
    BY <1>2, <1>3
  <2> QED
    BY <2>1 DEF Good, Job, Known, Named
<1> HIDE DEF S, jobs
<1>7. jobs \in Seq(S)
  BY <1>3, <1>5
<1>8. Row(jobs) /\ ToSet(jobs) \subseteq S
  BY <1>7, RowOf
<1> QED
  BY <1>4, <1>6, <1>8

\* The crawl starts from the pages of its target, or fails.
LEMMA StartCrawlKeeps == ASSUME CrawlInv, StartCrawl PROVE CrawlInv'
<1> USE DEF StartCrawl
<1>1. xagenda = <<>>
  BY DEF CrawlInv, AgendaOK
<1>2. PICK w \in CrawlWorlds : w = xworld
  BY DEF CrawlInv
<1>3. \A job : Named(job) => Named(job)'
  BY NamedStays
<1>4. (xagenda' = <<>> /\ xstage' = "failed") \/ (xstage' = "crawl" /\ Row(xagenda') /\ \A job \in ToSet(xagenda') : Known(job.url) /\ Named(job))
  <2>1. CASE UNCHANGED xagenda /\ xstage' = "failed"
    BY <1>1, <2>1
  <2>2. CASE xstage' = "crawl" /\ w.start = "host" /\ xagenda' = StartRoots(w.url[1])
    BY <1>2, <2>2, StartRootsRow
  <2>3. CASE xstage' = "crawl" /\ \E root : xagenda' = <<Job("page", w.url, root)>>
    <3>1. PICK root : xagenda' = <<Job("page", w.url, root)>>
      BY <2>3
    <3> DEFINE job == Job("page", w.url, root)
    <3>2. w.url \in DOMAIN w.site
      BY CrawlAssumption
    <3>3. Known(job.url) /\ Named(job)
      BY <1>2, <3>2 DEF Job, Known, Named
    <3> HIDE DEF job
    <3>4. ToSet(<<job>>) = {job} /\ Row(<<job>>)
      BY DEF ToSet, Row
    <3> QED
      BY <2>3, <3>1, <3>3, <3>4 DEF job
  <2>4. w.start \in {"none", "param", "url", "host"}
    BY CrawlAssumption
  <2> QED
    BY <1>2, <2>1, <2>2, <2>3, <2>4
<1>5. \A url : Known(url)' <=> Known(url)
  BY DEF Known, Permits
<1>6. Row(<<>>) /\ ToSet(<<>>) = {}
  BY EmptyElements DEF Row
<1>7. AgendaOK'
  <2>1. Row(xagenda')
    BY <1>4, <1>6
  <2>2. ASSUME NEW job \in ToSet(xagenda') PROVE Known(job.url)' /\ Named(job)'
    BY <1>3, <1>4, <1>5, <1>6
  <2>3. xstage' \notin {"start", "done"}
    BY <1>4
  <2> QED
    BY <2>1, <2>2, <2>3 DEF AgendaOK
<1>8. FetchOK'
  BY <1>3, <1>5 DEF CrawlInv, FetchOK, Idle
<1>9. \A url : Handled(url) => Handled(url)'
  BY <1>1, <1>6 DEF Handled, Asked, NotedUrls, Idle
<1>10. Idle' <=> Idle
  BY DEF Idle
<1>11. UNCHANGED <<xworld, xclaims, xcontacts, xtold, xpages, xfindings>> /\ xnotes' = xnotes /\ xfetch' = xfetch
  OBVIOUS
<1> QED
  BY <1>7, <1>8, <1>9, <1>10, <1>11, QuietStep

\* Around the documents: the time, a cancellation, the end.
LEMMA AroundKeeps ==
  ASSUME CrawlInv, UNCHANGED <<xworld, xagenda, xfetch, xclaims, xcontacts, xtold, xpages, xfindings, xnotes>>, xstage # "start" /\ xstage # "done",
         xstage' = xstage \/ xstage' = "cancelled" \/ (xstage' = "done" /\ xagenda = <<>> /\ Idle)
  PROVE  CrawlInv'
<1>1. \A job : Named(job) => Named(job)'
  BY NamedStays
<1>2. \A url : Known(url)' <=> Known(url)
  BY DEF Known, Permits
<1>3. Idle' <=> Idle
  BY DEF Idle
<1>4. AgendaOK'
  BY <1>1, <1>2, <1>3 DEF CrawlInv, AgendaOK
<1>5. FetchOK'
  BY <1>1, <1>2, <1>3 DEF CrawlInv, FetchOK
<1>6. \A url : Handled(url) => Handled(url)'
  BY <1>3 DEF Handled, Asked, NotedUrls
<1>7. \A c \in ToSet(xcontacts) : c.purpose = "page" /\ ~Idle /\ xfetch.job = c.job =>
           c.url \in NotedUrls' \/ (~Idle' /\ xfetch'.job = c.job)
  BY <1>3
<1> QED
  BY <1>4, <1>5, <1>6, <1>7, QuietStep

\* A note that is put is there.
LEMMA NoteIsThere ==
  ASSUME NEW reason, NEW url, NoteFor(reason, url)
  PROVE  xnotes \subseteq xnotes' /\ url \in NotedUrls'
<1> DEFINE n == <<reason, url>>
<1>1. n \in xnotes' /\ n[2] = url /\ xnotes \subseteq xnotes'
  BY DEF NoteFor
<1> QED
  BY <1>1 DEF NotedUrls

\* A fetch that meets an obstacle is noted under the URL it was for.
LEMMA GiveUpKeeps == ASSUME CrawlInv, GiveUp PROVE CrawlInv'
<1> USE DEF GiveUp
<1>1. \A job : Named(job) => Named(job)'
  BY NamedStays
<1>2. \A url : Known(url)' <=> Known(url)
  BY DEF Known, Permits
<1>3. Idle' /\ xfetch' = NoFetch /\ xstage = "crawl" /\ xstage' = "crawl"
  BY DEF Idle, NoFetch
<1>4. AgendaOK'
  BY <1>1, <1>2, <1>3 DEF CrawlInv, AgendaOK
<1>5. FetchOK'
  BY <1>3 DEF FetchOK, NoFetch
<1>6. xnotes \subseteq xnotes' /\ xfetch.job.url \in NotedUrls'
  BY NoteIsThere
<1>7. NotedUrls \subseteq NotedUrls'
  BY <1>6 DEF NotedUrls
<1>8. \A url : Handled(url) => Handled(url)'
  BY <1>6, <1>7 DEF Handled, Asked
<1>9. ASSUME NEW c \in ToSet(xcontacts), c.purpose = "page", ~Idle, xfetch.job = c.job PROVE c.url \in NotedUrls'
  BY <1>6, <1>9 DEF CrawlInv, RequestsOK
<1> QED
  BY <1>4, <1>5, <1>6, <1>8, <1>9, QuietStep

\* What leaves the agenda is at hand, noted, or out of scope.
LEMMA TakeJobKeeps == ASSUME CrawlInv, TakeJob PROVE CrawlInv'
<1>0. PICK job, rest : job = Head(xagenda) /\ rest = Tail(xagenda)
  OBVIOUS
<1>1. /\ xstage = "crawl" /\ Idle /\ xagenda # <<>> /\ xstage' = "crawl"
      /\ UNCHANGED <<xworld, xclaims, xcontacts, xtold, xpages, xfindings>>
  BY DEF TakeJob
<1>2. \A j : Named(j) => Named(j)'
  BY <1>1, NamedStays
<1>3. \A url : (Known(url)' <=> Known(url)) /\ (Permits(url)' <=> Permits(url))
  BY <1>1 DEF Known, Permits
<1>4. /\ Row(xagenda) /\ Row(rest) /\ ToSet(xagenda) = {job} \cup ToSet(rest) /\ job = xagenda[1]
      /\ \A j \in ToSet(xagenda) : Known(j.url) /\ Named(j)
  BY <1>0, <1>1, TailRow DEF CrawlInv, AgendaOK
<1>5. \/ ~Permits(job.url) /\ xagenda' = rest /\ UNCHANGED <<xfetch, xnotes>>
      \/ /\ xlate /\ UNCHANGED xfetch /\ xagenda' = IF job.kind = "page" THEN <<>> ELSE rest
         /\ xnotes' = xnotes \cup {<<"deadline", xagenda[k].url>> : k \in IF job.kind = "page" THEN DOMAIN xagenda ELSE {1}}
      \/ /\ Permits(job.url) /\ xfetch' = [job |-> job, at |-> job.url, visited |-> {}, hops |-> 0]
         /\ xagenda' = rest /\ UNCHANGED xnotes
  BY <1>0 DEF TakeJob
<1>6. Row(<<>>) /\ ToSet(<<>>) = {}
  BY EmptyElements DEF Row
<1>7. xnotes \subseteq xnotes' /\ Row(xagenda') /\ ToSet(xagenda') \subseteq ToSet(xagenda)
  BY <1>4, <1>5, <1>6
<1>8. AgendaOK'
  <2>1. ASSUME NEW j \in ToSet(xagenda') PROVE Known(j.url)' /\ Named(j)'
    BY <1>2, <1>3, <1>4, <1>7
  <2> QED
    BY <1>1, <1>7, <2>1 DEF AgendaOK
<1>9. FetchOK'
  <2>1. CASE UNCHANGED xfetch
    BY <1>1, <2>1 DEF CrawlInv, FetchOK, Idle
  <2>2. CASE xfetch' = [job |-> job, at |-> job.url, visited |-> {}, hops |-> 0]
    <3>1. xfetch'.job = job /\ xfetch'.at = job.url /\ xfetch'.hops = 0 /\ DOMAIN xfetch' = {"job", "at", "visited", "hops"}
      BY <2>2
    <3>2. Known(job.url)' /\ Named(job)'
      BY <1>2, <1>3, <1>4
    <3>3. Known(xfetch.at)' /\ Named(xfetch.job)'
      BY <3>1, <3>2
    <3> QED
      BY <3>1, <3>3 DEF FetchOK
  <2> QED
    BY <1>5, <2>1, <2>2
<1>10. NotedUrls \subseteq NotedUrls' /\ Asked' = Asked
  BY <1>1, <1>7 DEF NotedUrls, Asked
<1>11. ASSUME NEW url, Handled(url), Permits(url) PROVE Handled(url)'
  <2>1. url \in Asked \/ url \in NotedUrls \/ \E j \in ToSet(xagenda) : j.url = url
    BY <1>1, <1>11 DEF Handled
  <2>2. CASE url \in Asked \/ url \in NotedUrls
    BY <1>10, <2>2 DEF Handled
  <2>3. ASSUME NEW j \in ToSet(rest), j.url = url, xagenda' = rest PROVE Handled(url)'
    BY <2>3 DEF Handled
  <2>4. ASSUME job.url = url PROVE Handled(url)'
    <3>1. CASE ~Permits(job.url)
      BY <1>11, <2>4, <3>1
    <3>2. CASE xnotes' = xnotes \cup {<<"deadline", xagenda[k].url>> : k \in IF job.kind = "page" THEN DOMAIN xagenda ELSE {1}}
      <4> DEFINE n == <<"deadline", xagenda[1].url>>
      <4>1. 1 \in DOMAIN xagenda
        BY <1>1, <1>4 DEF Row
      <4>2. n \in xnotes' /\ n[2] = url
        BY <1>4, <2>4, <3>2, <4>1
      <4> QED
        BY <4>2 DEF Handled, NotedUrls
    <3>3. CASE xfetch' = [job |-> job, at |-> job.url, visited |-> {}, hops |-> 0]
      <4>1. job # NoJob
        BY <1>4 DEF Named, NoJob
      <4>2. xfetch'.job = job /\ xfetch'.hops = 0
        BY <3>3
      <4> QED
        BY <2>4, <4>1, <4>2 DEF Handled, Idle, NoJob
    <3> QED
      BY <1>5, <3>1, <3>2, <3>3
  <2>5. ASSUME NEW j \in ToSet(xagenda), j.url = url, xagenda' # rest PROVE Handled(url)'
    <3>1. xnotes' = xnotes \cup {<<"deadline", xagenda[k].url>> : k \in DOMAIN xagenda}
      BY <1>5, <2>5
    <3>2. PICK k \in DOMAIN xagenda : j = xagenda[k]
      BY <2>5 DEF ToSet
    <3> DEFINE n == <<"deadline", xagenda[k].url>>
    <3>3. n \in xnotes' /\ n[2] = url
      BY <2>5, <3>1, <3>2
    <3> QED
      BY <3>3 DEF Handled, NotedUrls
  <2> QED
    BY <1>4, <2>1, <2>2, <2>3, <2>4, <2>5
<1> QED
  BY <1>1, <1>7, <1>8, <1>9, <1>11, QuietStep

-----------------------------------------------------------------------------
(* Requests.                                                               *)

\* What ContactsNamed says of one request.
NamedAt(k) ==
    LET c == xcontacts[k] earlier == {xcontacts[j] : j \in 1..(k - 1)}
    IN  /\ Permits(c.url)
        /\ <<c.url, c.purpose>> \notin xworld.claims
        /\ ~ \E e \in earlier : e.url = c.url /\ e.purpose = c.purpose
        /\ c.purpose = "redirect" => \E e \in earlier : xworld.site[e.url].to = c.url
        /\ c.purpose = "page" =>
             \/ c.job.kind = "page" /\ (c.url = xworld.url \/ (c.url[1] = xworld.url[1] /\ xworld.start = "host"))
             \/ c.job.kind = "script" /\ FetchJs /\ \E t \in xtold : t.url = c.url /\ t.source = "script"
             \/ c.job.kind = "robots" /\ FetchRobots /\ \E u \in ReadAs("page") : u[1] = c.url[1]
             \/ c.job.kind = "sitemap" /\ FetchSitemap /\ \E u \in ReadAs("robots") : c.url \in ToSet(xworld.site[u].sitemaps)

\* What a request adds, whatever comes of it.
LEMMA ContactAdds ==
  ASSUME CrawlInv, ~Idle, Obstacle = "none", Contact, xworld' = xworld, xtold \subseteq xtold', xpages \subseteq xpages'
  PROVE  LET c == [url |-> xfetch.at, purpose |-> Purpose, job |-> xfetch.job]
         IN  /\ Row(xcontacts') /\ ToSet(xcontacts') = ToSet(xcontacts) \cup {c} /\ ContactsNamed'
             /\ xworld'.claims \subseteq xclaims' /\ Asked' = Asked \cup {xfetch.at}
             /\ \A d \in ToSet(xcontacts') :
                  /\ <<d.url, d.purpose>> \in xclaims' /\ d.purpose \in {"page", "redirect"}
                  /\ d.purpose = "redirect" => xworld'.level >= 3
                  /\ d.purpose = "page" => d.url = d.job.url /\ Named(d.job)'
<1>0. PICK c, n : c = [url |-> xfetch.at, purpose |-> Purpose, job |-> xfetch.job] /\ n = Len(xcontacts)
  OBVIOUS
<1>1. /\ xclaims' = xclaims \cup {<<c.url, c.purpose>>} /\ xcontacts' = Append(xcontacts, c)
      /\ c.url = xfetch.at /\ c.purpose = Purpose /\ c.job = xfetch.job
  BY <1>0 DEF Contact
<1>2. Permits(xfetch.at) /\ <<c.url, c.purpose>> \notin xclaims
  BY <1>1 DEF Obstacle, Claimed
<1>3. /\ c.purpose \in {"page", "redirect"} /\ (c.purpose = "page" => xfetch.hops = 0) /\ (c.purpose = "redirect" => xfetch.hops # 0)
  BY <1>1 DEF Purpose
<1>4. /\ Known(xfetch.at) /\ Named(xfetch.job) /\ xfetch.hops \in Nat
      /\ xfetch.hops = 0 => xfetch.at = xfetch.job.url
      /\ xfetch.hops # 0 => xworld.level >= 3 /\ \E d \in ToSet(xcontacts) : xworld.site[d.url].to = xfetch.at
  BY DEF CrawlInv, FetchOK
<1>5. \A job : Named(job) => Named(job)'
  BY NamedStays
<1>6. Row(xcontacts) /\ n \in Nat /\ DOMAIN xcontacts = 1 .. n
  BY <1>0 DEF CrawlInv, RequestsOK, Row
<1>7. /\ DOMAIN xcontacts' = 1 .. n + 1 /\ xcontacts'[n + 1] = c /\ \A i \in 1 .. n : xcontacts'[i] = xcontacts[i]
  BY <1>1, <1>6 DEF Row
<1>8. Row(xcontacts') /\ ToSet(xcontacts') = ToSet(xcontacts) \cup {c}
  <2> DEFINE S == ToSet(xcontacts) \cup {c}
  <2>1. xcontacts \in Seq(S) /\ c \in S
    BY <1>6 DEF Row
  <2> HIDE DEF S
  <2>2. Append(xcontacts, c) \in Seq(S) /\ ToSet(Append(xcontacts, c)) = ToSet(xcontacts) \cup {c}
    BY <2>1, AppendMembers
  <2>3. Row(Append(xcontacts, c))
    BY <2>2, RowOf
  <2> QED
    BY <1>1, <2>2, <2>3
<1>9. Asked' = Asked \cup {xfetch.at}
  BY <1>1, <1>8 DEF Asked
<1>10. ASSUME NEW d \in ToSet(xcontacts')
       PROVE  /\ <<d.url, d.purpose>> \in xclaims' /\ d.purpose \in {"page", "redirect"}
              /\ d.purpose = "redirect" => xworld'.level >= 3
              /\ d.purpose = "page" => d.url = d.job.url /\ Named(d.job)'
  <2>1. CASE d = c
    BY <1>1, <1>3, <1>4, <1>5, <2>1
  <2>2. CASE d \in ToSet(xcontacts)
    BY <1>1, <1>5, <2>2 DEF CrawlInv, RequestsOK
  <2> QED
    BY <1>8, <2>1, <2>2
<1>11. xworld'.claims \subseteq xclaims'
  BY <1>1 DEF CrawlInv, RequestsOK
<1>12. \A kind : ReadAs(kind) \subseteq ReadAs(kind)'
  BY DEF ReadAs
<1> DEFINE Came(d) ==
             \/ d.job.kind = "page" /\ (d.url = xworld.url \/ (d.url[1] = xworld.url[1] /\ xworld.start = "host"))
             \/ d.job.kind = "script" /\ FetchJs /\ \E t \in xtold : t.url = d.url /\ t.source = "script"
             \/ d.job.kind = "robots" /\ FetchRobots /\ \E u \in ReadAs("page") : u[1] = d.url[1]
             \/ d.job.kind = "sitemap" /\ FetchSitemap /\ \E u \in ReadAs("robots") : d.url \in ToSet(xworld.site[u].sitemaps)
<1>13. ContactsNamed'
  <2> SUFFICES ASSUME NEW k \in DOMAIN xcontacts'
               PROVE  (NamedAt(k))'
    BY DEF ContactsNamed, NamedAt
  <2> SUFFICES        /\ (Permits(xcontacts[k].url))'
                      /\ <<xcontacts'[k].url, xcontacts'[k].purpose>> \notin xworld'.claims
                      /\ \A j \in 1 .. (k - 1) : ~(xcontacts'[j].url = xcontacts'[k].url /\ xcontacts'[j].purpose = xcontacts'[k].purpose)
                      /\ xcontacts'[k].purpose = "redirect" =>
                           \E j \in 1 .. (k - 1) : xworld'.site[xcontacts'[j].url].to = xcontacts'[k].url
                      /\ xcontacts'[k].purpose = "page" => (Came(xcontacts[k]))'
    BY DEF NamedAt
  <2>1. \A j \in 1 .. (k - 1) : j \in 1 .. n /\ xcontacts'[j] = xcontacts[j]
    BY <1>6, <1>7
  <2>2. CASE k \in 1 .. n
    <3>1. PICK d : d = xcontacts[k] /\ d = xcontacts'[k]
      BY <1>7, <2>2
    <3>2. /\ Permits(d.url) /\ <<d.url, d.purpose>> \notin xworld.claims
          /\ \A j \in 1 .. (k - 1) : ~(xcontacts[j].url = d.url /\ xcontacts[j].purpose = d.purpose)
          /\ d.purpose = "redirect" => \E j \in 1 .. (k - 1) : xworld.site[xcontacts[j].url].to = d.url
          /\ d.purpose = "page" => Came(d)
      <4>1. NamedAt(k)
        BY <1>6, <2>2 DEF CrawlInv, ContactsNamed, NamedAt
      <4> QED
        BY <3>1, <4>1 DEF NamedAt
    <3>3. Came(d) => Came(d)'
      BY <1>12 DEF FetchJs, FetchRobots, FetchSitemap
    <3>4. Permits(d.url)'
      BY <3>2 DEF Permits
    <3> HIDE DEF Came
    <3> QED
      BY <2>1, <3>1, <3>2, <3>3, <3>4
  <2>3. CASE k = n + 1
    <3>1. xcontacts'[k] = c /\ k - 1 = n
      BY <1>6, <1>7, <2>3
    <3>2. Permits(c.url)'
      BY <1>1, <1>2 DEF Permits
    <3>3. <<c.url, c.purpose>> \notin xworld'.claims
      BY <1>2 DEF CrawlInv, RequestsOK
    <3>4. ASSUME NEW j \in 1 .. n PROVE ~(xcontacts[j].url = c.url /\ xcontacts[j].purpose = c.purpose)
      <4>1. PICK d : d = xcontacts[j]
        OBVIOUS
      <4>2. d \in ToSet(xcontacts)
        BY <1>6, <4>1 DEF ToSet
      <4>3. <<d.url, d.purpose>> \in xclaims
        BY <4>2 DEF CrawlInv, RequestsOK
      <4> QED
        BY <1>2, <4>1, <4>3
    <3>5. c.purpose = "redirect" => \E j \in 1 .. n : xworld'.site[xcontacts[j].url].to = c.url
      BY <1>1, <1>3, <1>4, <1>6 DEF ToSet
    <3>6. ASSUME c.purpose = "page" PROVE Came(c)'
      <4>1. c.url = c.job.url /\ Named(c.job)
        BY <1>1, <1>3, <1>4, <3>6
      <4>2. ASSUME NEW u \in ReadAs("robots") PROVE \A v \in ToSet(FilesOf(u)) : v \in ToSet(xworld.site[u].sitemaps)
        <5>1. u \in DOMAIN xworld.site /\ xworld \in CrawlWorlds
          BY DEF CrawlInv, RequestsOK, ReadAs
        <5>2. PICK s : s = xworld.site[u].sitemaps
          OBVIOUS
        <5>3. Row(s) /\ RootSitemaps \in Nat
          BY <5>1, <5>2, CrawlAssumption
        <5>4. \A v \in ToSet(PermittedOf(s, RootSitemaps)) : v \in ToSet(s)
          BY <5>3, PermittedRowHas
        <5> QED
          BY <5>2, <5>4 DEF FilesOf
      <4>3. Came(c)
        BY <4>1, <4>2 DEF Named
      <4> QED
        BY <1>12, <4>3 DEF FetchJs, FetchRobots, FetchSitemap
    <3> HIDE DEF Came
    <3> QED
      BY <2>1, <3>1, <3>2, <3>3, <3>4, <3>5, <3>6
  <2> QED
    BY <1>6, <1>7, <2>2, <2>3
<1> QED
  BY <1>0, <1>8, <1>9, <1>10, <1>11, <1>13

\* A request that fails or is sent on.
LEMMA UnreadKeeps ==
  ASSUME CrawlInv, ~Idle, Obstacle = "none", Contact, UNCHANGED <<xworld, xagenda, xtold, xpages, xfindings, xstage>>,
         xnotes \subseteq xnotes', FetchOK', xstage = "crawl",
         (~Idle' /\ xfetch'.job = xfetch.job) \/ xfetch.job.url \in NotedUrls'
  PROVE  CrawlInv'
<1> DEFINE c == [url |-> xfetch.at, purpose |-> Purpose, job |-> xfetch.job]
<1>1. /\ Row(xcontacts') /\ ToSet(xcontacts') = ToSet(xcontacts) \cup {c} /\ ContactsNamed'
      /\ xworld'.claims \subseteq xclaims' /\ Asked' = Asked \cup {xfetch.at}
      /\ \A d \in ToSet(xcontacts') :
           /\ <<d.url, d.purpose>> \in xclaims' /\ d.purpose \in {"page", "redirect"}
           /\ d.purpose = "redirect" => xworld'.level >= 3
           /\ d.purpose = "page" => d.url = d.job.url /\ Named(d.job)'
  BY ContactAdds
<1>2. \A job : Named(job) => Named(job)'
  BY NamedStays
<1>3. \A url : (Known(url)' <=> Known(url)) /\ (Permits(url)' <=> Permits(url))
  BY DEF Known, Permits
<1>4. AgendaOK'
  BY <1>2, <1>3 DEF CrawlInv, AgendaOK
<1>5. NotedUrls \subseteq NotedUrls' /\ \A kind : ReadAs(kind)' = ReadAs(kind)
  BY DEF NotedUrls, ReadAs
<1>6. RequestsOK'
  <2>1. ASSUME NEW d \in ToSet(xcontacts'), d.purpose = "page"
        PROVE  d.url \in NotedUrls' \/ (\E p \in xpages' : p.kind = d.job.kind) \/ (~Idle' /\ xfetch'.job = d.job)
    <3>1. d.url = d.job.url
      BY <1>1, <2>1
    <3>2. CASE d.job = xfetch.job
      BY <3>1, <3>2
    <3>3. CASE d.job # xfetch.job
      <4>1. d \in ToSet(xcontacts)
        BY <1>1, <3>3
      <4> QED
        BY <1>5, <2>1, <3>3, <4>1 DEF CrawlInv, RequestsOK
    <3> QED
      BY <3>2, <3>3
  <2>2. (\A p \in xpages : p.url \in DOMAIN xworld.site)' /\ IsFiniteSet(xpages')
    BY DEF CrawlInv, RequestsOK
  <2> HIDE DEF c
  <2> QED
    BY <1>1, <2>1, <2>2 DEF RequestsOK
<1>7. ASSUME NEW url, Handled(url) PROVE Handled(url)'
  <2>1. ~Idle /\ xfetch.hops = 0 /\ xfetch.job.url = url => url \in Asked'
    BY <1>1 DEF CrawlInv, FetchOK
  <2> QED
    BY <1>1, <1>5, <1>7, <2>1 DEF Handled
<1>8. KeptOK'
  <2>1. KeptOK
    BY DEF CrawlInv
  <2>2. ASSUME FetchJs', NEW t \in xtold', t.source = "script", t.permitted PROVE Handled(t.url)'
    <3>1. Handled(t.url)
      BY <2>1, <2>2 DEF KeptOK, FetchJs
    <3> QED
      BY <1>7, <3>1
  <2>3. ASSUME FetchSitemap', NEW u \in ReadAs("robots")', xworld'.site[u].status = 200,
               NEW v \in ToSet(xworld'.site[u].sitemaps), Permits(v)', <<"sitemaps", u>> \notin xnotes'
        PROVE  Handled(v)'
    <3>1. FetchSitemap /\ u \in ReadAs("robots") /\ Permits(v) /\ <<"sitemaps", u>> \notin xnotes
      BY <1>3, <1>5, <2>3 DEF FetchSitemap
    <3>2. Handled(v)
      BY <2>1, <2>3, <3>1 DEF KeptOK
    <3> QED
      BY <1>7, <3>2
  <2> QED
    BY <2>2, <2>3 DEF KeptOK
<1>9. CandidatesHonest'
  BY <1>5 DEF CrawlInv, CandidatesHonest
<1>10. (xworld \in CrawlWorlds /\ xfindings \in Nat /\ xfindings <= PageFindings)'
  BY DEF CrawlInv
<1> QED
  BY <1>1, <1>4, <1>6, <1>8, <1>9, <1>10 DEF CrawlInv

\* A request that fails is noted under the URL it was for.
LEMMA RequestFailsKeeps == ASSUME CrawlInv, RequestFails PROVE CrawlInv'
<1>1. /\ ~Idle /\ Obstacle = "none" /\ Contact /\ UNCHANGED <<xworld, xagenda, xtold, xpages, xfindings, xstage>>
      /\ xstage = "crawl" /\ xfetch' = NoFetch /\ NoteFor("failed", xfetch.job.url)
  BY DEF RequestFails
<1>2. xnotes \subseteq xnotes' /\ xfetch.job.url \in NotedUrls'
  BY <1>1, NoteIsThere
<1>3. FetchOK'
  BY <1>1 DEF FetchOK, NoFetch, Idle
<1> QED
  BY <1>1, <1>2, <1>3, UnreadKeeps

\* A request that is sent on goes on to a URL in scope, or is noted.
LEMMA RequestRedirectsKeeps == ASSUME CrawlInv, RequestRedirects PROVE CrawlInv'
<1>0. PICK to : to = DocumentAt.to
  OBVIOUS
<1>1. /\ ~Idle /\ Obstacle = "none" /\ Contact /\ UNCHANGED <<xworld, xagenda, xtold, xpages, xfindings, xstage>>
      /\ xstage = "crawl" /\ to # Nowhere
      /\ IF Refusal(to) = "none"
         THEN /\ xfetch' = [xfetch EXCEPT !.at = to, !.hops = @ + 1, !.visited = @ \cup {xfetch.at}]
              /\ UNCHANGED xnotes
         ELSE xfetch' = NoFetch /\ NoteFor(Refusal(to), xfetch.job.url)
  BY <1>0 DEF RequestRedirects, Redirects
<1>2. CASE Refusal(to) # "none"
  <2>1. xfetch' = NoFetch /\ xnotes \subseteq xnotes' /\ xfetch.job.url \in NotedUrls'
    BY <1>1, <1>2, NoteIsThere
  <2>2. FetchOK'
    BY <2>1 DEF FetchOK, NoFetch, Idle
  <2> QED
    BY <1>1, <2>1, <2>2, UnreadKeeps
<1>3. CASE Refusal(to) = "none"
  <2>1. DOMAIN xfetch = {"job", "at", "visited", "hops"} /\ xfetch.hops \in Nat /\ Known(xfetch.at) /\ Named(xfetch.job)
    BY <1>1 DEF CrawlInv, FetchOK
  <2>2. xfetch' = [xfetch EXCEPT !.at = to, !.hops = @ + 1, !.visited = @ \cup {xfetch.at}] /\ xnotes' = xnotes
    BY <1>1, <1>3
  <2>3. DOMAIN xfetch' = {"job", "at", "visited", "hops"} /\ xfetch'.job = xfetch.job /\ xfetch'.at = to /\ xfetch'.hops = xfetch.hops + 1
    BY <2>1, <2>2
  <2>4. xworld.level >= 3
    <3>1. ~(xfetch.hops >= RedirectCap)
      BY <1>3 DEF Refusal
    <3>2. xworld.level \in Nat
      BY CrawlAssumption DEF CrawlInv
    <3> QED
      BY <2>1, <3>1, <3>2 DEF RedirectCap
  <2>5. Permits(xfetch.at)
    BY <1>1 DEF Obstacle
  <2>6. Known(to)
    <3>1. xfetch.at \in DOMAIN xworld.site /\ xworld \in CrawlWorlds
      BY <2>1, <2>5 DEF Known, CrawlInv
    <3>2. PICK d : d = xworld.site[xfetch.at]
      OBVIOUS
    <3>3. to \in {d.to} \ {Nowhere}
      BY <1>0, <1>1, <3>2 DEF DocumentAt
    <3>4. to[1] \notin xworld.scope \/ to \in DOMAIN xworld.site
      BY <3>1, <3>2, <3>3, CrawlAssumption
    <3> QED
      BY <3>4 DEF Known, Permits
  <2>7. \A job : Named(job) => Named(job)'
    BY <1>1, NamedStays
  <2>8. PICK c : c = [url |-> xfetch.at, purpose |-> Purpose, job |-> xfetch.job]
    OBVIOUS
  <2>9. c \in ToSet(xcontacts') /\ xworld'.site[c.url].to = to
    <3>1. ToSet(xcontacts') = ToSet(xcontacts) \cup {c}
      BY <1>1, <2>8, ContactAdds
    <3>2. c.url = xfetch.at
      BY <2>8
    <3> QED
      BY <1>0, <1>1, <3>1, <3>2 DEF DocumentAt
  <2>10. Known(to)' /\ Named(xfetch.job)'
    <3>1. PICK job : job = xfetch.job
      OBVIOUS
    <3>2. Named(job)'
      BY <2>1, <2>7, <3>1
    <3>3. Named(xfetch.job)'
      BY <2>3, <3>1, <3>2
    <3> QED
      BY <1>1, <2>6, <3>3 DEF Known, Permits
  <2>11. ~Idle' /\ xfetch.job = xfetch'.job
    BY <1>1, <2>3 DEF Idle
  <2>12. FetchOK'
    <3>1. Known(xfetch.at)'
      BY <2>3, <2>10
    <3>2. xfetch'.hops \in Nat /\ xfetch'.hops # 0
      BY <2>1, <2>3
    <3>3. xworld'.level >= 3
      BY <1>1, <2>4
    <3> QED
      BY <2>3, <2>9, <2>10, <3>1, <3>2, <3>3 DEF FetchOK
  <2> QED
    BY <1>1, <2>2, <2>11, <2>12, UnreadKeeps
<1> QED
  BY <1>2, <1>3

-----------------------------------------------------------------------------
(* Documents.                                                              *)

\* What a candidate says of itself.
Honest(t) ==
  /\ t.eligible => t.permitted /\ t.source \notin {"script", "literal", "form", "image"}
  /\ t.permitted = (t.url[1] \in xworld.scope)

\* The candidates from a row of URLs: one for each, and honest.
LEMMA TellAllHonest ==
  ASSUME NEW urls, NEW source, NEW page, NEW eligible, NEW T, T = TellAll(urls, source, page, eligible)
  PROVE  /\ \A t \in T :
              Honest(t) /\ t.source = source /\ t.url \in ToSet(urls)
         /\ \A u \in ToSet(urls) : \E t \in T :
              t.url = u /\ t.page = page /\ t.source = source
<1>1. ASSUME NEW u PROVE LET t == TellOf(u, source, page, eligible)
                         IN  Honest(t) /\ t.source = source /\ t.url = u /\ t.page = page
  BY DEF TellOf, Honest, PageLike, Permits
<1>2. T = {TellOf(u, source, page, eligible) : u \in ToSet(urls)}
  BY DEF TellAll
<1>3. ASSUME NEW t \in T
      PROVE  Honest(t) /\ t.source = source /\ t.url \in ToSet(urls)
  <2>1. PICK u \in ToSet(urls) : t = TellOf(u, source, page, eligible)
    BY <1>2
  <2> QED
    BY <1>1, <2>1
<1>4. ASSUME NEW u \in ToSet(urls)
      PROVE  \E t \in T : t.url = u /\ t.page = page /\ t.source = source
  <2>1. TellOf(u, source, page, eligible) \in T
    BY <1>2
  <2> QED
    BY <1>1, <2>1
<1> QED
  BY <1>3, <1>4

\* What a document that may be read refers to.
LEMMA DocumentRows ==
  ASSUME CrawlInv, NEW u \in DOMAIN xworld.site, NEW d, d = xworld.site[u]
  PROVE  /\ Row(d.sitemaps) /\ \A source \in Sources : Row(d.refs[source])
         /\ d.refs.link = d.refs["link"] /\ d.refs.script = d.refs["script"]
         /\ \A v \in ToSet(d.sitemaps) \cup ToSet(d.refs.script) : Known(v)
         /\ Known(<<u[1], "/robots.txt">>)
         /\ CrawlStarts \in Nat /\ PageLinks \in Nat /\ PageScripts \in Nat /\ RootSitemaps \in Nat /\ PageFindings \in Nat
<1>1. xworld \in CrawlWorlds
  BY DEF CrawlInv
<1>2. Row(d.sitemaps) /\ \A source \in Sources : Row(d.refs[source])
  BY <1>1, CrawlAssumption
<1>3. \A v \in ({d.to} \ {Nowhere}) \cup ToSet(d.sitemaps) \cup ToSet(d.refs.script) :
                 v[1] \notin xworld.scope \/ v \in DOMAIN xworld.site
  BY <1>1, CrawlAssumption
<1>4. <<u[1], "/robots.txt">> \in DOMAIN xworld.site
  BY <1>1, CrawlAssumption
<1> QED
  BY <1>2, <1>3, <1>4, CrawlAssumption DEF Known, Permits

\* A document that was read, whatever its kind.
LEMMA ReadKeepsRest ==
  ASSUME CrawlInv, ~Idle, Obstacle = "none", Contact, xworld' = xworld, xstage' = xstage, xstage = "crawl",
         xfetch' = NoFetch, xpages' = xpages \cup {[url |-> xfetch.at, kind |-> xfetch.job.kind]},
         xtold \subseteq xtold', xnotes \subseteq xnotes', (xfindings \in Nat /\ xfindings <= PageFindings)',
         ToSet(xagenda) \subseteq ToSet(xagenda'), Row(xagenda'),
         \A job \in ToSet(xagenda') \ ToSet(xagenda) : Known(job.url) /\ Named(job)',
         \A t \in xtold' \ xtold : Honest(t),
         \A t \in xtold' \ xtold : FetchJs /\ t.source = "script" /\ t.permitted => \E job \in ToSet(xagenda') : job.url = t.url,
         \A v \in ToSet(xworld.site[xfetch.at].sitemaps) :
           xfetch.job.kind = "robots" /\ FetchSitemap /\ xworld.site[xfetch.at].status = 200 /\ Permits(v) =>
             (\E job \in ToSet(xagenda') : job.url = v) \/ <<"sitemaps", xfetch.at>> \in xnotes',
         xfetch.job.kind = "page" /\ Dispatch(xfetch.at, xworld.site[xfetch.at]) = "html" =>
           \A source \in {"link", "canonical", "form", "script", "image"} : \A v \in ToSet(xworld.site[xfetch.at].refs[source]) :
             \/ \E t \in xtold' : t.url = v /\ t.page = xfetch.at /\ t.source = source
             \/ source = "link" /\ <<"links", xfetch.at>> \in xnotes'
             \/ source = "script" /\ <<"scripts", xfetch.at>> \in xnotes'
  PROVE  CrawlInv'
<1> DEFINE c == [url |-> xfetch.at, purpose |-> Purpose, job |-> xfetch.job]
<1>0. PICK at, kind, d : at = xfetch.at /\ kind = xfetch.job.kind /\ d = xworld.site[at]
  OBVIOUS
<1>1. /\ Row(xcontacts') /\ ToSet(xcontacts') = ToSet(xcontacts) \cup {c} /\ ContactsNamed'
      /\ xworld'.claims \subseteq xclaims' /\ Asked' = Asked \cup {at}
      /\ \A e \in ToSet(xcontacts') :
           /\ <<e.url, e.purpose>> \in xclaims' /\ e.purpose \in {"page", "redirect"}
           /\ e.purpose = "redirect" => xworld'.level >= 3
           /\ e.purpose = "page" => e.url = e.job.url /\ Named(e.job)'
  BY <1>0, ContactAdds
<1>2. \A job : Named(job) => Named(job)'
  BY NamedStays
<1>3. \A url : (Known(url)' <=> Known(url)) /\ (Permits(url)' <=> Permits(url))
  BY DEF Known, Permits
<1>4. AgendaOK'
  <2>1. ASSUME NEW job \in ToSet(xagenda') PROVE Known(job.url)' /\ Named(job)'
    BY <1>2, <1>3 DEF CrawlInv, AgendaOK
  <2> QED
    BY <2>1 DEF AgendaOK
<1>5. FetchOK'
  BY DEF FetchOK, NoFetch, Idle
<1>6. NotedUrls \subseteq NotedUrls'
  BY DEF NotedUrls
<1>7. ReadAs(kind)' = ReadAs(kind) \cup {at} /\ \A other : other # kind => ReadAs(other)' = ReadAs(other)
  <2> DEFINE p == [url |-> at, kind |-> kind]
  <2>1. xpages' = xpages \cup {p} /\ p.url = at /\ p.kind = kind
    BY <1>0
  <2> HIDE DEF p
  <2> QED
    BY <2>1 DEF ReadAs
<1>8. Permits(at) /\ at \in DOMAIN xworld.site
  <2>1. Permits(at) /\ Known(at)
    BY <1>0 DEF Obstacle, CrawlInv, FetchOK
  <2> QED
    BY <2>1 DEF Known
<1>9. RequestsOK'
  <2> DEFINE p == [url |-> at, kind |-> kind]
  <2>1. xpages' = xpages \cup {p} /\ p.url = at /\ p.kind = kind
    BY <1>0
  <2>2. c.job = xfetch.job
    OBVIOUS
  <2> HIDE DEF p, c
  <2>3. ASSUME NEW e \in ToSet(xcontacts'), e.purpose = "page"
        PROVE  e.url \in NotedUrls' \/ (\E q \in xpages' : q.kind = e.job.kind) \/ (~Idle' /\ xfetch'.job = e.job)
    <3>1. CASE e.job = xfetch.job
      BY <1>0, <2>1, <3>1
    <3>2. CASE e.job # xfetch.job
      <4>1. e \in ToSet(xcontacts)
        BY <1>1, <2>2, <3>2
      <4>2. e.url \in NotedUrls \/ \E q \in xpages : q.kind = e.job.kind
        BY <2>3, <3>2, <4>1 DEF CrawlInv, RequestsOK
      <4> QED
        BY <1>6, <2>1, <4>2
    <3> QED
      BY <3>1, <3>2
  <2>4. \A q \in xpages' : q.url \in DOMAIN xworld'.site
    BY <1>8, <2>1 DEF CrawlInv, RequestsOK
  <2>5. IsFiniteSet(xpages')
    <3>1. IsFiniteSet(xpages)
      BY DEF CrawlInv, RequestsOK
    <3> QED
      BY <2>1, <3>1, FS_AddElement
  <2> QED
    BY <1>1, <2>3, <2>4, <2>5 DEF RequestsOK
<1>10. ASSUME NEW url, Handled(url) PROVE Handled(url)'
  <2>1. ~Idle /\ xfetch.hops = 0 /\ xfetch.job.url = url => url \in Asked'
    BY <1>0, <1>1 DEF CrawlInv, FetchOK
  <2> QED
    BY <1>1, <1>6, <1>10, <2>1 DEF Handled
<1>11. KeptOK'
  <2>1. KeptOK
    BY DEF CrawlInv
  <2>2. ASSUME FetchJs', NEW t \in xtold', t.source = "script", t.permitted PROVE Handled(t.url)'
    <3>0. FetchJs
      BY <2>2 DEF FetchJs
    <3>1. CASE t \in xtold
      <4>1. Handled(t.url)
        BY <2>1, <2>2, <3>0, <3>1 DEF KeptOK
      <4> QED
        BY <1>10, <4>1
    <3>2. CASE t \notin xtold
      BY <2>2, <3>0, <3>2 DEF Handled
    <3> QED
      BY <3>1, <3>2
  <2>3. ASSUME FetchSitemap', NEW u \in ReadAs("robots")', xworld'.site[u].status = 200,
               NEW v \in ToSet(xworld'.site[u].sitemaps), Permits(v)', <<"sitemaps", u>> \notin xnotes'
        PROVE  Handled(v)'
    <3>1. FetchSitemap /\ Permits(v) /\ <<"sitemaps", u>> \notin xnotes
      BY <1>3, <2>3 DEF FetchSitemap
    <3>2. CASE u \in ReadAs("robots")
      <4>1. Handled(v)
        BY <2>1, <2>3, <3>1, <3>2 DEF KeptOK
      <4> QED
        BY <1>10, <4>1
    <3>3. CASE u \notin ReadAs("robots")
      <4>1. u = at /\ kind = "robots"
        BY <1>7, <2>3, <3>3
      <4>2. \E job \in ToSet(xagenda') : job.url = v
        BY <1>0, <2>3, <3>1, <4>1
      <4> QED
        BY <4>2 DEF Handled
    <3> QED
      BY <3>2, <3>3
  <2> QED
    BY <2>2, <2>3 DEF KeptOK
<1>12. CandidatesHonest'
  <2>1. CandidatesHonest
    BY DEF CrawlInv
  <2>2. \A t \in xtold' : Honest(t)
    BY <2>1 DEF CandidatesHonest, Honest
  <2>3. ASSUME NEW u \in ReadAs("page")', Dispatch(u, xworld'.site[u]) = "html",
               NEW source \in {"link", "canonical", "form", "script", "image"}, NEW v \in ToSet(xworld'.site[u].refs[source])
        PROVE  \/ \E t \in xtold' : t.url = v /\ t.page = u /\ t.source = source
               \/ source = "link" /\ <<"links", u>> \in xnotes'
               \/ source = "script" /\ <<"scripts", u>> \in xnotes'
    <3>1. CASE u \in ReadAs("page")
      BY <2>1, <2>3, <3>1 DEF CandidatesHonest
    <3>2. CASE u \notin ReadAs("page")
      <4>1. u = at /\ kind = "page"
        BY <1>7, <2>3, <3>2
      <4> QED
        BY <1>0, <2>3, <4>1
    <3> QED
      BY <3>1, <3>2
  <2> QED
    BY <2>2, <2>3 DEF CandidatesHonest, Honest
<1>13. xworld' \in CrawlWorlds
  BY DEF CrawlInv
<1> QED
  BY <1>1, <1>4, <1>5, <1>9, <1>11, <1>12, <1>13 DEF CrawlInv

\* The notes on a page say which caps cut it.
LEMMA CapNotesHas ==
  ASSUME NEW url, NEW d
  PROVE  /\ Dispatch(url, d) = "html" /\ Len(d.refs.link) > PageLinks => <<"links", url>> \in CapNotes(url, d)
         /\ Dispatch(url, d) = "html" /\ Len(d.refs.script) > PageScripts => <<"scripts", url>> \in CapNotes(url, d)
  BY DEF CapNotes

\* The candidates of a page, and the scripts it leaves to be read.
LEMMA CandidatesOf ==
  ASSUME CrawlInv, NEW u \in DOMAIN xworld.site, NEW d, d = xworld.site[u]
  PROVE  /\ \A t \in Candidates(u, d) : Honest(t)
         /\ \A t \in Candidates(u, d) : FetchJs /\ t.source = "script" /\ t.permitted => t.url \in ToSet(Scripts(u, d))
         /\ Dispatch(u, d) = "html" =>
              \A source \in {"link", "canonical", "form", "script", "image"} : \A v \in ToSet(d.refs[source]) :
                \/ \E t \in Candidates(u, d) : t.url = v /\ t.page = u /\ t.source = source
                \/ source = "link" /\ <<"links", u>> \in CapNotes(u, d)
                \/ source = "script" /\ <<"scripts", u>> \in CapNotes(u, d)
<1> DEFINE L == TellAll(Upto(d.refs.link, PageLinks), "link", u, TRUE)
           C == TellAll(d.refs.canonical, "canonical", u, TRUE)
           F == TellAll(d.refs.form, "form", u, FALSE)
           S == TellAll(Upto(d.refs.script, PageScripts), "script", u, FALSE)
           I == TellAll(d.refs.image, "image", u, FALSE)
<1>1. /\ Row(d.refs.link) /\ Row(d.refs.script) /\ PageLinks \in Nat /\ PageScripts \in Nat
  BY DocumentRows DEF Sources
<1>2. CASE Dispatch(u, d) = "html"
  <2>1. Candidates(u, d) = L \cup C \cup F \cup S \cup I
    BY <1>2 DEF Candidates
  <2>0. PICK yes, no :
           /\ L = TellAll(Upto(d.refs.link, PageLinks), "link", u, yes) /\ C = TellAll(d.refs.canonical, "canonical", u, yes)
           /\ F = TellAll(d.refs.form, "form", u, no) /\ S = TellAll(Upto(d.refs.script, PageScripts), "script", u, no)
           /\ I = TellAll(d.refs.image, "image", u, no)
    OBVIOUS
  <2> HIDE DEF L, C, F, S, I
  <2>2. /\ \A t \in L : Honest(t) /\ t.source = "link"
        /\ \A v \in ToSet(Upto(d.refs.link, PageLinks)) : \E t \in L : t.url = v /\ t.page = u /\ t.source = "link"
    BY <2>0, TellAllHonest
  <2>3. /\ \A t \in C : Honest(t) /\ t.source = "canonical"
        /\ \A v \in ToSet(d.refs.canonical) : \E t \in C : t.url = v /\ t.page = u /\ t.source = "canonical"
    BY <2>0, TellAllHonest
  <2>4. /\ \A t \in F : Honest(t) /\ t.source = "form"
        /\ \A v \in ToSet(d.refs.form) : \E t \in F : t.url = v /\ t.page = u /\ t.source = "form"
    BY <2>0, TellAllHonest
  <2>5. /\ \A t \in S : Honest(t) /\ t.source = "script" /\ t.url \in ToSet(Upto(d.refs.script, PageScripts))
        /\ \A v \in ToSet(Upto(d.refs.script, PageScripts)) : \E t \in S : t.url = v /\ t.page = u /\ t.source = "script"
    BY <2>0, TellAllHonest
  <2>6. /\ \A t \in I : Honest(t) /\ t.source = "image"
        /\ \A v \in ToSet(d.refs.image) : \E t \in I : t.url = v /\ t.page = u /\ t.source = "image"
    BY <2>0, TellAllHonest
  <2>7. ASSUME FetchJs, NEW t \in S, t.permitted PROVE t.url \in ToSet(Scripts(u, d))
    <3>1. PICK few : few = Upto(d.refs.script, PageScripts)
      OBVIOUS
    <3>2. Row(few) /\ Len(few) <= PageScripts
      BY <1>1, <3>1, UptoRow
    <3>3. Permits(t.url) /\ t.url \in ToSet(few)
      BY <2>5, <2>7, <3>1 DEF Honest, Permits
    <3>4. t.url \in ToSet(PermittedOf(few, PageScripts))
      BY <1>1, <3>2, <3>3, PermittedRowHas
    <3> QED
      BY <1>2, <2>7, <3>1, <3>4 DEF Scripts
  <2>8. ASSUME NEW v \in ToSet(d.refs.link)
        PROVE  (\E t \in L : t.url = v /\ t.page = u /\ t.source = "link") \/ <<"links", u>> \in CapNotes(u, d)
    <3>1. CASE Len(d.refs.link) <= PageLinks
      <4>1. Upto(d.refs.link, PageLinks) = d.refs.link
        BY <1>1, <3>1, UptoRow
      <4> QED
        BY <2>2, <4>1
    <3>2. CASE Len(d.refs.link) > PageLinks
      BY <1>2, <3>2, CapNotesHas
    <3>3. Len(d.refs.link) \in Nat
      BY <1>1 DEF Row
    <3> QED
      BY <1>1, <3>1, <3>2, <3>3
  <2>9. ASSUME NEW v \in ToSet(d.refs.script)
        PROVE  (\E t \in S : t.url = v /\ t.page = u /\ t.source = "script") \/ <<"scripts", u>> \in CapNotes(u, d)
    <3>1. CASE Len(d.refs.script) <= PageScripts
      <4>1. Upto(d.refs.script, PageScripts) = d.refs.script
        BY <1>1, <3>1, UptoRow
      <4> QED
        BY <2>5, <4>1
    <3>2. CASE Len(d.refs.script) > PageScripts
      BY <1>2, <3>2, CapNotesHas
    <3>3. Len(d.refs.script) \in Nat
      BY <1>1 DEF Row
    <3> QED
      BY <1>1, <3>1, <3>2, <3>3
  <2>10. \A source \in {"link", "canonical", "form", "script", "image"} : \A v \in ToSet(d.refs[source]) :
                \/ \E t \in L \cup C \cup F \cup S \cup I : t.url = v /\ t.page = u /\ t.source = source
                \/ source = "link" /\ <<"links", u>> \in CapNotes(u, d)
                \/ source = "script" /\ <<"scripts", u>> \in CapNotes(u, d)
    <3>1. /\ d.refs["link"] = d.refs.link /\ d.refs["canonical"] = d.refs.canonical /\ d.refs["form"] = d.refs.form
          /\ d.refs["script"] = d.refs.script /\ d.refs["image"] = d.refs.image
      OBVIOUS
    <3> QED
      BY <2>3, <2>4, <2>6, <2>8, <2>9, <3>1
  <2> QED
    BY <2>1, <2>2, <2>3, <2>4, <2>5, <2>6, <2>7, <2>10
<1>3. CASE Dispatch(u, d) # "html"
  <2>1. \/ Candidates(u, d) = {}
        \/ \E urls, source : source # "script" /\ Candidates(u, d) = TellAll(urls, source, u, TRUE)
    <3>1. Entries(d) # "script"
      BY DEF Entries
    <3>2. Dispatch(u, d) = "xml" => Candidates(u, d) = TellAll(d.refs.entry, Entries(d), u, TRUE)
      BY <1>3 DEF Candidates
    <3>3. Dispatch(u, d) = "js" => Candidates(u, d) = TellAll(d.refs.literal, "literal", u, TRUE)
      BY <1>3 DEF Candidates
    <3>4. Dispatch(u, d) = "robots" => Candidates(u, d) = TellAll(d.refs.robots, "robots", u, TRUE)
      BY <1>3 DEF Candidates
    <3>5. Dispatch(u, d) = "list" => Candidates(u, d) = TellAll(d.refs.entry, "sitemap", u, TRUE)
      BY <1>3 DEF Candidates
    <3>6. Dispatch(u, d) \notin {"xml", "js", "robots", "list"} => Candidates(u, d) = {}
      BY <1>3 DEF Candidates
    <3> QED
      BY <3>1, <3>2, <3>3, <3>4, <3>5, <3>6
  <2>2. \A t \in Candidates(u, d) : Honest(t) /\ t.source # "script"
    <3>1. CASE Candidates(u, d) = {}
      BY <3>1
    <3>2. ASSUME NEW urls, NEW source, source # "script", Candidates(u, d) = TellAll(urls, source, u, TRUE)
          PROVE  \A t \in Candidates(u, d) : Honest(t) /\ t.source # "script"
      <4>1. PICK yes : Candidates(u, d) = TellAll(urls, source, u, yes)
        BY <3>2
      <4>2. \A t \in Candidates(u, d) : Honest(t) /\ t.source = source
        BY <4>1, TellAllHonest
      <4> QED
        BY <3>2, <4>2
    <3> QED
      BY <2>1, <3>1, <3>2
  <2> QED
    BY <1>3, <2>2
<1> QED
  BY <1>2, <1>3

\* What each kind of document adds, when it was asked for under a kind.
Reads(kind) ==
  /\ ~Idle /\ Obstacle = "none" /\ Contact /\ xworld' = xworld /\ xstage' = xstage /\ xstage = "crawl"
  /\ xfetch' = NoFetch /\ xpages' = xpages \cup {[url |-> xfetch.at, kind |-> xfetch.job.kind]} /\ xfetch.job.kind = kind

\* A document that is read is one in scope.
LEMMA ReadsWhere ==
  ASSUME CrawlInv, NEW kind, Reads(kind), NEW at, at = xfetch.at
  PROVE  /\ at \in DOMAIN xworld.site /\ Permits(at) /\ Row(xagenda) /\ xfindings \in Nat /\ xfindings <= PageFindings
         /\ at \in ReadAs(kind)'
<1>1. Permits(at) /\ Known(at)
  BY DEF Reads, Obstacle, CrawlInv, FetchOK
<1> DEFINE p == [url |-> at, kind |-> kind]
<1>2. p \in xpages' /\ p.url = at /\ p.kind = kind
  BY DEF Reads
<1> HIDE DEF p
<1> QED
  BY <1>1, <1>2 DEF Known, CrawlInv, AgendaOK, ReadAs

\* A script gives its literals.
LEMMA MineScriptKeeps ==
  ASSUME CrawlInv, Reads("script"), MineScript(xfetch.at, DocumentAt) PROVE CrawlInv'
<1>1. PICK T : T = TellAll(DocumentAt.refs.literal, "literal", xfetch.job.url, TRUE) /\ xtold' = xtold \cup T
  BY DEF MineScript
<1>2. \A t \in T : Honest(t) /\ t.source = "literal"
  <2>1. PICK yes : T = TellAll(DocumentAt.refs.literal, "literal", xfetch.job.url, yes)
    BY <1>1
  <2> QED
    BY <2>1, TellAllHonest
<1>3. UNCHANGED <<xagenda, xnotes, xfindings>>
  BY DEF MineScript
<1>4. \A t \in xtold' \ xtold : Honest(t) /\ t.source # "script"
  BY <1>1, <1>2
<1>5. xtold \subseteq xtold'
  BY <1>1
<1>6. (xfindings \in Nat /\ xfindings <= PageFindings)' /\ Row(xagenda')
  BY <1>3, ReadsWhere
<1> QED
  BY <1>3, <1>4, <1>5, <1>6, ReadKeepsRest DEF Reads

\* A sitemap gives its entries.
LEMMA CrawlSitemapKeeps ==
  ASSUME CrawlInv, Reads("sitemap"), CrawlSitemap(xfetch.at, DocumentAt) PROVE CrawlInv'
<1>1. PICK T : T = TellAll(DocumentAt.refs.entry, Entries(DocumentAt), xfetch.at, TRUE) /\ (xtold' = xtold \/ xtold' = xtold \cup T)
  BY DEF CrawlSitemap
<1>2. \A t \in T : Honest(t) /\ t.source # "script"
  <2>1. PICK yes, source : T = TellAll(DocumentAt.refs.entry, source, xfetch.at, yes) /\ source = Entries(DocumentAt)
    BY <1>1
  <2>2. source # "script"
    BY <2>1 DEF Entries
  <2>3. \A t \in T : Honest(t) /\ t.source = source
    BY <2>1, TellAllHonest
  <2> QED
    BY <2>2, <2>3
<1>3. UNCHANGED <<xagenda, xnotes, xfindings>>
  BY DEF CrawlSitemap
<1>4. \A t \in xtold' \ xtold : Honest(t) /\ t.source # "script"
  BY <1>1, <1>2
<1>5. xtold \subseteq xtold'
  BY <1>1
<1>6. (xfindings \in Nat /\ xfindings <= PageFindings)' /\ Row(xagenda')
  BY <1>3, ReadsWhere
<1> QED
  BY <1>3, <1>4, <1>5, <1>6, ReadKeepsRest DEF Reads

\* A robots manifest gives its paths, and its sitemaps up to the cap, or says so.
LEMMA CrawlManifestKeeps ==
  ASSUME CrawlInv, Reads("robots"), CrawlManifest(xfetch.at, DocumentAt) PROVE CrawlInv'
<1>0. PICK at, d : at = xfetch.at /\ d = xworld.site[at]
  OBVIOUS
<1>1. /\ at \in DOMAIN xworld.site /\ Permits(at) /\ Row(xagenda) /\ xfindings \in Nat /\ xfindings <= PageFindings
      /\ at \in ReadAs("robots")'
  BY <1>0, ReadsWhere
<1>2. /\ Row(d.sitemaps) /\ RootSitemaps \in Nat /\ \A v \in ToSet(d.sitemaps) : Known(v)
  BY <1>0, <1>1, DocumentRows
<1>3. CrawlManifest(at, d)
  BY <1>0 DEF DocumentAt
<1>4. CASE d.status # 200
  <2>1. UNCHANGED <<xagenda, xtold, xnotes, xfindings>>
    BY <1>3, <1>4 DEF CrawlManifest
  <2>2. (xfindings \in Nat /\ xfindings <= PageFindings)' /\ Row(xagenda')
    BY <1>1, <2>1
  <2> QED
    BY <1>0, <1>4, <2>1, <2>2, ReadKeepsRest DEF Reads
<1>5. CASE d.status = 200
  <2> DEFINE files == IF FetchSitemap THEN PermittedOf(d.sitemaps, RootSitemaps) ELSE <<>>
             looked == IF FetchSitemap THEN Looked(d.sitemaps) ELSE {}
             R == TellAll(d.refs.robots, "robots", at, TRUE)
             X == {TellOf(d.sitemaps[k], "index", at, FALSE) : k \in looked \ InScope(d.sitemaps)}
  <2>1. /\ xtold' = xtold \cup R \cup X /\ xagenda' = JobsFor(files, "sitemap") \o xagenda
        /\ xnotes' = xnotes \cup {<<"sitemaps", at>> : k \in {k \in {1} : FetchSitemap /\ looked # DOMAIN d.sitemaps}}
        /\ xfindings' = xfindings
    BY <1>3, <1>5 DEF CrawlManifest
  <2>2. Row(files) /\ \A v \in ToSet(files) : Known(v) /\ FetchSitemap /\ v \in ToSet(FilesOf(at))
    <3>1. CASE ~FetchSitemap
      <4>1. Row(<<>>) /\ ToSet(<<>>) = {}
        BY EmptyElements DEF Row
      <4> QED
        BY <3>1, <4>1
    <3>2. CASE FetchSitemap
      <4>1. files = PermittedOf(d.sitemaps, RootSitemaps)
        BY <3>2
      <4> HIDE DEF files
      <4>2. Row(files) /\ \A v \in ToSet(files) : v \in ToSet(d.sitemaps)
        BY <1>2, <4>1, PermittedRowHas
      <4>3. files = FilesOf(at)
        BY <1>0, <4>1 DEF FilesOf
      <4> QED
        BY <1>2, <3>2, <4>2, <4>3
    <3> QED
      BY <3>1, <3>2
  <2>3. \A t \in R : Honest(t) /\ t.source = "robots"
    <3>1. PICK yes : R = TellAll(d.refs.robots, "robots", at, yes)
      OBVIOUS
    <3> HIDE DEF R
    <3> QED
      BY <3>1, TellAllHonest
  <2>4. \A t \in X : Honest(t) /\ t.source = "index"
    <3> SUFFICES ASSUME NEW u PROVE LET t == TellOf(u, "index", at, FALSE) IN Honest(t) /\ t.source = "index"
      OBVIOUS
    <3> QED
      BY DEF TellOf, Honest, Permits
  <2>5. \A v \in ToSet(d.sitemaps) : FetchSitemap /\ Permits(v) => v \in ToSet(files) \/ looked # DOMAIN d.sitemaps
    <3> SUFFICES ASSUME NEW v \in ToSet(d.sitemaps), FetchSitemap, Permits(v), looked = DOMAIN d.sitemaps PROVE v \in ToSet(files)
      OBVIOUS
    <3>1. PICK k \in DOMAIN d.sitemaps : v = d.sitemaps[k]
      BY DEF ToSet
    <3>2. Len(PermittedRow(d.sitemaps, RootSitemaps)[k - 1]) < RootSitemaps
      BY <3>1 DEF Looked
    <3> QED
      BY <1>2, <3>1, <3>2, PermittedRowHas
  <2> HIDE DEF files, looked, R, X
  <2>6. PICK jobs : jobs = JobsFor(files, "sitemap")
    OBVIOUS
  <2>7. Row(jobs) /\ ToSet(jobs) = {Job("sitemap", u, FALSE) : u \in ToSet(files)}
    BY <2>2, <2>6, JobsRow
  <2>8. Row(xagenda') /\ ToSet(xagenda') = ToSet(jobs) \cup ToSet(xagenda)
    BY <1>1, <2>1, <2>6, <2>7, JoinRow
  <2>9. xworld' = xworld
    BY DEF Reads
  <2>10. \A u : FilesOf(u)' = FilesOf(u)
    BY <2>9 DEF FilesOf, PermittedOf, PermittedRow, Permits
  <2>11. ASSUME NEW job \in ToSet(jobs) PROVE Known(job.url) /\ Named(job)'
    <3>1. PICK u \in ToSet(files) : job = Job("sitemap", u, FALSE)
      BY <2>7
    <3>2. job.kind = "sitemap" /\ job.url = u
      BY <3>1 DEF Job
    <3>3. FetchSitemap' /\ u \in ToSet(FilesOf(at)')
      BY <2>2, <2>9, <2>10 DEF FetchSitemap
    <3>4. Named(job)'
      BY <1>1, <3>2, <3>3 DEF Named
    <3> QED
      BY <2>2, <3>2, <3>4
  <2>12. ASSUME NEW v \in ToSet(d.sitemaps), FetchSitemap, Permits(v)
         PROVE  (\E job \in ToSet(xagenda') : job.url = v) \/ <<"sitemaps", at>> \in xnotes'
    <3>1. CASE v \in ToSet(files)
      <4>1. Job("sitemap", v, FALSE) \in ToSet(xagenda')
        BY <2>7, <2>8, <3>1
      <4>2. Job("sitemap", v, FALSE).url = v
        BY DEF Job
      <4> QED
        BY <4>1, <4>2
    <3>2. CASE looked # DOMAIN d.sitemaps
      BY <2>1, <2>12, <3>2
    <3> QED
      BY <2>5, <2>12, <3>1, <3>2
  <2>13. \A t \in xtold' \ xtold : Honest(t) /\ t.source # "script"
    BY <2>1, <2>3, <2>4
  <2>14. xtold \subseteq xtold' /\ xnotes \subseteq xnotes' /\ (xfindings \in Nat /\ xfindings <= PageFindings)'
    BY <1>1, <2>1
  <2> QED
    BY <1>0, <2>8, <2>11, <2>12, <2>13, <2>14, ReadKeepsRest DEF Reads
<1> QED
  BY <1>4, <1>5

\* A page gives its candidates, its scripts up to the cap, and the manifest of its root.
LEMMA CrawlPageKeeps ==
  ASSUME CrawlInv, Reads("page"), CrawlPage(xfetch.at, DocumentAt) PROVE CrawlInv'
<1>0. PICK at, d : at = xfetch.at /\ d = xworld.site[at]
  OBVIOUS
<1>1. /\ at \in DOMAIN xworld.site /\ Permits(at) /\ Row(xagenda) /\ xfindings \in Nat /\ xfindings <= PageFindings
      /\ at \in ReadAs("page")'
  BY <1>0, ReadsWhere
<1>2. /\ Row(d.refs.script) /\ PageScripts \in Nat /\ PageFindings \in Nat /\ \A v \in ToSet(d.refs.script) : Known(v)
      /\ Known(<<at[1], "/robots.txt">>)
  BY <1>0, <1>1, DocumentRows DEF Sources
<1>3. CrawlPage(at, d)
  BY <1>0 DEF DocumentAt
<1> DEFINE root == xfetch.job.root /\ FetchRobots
           robots == Job("robots", <<at[1], "/robots.txt">>, FALSE)
           asks == IF root THEN <<robots>> ELSE <<>>
<1>4. PICK jobs : jobs = JobsFor(Scripts(at, d), "script")
  OBVIOUS
<1>5. /\ xtold' = xtold \cup Candidates(at, d) /\ xnotes' = xnotes \cup CapNotes(at, d)
      /\ xagenda' = jobs \o asks \o xagenda /\ xfindings' = Min({xfindings + 1, PageFindings})
  BY <1>3, <1>4 DEF CrawlPage
<1>6. Row(Scripts(at, d)) /\ \A v \in ToSet(Scripts(at, d)) :
        FetchJs /\ Dispatch(at, d) = "html" /\ v \in ToSet(Upto(d.refs.script, PageScripts)) /\ Known(v)
  <2>1. CASE Dispatch(at, d) = "html" /\ FetchJs
    <3>1. PICK few : few = Upto(d.refs.script, PageScripts)
      OBVIOUS
    <3>2. Row(few) /\ ToSet(few) \subseteq ToSet(d.refs.script)
      BY <1>2, <3>1, UptoRow
    <3>3. Scripts(at, d) = PermittedOf(few, PageScripts)
      BY <2>1, <3>1 DEF Scripts
    <3>4. Row(PermittedOf(few, PageScripts)) /\ \A v \in ToSet(PermittedOf(few, PageScripts)) : v \in ToSet(few)
      BY <1>2, <3>2, PermittedRowHas
    <3> QED
      BY <1>2, <2>1, <3>1, <3>2, <3>3, <3>4
  <2>2. CASE ~(Dispatch(at, d) = "html" /\ FetchJs)
    <3>1. Scripts(at, d) = <<>>
      BY <2>2 DEF Scripts
    <3>2. Row(<<>>) /\ ToSet(<<>>) = {}
      BY EmptyElements DEF Row
    <3> QED
      BY <3>1, <3>2
  <2> QED
    BY <2>1, <2>2
<1>7. Row(jobs) /\ ToSet(jobs) = {Job("script", u, FALSE) : u \in ToSet(Scripts(at, d))}
  BY <1>4, <1>6, JobsRow
<1>8. Row(asks) /\ ToSet(asks) = IF root THEN {robots} ELSE {}
  <2> HIDE DEF robots, root
  <2>1. Row(<<robots>>) /\ ToSet(<<robots>>) = {robots}
    BY DEF Row, ToSet
  <2>2. Row(<<>>) /\ ToSet(<<>>) = {}
    BY EmptyElements DEF Row
  <2> QED
    BY <2>1, <2>2
<1> HIDE DEF asks
<1>9. Row(xagenda') /\ ToSet(xagenda') = ToSet(jobs) \cup ToSet(asks) \cup ToSet(xagenda)
  <2>1. Row(jobs \o asks) /\ ToSet(jobs \o asks) = ToSet(jobs) \cup ToSet(asks)
    BY <1>7, <1>8, JoinRow
  <2> QED
    BY <1>1, <1>5, <2>1, JoinRow
<1>10. xworld' = xworld
  BY DEF Reads
<1>11. /\ \A t \in Candidates(at, d) : Honest(t)
       /\ \A t \in Candidates(at, d) : FetchJs /\ t.source = "script" /\ t.permitted => t.url \in ToSet(Scripts(at, d))
       /\ Dispatch(at, d) = "html" =>
            \A source \in {"link", "canonical", "form", "script", "image"} : \A v \in ToSet(d.refs[source]) :
              \/ \E t \in Candidates(at, d) : t.url = v /\ t.page = at /\ t.source = source
              \/ source = "link" /\ <<"links", at>> \in CapNotes(at, d)
              \/ source = "script" /\ <<"scripts", at>> \in CapNotes(at, d)
  BY <1>0, <1>1, CandidatesOf
<1>12. ASSUME NEW job \in ToSet(jobs) PROVE Known(job.url) /\ Named(job)'
  <2>1. PICK u \in ToSet(Scripts(at, d)) : job = Job("script", u, FALSE)
    BY <1>7
  <2>2. job.kind = "script" /\ job.url = u
    BY <2>1 DEF Job
  <2>3. FetchJs' /\ Dispatch(at, d) = "html" /\ Known(u) /\ u \in ToSet(Upto(d.refs.script, PageScripts))
    BY <1>6, <1>10 DEF FetchJs
  <2>4. \E t \in xtold' : t.url = u /\ t.source = "script"
    <3>1. PICK no : no = FALSE
      OBVIOUS
    <3>2. PICK T : T = TellAll(Upto(d.refs.script, PageScripts), "script", at, no)
      OBVIOUS
    <3>3. \E t \in T : t.url = u /\ t.page = at /\ t.source = "script"
      BY <2>3, <3>2, TellAllHonest
    <3>4. T \subseteq Candidates(at, d)
      BY <2>3, <3>1, <3>2 DEF Candidates
    <3> QED
      BY <1>5, <3>3, <3>4
  <2>5. Named(job)'
    BY <2>2, <2>3, <2>4 DEF Named
  <2> QED
    BY <2>2, <2>3, <2>5
<1>13. ASSUME NEW job \in ToSet(asks) PROVE Known(job.url) /\ Named(job)'
  <2>1. job = robots /\ FetchRobots
    BY <1>8
  <2>2. job.kind = "robots" /\ job.url = <<at[1], "/robots.txt">> /\ job.url[1] = at[1]
    BY <2>1 DEF Job
  <2>3. FetchRobots'
    BY <1>10, <2>1 DEF FetchRobots
  <2>4. Named(job)'
    BY <1>1, <2>2, <2>3 DEF Named
  <2> QED
    BY <1>2, <2>2, <2>4
<1>14. (xfindings \in Nat /\ xfindings <= PageFindings)'
  <2>1. xfindings + 1 \in Nat
    BY <1>1
  <2>2. xfindings' = IF xfindings + 1 <= PageFindings THEN xfindings + 1 ELSE PageFindings
    BY <1>2, <1>5, <2>1, LesserOfTwo
  <2> QED
    BY <1>2, <2>1, <2>2
<1>15. ASSUME NEW t \in xtold' \ xtold, FetchJs, t.source = "script", t.permitted PROVE \E job \in ToSet(xagenda') : job.url = t.url
  <2>1. t.url \in ToSet(Scripts(at, d))
    BY <1>5, <1>11, <1>15
  <2>2. Job("script", t.url, FALSE) \in ToSet(xagenda')
    BY <1>7, <1>9, <2>1
  <2>3. Job("script", t.url, FALSE).url = t.url
    BY DEF Job
  <2> QED
    BY <2>2, <2>3
<1>16. ASSUME Dispatch(at, d) = "html", NEW source \in {"link", "canonical", "form", "script", "image"}, NEW v \in ToSet(d.refs[source])
       PROVE  \/ \E t \in xtold' : t.url = v /\ t.page = at /\ t.source = source
              \/ source = "link" /\ <<"links", at>> \in xnotes'
              \/ source = "script" /\ <<"scripts", at>> \in xnotes'
  <2>1. \/ \E t \in Candidates(at, d) : t.url = v /\ t.page = at /\ t.source = source
        \/ source = "link" /\ <<"links", at>> \in CapNotes(at, d)
        \/ source = "script" /\ <<"scripts", at>> \in CapNotes(at, d)
    BY <1>11, <1>16
  <2> QED
    BY <1>5, <2>1
<1>17. xtold \subseteq xtold' /\ xnotes \subseteq xnotes' /\ \A t \in xtold' \ xtold : Honest(t)
  BY <1>5, <1>11
<1> HIDE DEF robots, root
<1>18. \A job \in ToSet(xagenda') \ ToSet(xagenda) : Known(job.url) /\ Named(job)'
  BY <1>9, <1>12, <1>13
<1>19. ToSet(xagenda) \subseteq ToSet(xagenda') /\ Row(xagenda')
  BY <1>9
<1>20. Reads("page")
  OBVIOUS
<1> QED
  BY <1>0, <1>14, <1>15, <1>16, <1>17, <1>18, <1>19, <1>20, ReadKeepsRest DEF Reads

\* A document is read as what it was asked for.
LEMMA ReadDocumentKeeps == ASSUME CrawlInv, ReadDocument PROVE CrawlInv'
<1>1. \A kind : xfetch.job.kind = kind => Reads(kind)
  BY DEF ReadDocument, Reads
<1> QED
  BY <1>1, CrawlPageKeeps, MineScriptKeeps, CrawlManifestKeeps, CrawlSitemapKeeps DEF ReadDocument

\* No step breaks the invariant of the crawl.
LEMMA CrawlStepKeeps == ASSUME CrawlInv, [CrawlNext]_crawlvars PROVE CrawlInv'
<1>1. ASSUME StartCrawl PROVE CrawlInv'
  BY <1>1, StartCrawlKeeps
<1>2. ASSUME TakeJob PROVE CrawlInv'
  BY <1>2, TakeJobKeeps
<1>3. ASSUME GiveUp PROVE CrawlInv'
  BY <1>3, GiveUpKeeps
<1>4. ASSUME RequestFails PROVE CrawlInv'
  BY <1>4, RequestFailsKeeps
<1>5. ASSUME RequestRedirects PROVE CrawlInv'
  BY <1>5, RequestRedirectsKeeps
<1>6. ASSUME ReadDocument PROVE CrawlInv'
  BY <1>6, ReadDocumentKeeps
<1>7. ASSUME TimeRunsOut PROVE CrawlInv'
  BY <1>7, AroundKeeps DEF TimeRunsOut
<1>8. ASSUME CancelCrawl PROVE CrawlInv'
  BY <1>8, AroundKeeps DEF CancelCrawl
<1>9. ASSUME FinishCrawl PROVE CrawlInv'
  BY <1>9, AroundKeeps DEF FinishCrawl
<1>10. ASSUME UNCHANGED crawlvars PROVE CrawlInv'
  <2>1. \A job : Named(job)' <=> Named(job)
    <3>1. \A u : FilesOf(u)' = FilesOf(u)
      BY <1>10 DEF crawlvars, FilesOf, PermittedOf, PermittedRow, Permits
    <3>2. \A kind : ReadAs(kind)' = ReadAs(kind)
      BY <1>10 DEF crawlvars, ReadAs
    <3> QED
      BY <1>10, <3>1, <3>2 DEF crawlvars, Named, FetchJs, FetchRobots, FetchSitemap
  <2>2. \A url : (Known(url)' <=> Known(url)) /\ (Handled(url)' <=> Handled(url)) /\ (Permits(url)' <=> Permits(url))
    BY <1>10 DEF crawlvars, Known, Permits, Handled, Asked, NotedUrls, Idle
  <2>3. AgendaOK' /\ FetchOK'
    BY <1>10, <2>1, <2>2 DEF crawlvars, CrawlInv, AgendaOK, FetchOK, Idle
  <2>4. xnotes \subseteq xnotes' /\ xfetch' = xfetch /\ (Idle' <=> Idle)
    BY <1>10 DEF crawlvars, Idle
  <2>5. UNCHANGED <<xworld, xclaims, xcontacts, xtold, xpages, xfindings>>
    BY <1>10 DEF crawlvars
  <2> QED
    BY <2>2, <2>3, <2>4, <2>5, QuietStep
<1> QED
  BY <1>1, <1>2, <1>3, <1>4, <1>5, <1>6, <1>7, <1>8, <1>9, <1>10 DEF CrawlNext

\* As many sitemaps as robots manifests allow.
LEMMA SitemapsFew ==
  ASSUME CrawlInv
  PROVE  Cardinality({k \in DOMAIN xcontacts : xcontacts[k].job.kind = "sitemap" /\ xcontacts[k].purpose = "page"})
           <= RootSitemaps * Cardinality(ReadAs("robots"))
<1> DEFINE K == {k \in DOMAIN xcontacts : xcontacts[k].job.kind = "sitemap" /\ xcontacts[k].purpose = "page"}
           S == ReadAs("robots")
           F == [u \in S |-> ToSet(FilesOf(u))]
           U == UNION {F[u] : u \in S}
           f == [k \in K |-> xcontacts[k].url]
<1>1. IsFiniteSet(S) /\ S \subseteq DOMAIN xworld.site
  <2> DEFINE P == {p \in xpages : p.kind = "robots"}
             g == [p \in P |-> p.url]
  <2>1. IsFiniteSet(P)
    <3>1. IsFiniteSet(xpages) /\ P \in SUBSET xpages
      BY DEF CrawlInv, RequestsOK
    <3> HIDE DEF P
    <3> QED
      BY <3>1, FS_Subset
  <2>2. DOMAIN g = P /\ g = [p \in P |-> g[p]] /\ S = {g[p] : p \in P}
    BY DEF ReadAs
  <2>3. S \subseteq DOMAIN xworld.site
    BY DEF ReadAs, CrawlInv, RequestsOK
  <2> HIDE DEF g, P, S
  <2> QED
    BY <2>1, <2>2, <2>3, FiniteImage
<1>2. RootSitemaps \in Nat /\ xworld \in CrawlWorlds
  BY CrawlAssumption DEF CrawlInv
<1>3. ASSUME NEW u \in S PROVE IsFiniteSet(F[u]) /\ Cardinality(F[u]) <= RootSitemaps
  <2>1. PICK q : q = FilesOf(u)
    OBVIOUS
  <2>2. Row(xworld.site[u].sitemaps)
    BY <1>1, <1>2, CrawlAssumption
  <2>3. Row(q) /\ Len(q) <= RootSitemaps
    BY <1>2, <2>1, <2>2, PermittedRowHas DEF FilesOf
  <2>4. IsFiniteSet(ToSet(q)) /\ Cardinality(ToSet(q)) \in Nat /\ Cardinality(ToSet(q)) <= Len(q)
    BY <2>3, MembersFew DEF Row
  <2>5. Len(q) \in Nat
    BY <2>3 DEF Row
  <2>6. F[u] = ToSet(q)
    BY <2>1
  <2> HIDE DEF F, S
  <2> QED
    BY <1>2, <2>3, <2>4, <2>5, <2>6
<1>4. f \in [K -> U]
  <2> SUFFICES ASSUME NEW k \in K PROVE xcontacts[k].url \in U
    OBVIOUS
  <2>1. PICK c : c = xcontacts[k]
    OBVIOUS
  <2>2. c \in ToSet(xcontacts) /\ c.job.kind = "sitemap" /\ c.purpose = "page"
    BY <2>1 DEF ToSet
  <2>3. Named(c.job) /\ c.url = c.job.url
    BY <2>2 DEF CrawlInv, RequestsOK
  <2>4. PICK u \in S : c.url \in ToSet(FilesOf(u))
    BY <2>2, <2>3 DEF Named
  <2> QED
    BY <2>1, <2>4
<1>5. ASSUME NEW i \in K, NEW j \in K, f[i] = f[j] PROVE i = j
  <2>1. PICK n : n = Len(xcontacts)
    OBVIOUS
  <2>2. n \in Nat /\ DOMAIN xcontacts = 1 .. n /\ i \in 1 .. n /\ j \in 1 .. n
    BY <2>1 DEF CrawlInv, RequestsOK, Row
  <2>3. xcontacts[i].url = xcontacts[j].url /\ xcontacts[i].purpose = xcontacts[j].purpose
    BY <1>5
  <2>4. \A k \in 1 .. n : \A l \in 1 .. (k - 1) : ~(xcontacts[l].url = xcontacts[k].url /\ xcontacts[l].purpose = xcontacts[k].purpose)
    <3> SUFFICES ASSUME NEW k \in 1 .. n PROVE \A l \in 1 .. (k - 1) : ~(xcontacts[l].url = xcontacts[k].url /\ xcontacts[l].purpose = xcontacts[k].purpose)
      OBVIOUS
    <3>1. NamedAt(k)
      BY <2>2 DEF CrawlInv, ContactsNamed, NamedAt
    <3> QED
      BY <3>1 DEF NamedAt
  <2>5. i < j \/ j < i \/ i = j
    BY <2>2
  <2>6. (i < j => i \in 1 .. (j - 1)) /\ (j < i => j \in 1 .. (i - 1))
    BY <2>2
  <2> QED
    BY <2>2, <2>3, <2>4, <2>5, <2>6
<1>6. f \in Injection(K, U)
  <2>1. DOMAIN f = K
    OBVIOUS
  <2> HIDE DEF f, K, U
  <2>2. IsInjective(f)
    BY <1>5, <2>1 DEF IsInjective
  <2> QED
    BY <1>4, <2>2 DEF Injection
<1>7. IsFiniteSet(U) /\ Cardinality(U) \in Nat /\ Cardinality(U) <= RootSitemaps * Cardinality(S)
  <2> HIDE DEF F, S
  <2> QED
    BY <1>1, <1>2, <1>3, UnionFew
<1> HIDE DEF K, U, f, S
<1>8. IsFiniteSet(K) /\ Cardinality(K) <= Cardinality(U)
  BY <1>6, <1>7, FS_Injection
<1>9. Cardinality(K) \in Nat /\ Cardinality(S) \in Nat
  BY <1>1, <1>8, FS_CardinalityType
<1>10. RootSitemaps * Cardinality(S) \in Nat
  BY <1>2, <1>9
<1>11. Cardinality(K) <= RootSitemaps * Cardinality(S)
  BY <1>7, <1>8, <1>9, <1>10
<1> QED
  BY <1>11 DEF K, S

\* Nothing that was to be read is dropped without a word.
LEMMA NothingDropped == ASSUME CrawlInv PROVE NothingDroppedSilently
<1> SUFFICES ASSUME xstage = "done" PROVE NothingDroppedSilently
  BY DEF NothingDroppedSilently
<1>1. xagenda = <<>> /\ Idle /\ ToSet(<<>>) = {}
  BY EmptyElements DEF CrawlInv, AgendaOK
<1>2. Asked = {xcontacts[k].url : k \in DOMAIN xcontacts}
  BY DEF Asked, ToSet
<1>3. \A url : url \in NotedUrls <=> \E n \in xnotes : n[2] = url
  BY DEF NotedUrls
<1>4. \A url : Handled(url) => url \in Asked \/ url \in NotedUrls
  BY <1>1 DEF Handled
<1>5. FetchJs => \A t \in xtold : t.source = "script" /\ t.permitted => t.url \in Asked \/ t.url \in NotedUrls
  BY <1>4 DEF CrawlInv, KeptOK
<1>6. FetchSitemap => \A u \in ReadAs("robots") : xworld.site[u].status = 200 =>
        \A v \in ToSet(xworld.site[u].sitemaps) : v \in Asked \/ v \in NotedUrls \/ ~Permits(v) \/ <<"sitemaps", u>> \in xnotes
  BY <1>4 DEF CrawlInv, KeptOK
<1>7. \A k \in DOMAIN xcontacts : xcontacts[k].purpose = "page" =>
        xcontacts[k].url \in NotedUrls \/ \E p \in xpages : p.kind = xcontacts[k].job.kind
  <2> SUFFICES ASSUME NEW c \in ToSet(xcontacts), c.purpose = "page"
               PROVE  c.url \in NotedUrls \/ \E p \in xpages : p.kind = c.job.kind
    BY DEF ToSet
  <2> QED
    BY <1>1 DEF CrawlInv, RequestsOK
<1> QED
  BY <1>2, <1>3, <1>5, <1>6, <1>7 DEF NothingDroppedSilently

\* A crawl requests nothing out of scope and nothing that no document names,
\* never asks twice, keeps to its caps, and says what it left unread; whatever
\* the sites, the scope, the redirects, the deadline and the order of events
\* (src/src/crawl.rs).
THEOREM CrawlIsSound == CrawlSpec => [](CrawlTypeOK /\ CrawlSound)
<1>1. CrawlInv => CrawlTypeOK /\ CrawlSound
  <2> SUFFICES ASSUME CrawlInv PROVE CrawlTypeOK /\ CrawlSound
    OBVIOUS
  <2>1. \A k \in DOMAIN xcontacts : xcontacts[k].purpose = "redirect" => xworld.level >= 3
    BY DEF CrawlInv, RequestsOK, ToSet
  <2>2. CrawlTypeOK
    BY <2>1, SitemapsFew DEF CrawlTypeOK, CrawlInv
  <2> QED
    BY <2>2, NothingDropped DEF CrawlSound, CrawlInv
<1> QED
  BY <1>1, CrawlStartsOK, CrawlStepKeeps, PTL DEF CrawlSpec

-----------------------------------------------------------------------------
(* The search for a username.                                              *)

FlightSteps == {"unplanned", "waiting", "look", "resolved", "send", "answered", "skipped", "cancelled", "unscanned"}
InFlight == {"look", "resolved", "send"}
Settled == {"answered", "skipped", "cancelled", "unscanned"}

\* Requests made for a provider.
Requests(p) == {c \in ucontacts : c[1] = p}

\* What a flight is made of.
FlightShape(f) == /\ DOMAIN f = {"step", "at", "hops", "addresses"} /\ f.step \in FlightSteps /\ f.hops \in Nat

\* A flight goes to public addresses over HTTPS, has made a request for each
\* redirect it followed, and never more than it may follow.
FlightOK(p) ==
  LET f == uflights[p] d == uworld.providers[p]
  IN  /\ IsFiniteSet(Requests(p))
      /\ Cardinality(Requests(p)) <= IF f.step \in InFlight THEN f.hops ELSE d.redirects + 1
      /\ f.step \in {"unplanned", "waiting", "skipped"} => Requests(p) = {}
      /\ f.hops <= d.redirects
      /\ f.step \in InFlight => AcceptsName(p) /\ f.at[1] = "https"
      /\ f.step = "resolved" => f.addresses # {}
      /\ f.step = "send" => f.addresses # {} /\ f.addresses \subseteq PublicAddresses

\* What is known of a provider is what its flight came to.
Positive == {"confirmed", "probable", "possible"}
Believed(p, s) ==
  LET d == uworld.providers[p] page == uworld.answers[s.page]
  IN  /\ page.status \in d.success \ d.missing /\ page.marks \cap Contrary = {} /\ ~page.huge
      /\ s.page \notin d.absence \cup d.login
      /\ s.confidence > 25 => d.marks \subseteq page.marks
SaidOK(p) ==
  LET s == usaid[p]
  IN  /\ s.status # "none" <=> uflights[p].step = "answered"
      /\ uflights[p].step = "skipped" => ~AcceptsName(p)
      /\ s.status \in Positive => Believed(p, s) /\ \E c \in ucontacts : c[1] = p /\ c[2] = s.page

\* A provider is planned exactly if the plan has it.
PlanOK ==
  /\ ustage = "plan" => uplan = {} /\ \A p \in Sites : uflights[p].step = "unplanned"
  /\ ustage = "refused" => uplan = {} /\ \A p \in Sites : uflights[p].step = "unplanned"
  /\ ustage \in {"search", "import", "done"} => ValidProviders /\ uplan = PlannedSites
  /\ \A p \in Sites : uflights[p].step # "unplanned" <=> p \in uplan
  /\ ustage \in {"import", "done"} => \A p \in uplan : uflights[p].step \in Settled
  /\ ustage # "done" => uimport = NoImport

UsernameInv ==
  /\ uworld \in UsernameWorlds /\ ustage \in {"plan", "search", "import", "done", "refused"}
  /\ DOMAIN uflights = Sites /\ DOMAIN usaid = Sites
  /\ \A p \in Sites : FlightShape(uflights[p]) /\ FlightOK(p) /\ SaidOK(p)
  /\ PlanOK
  /\ \A h \in DOMAIN uclients : uclients[h] # {} /\ uclients[h] \subseteq PublicAddresses
  /\ Cardinality(Flying) <= MaxFlights
  /\ \A c \in ucontacts : c[1] \in Sites
  /\ ContactsPublic /\ AccountsEvidenced /\ SearchAccounted

\* Before the plan nothing is said, and nobody asked.
LEMMA UsernameStarts == UsernameInit => UsernameInv
<1> SUFFICES ASSUME UsernameInit PROVE UsernameInv
  OBVIOUS
<1> USE DEF UsernameInit
<1>1. uworld \in UsernameWorlds /\ ustage = "plan" /\ ucontacts = {} /\ uplan = {}
  OBVIOUS
<1>2. ASSUME NEW p \in Sites
      PROVE  uflights[p] = Grounded("unplanned") /\ usaid[p] = Unsaid
  OBVIOUS
<1>3. ASSUME NEW p \in Sites PROVE FlightShape(uflights[p])
  BY <1>2, <1>3 DEF FlightShape, Grounded, FlightSteps
<1>4. ASSUME NEW p \in Sites PROVE FlightOK(p)
  <2>1. Requests(p) = {}
    BY <1>1 DEF Requests
  <2>2. IsFiniteSet(Requests(p)) /\ Cardinality(Requests(p)) = 0
    BY <2>1, FS_EmptySet
  <2>3. uworld.providers[p].redirects \in Nat
    BY <1>1, <1>4, UsernameAssumption DEF Sites
  <2> QED
    BY <1>2, <1>4, <2>1, <2>2, <2>3 DEF FlightOK, Grounded, InFlight
<1>5. ASSUME NEW p \in Sites PROVE SaidOK(p)
  BY <1>2, <1>5 DEF SaidOK, Grounded, Unsaid, Positive
<1>6. PlanOK
  BY <1>2 DEF PlanOK, Grounded
<1>7. Cardinality(Flying) <= MaxFlights
  <2>1. Flying = {}
    BY <1>2 DEF Flying, Grounded
  <2> QED
    BY <2>1, FS_EmptySet, UsernameAssumption
<1>8. ContactsPublic /\ AccountsEvidenced /\ SearchAccounted
  BY DEF ContactsPublic, AccountsEvidenced, SearchAccounted, NoImport
<1>9. DOMAIN uclients = {}
  OBVIOUS
<1> QED
  BY <1>1, <1>3, <1>4, <1>5, <1>6, <1>7, <1>8, <1>9 DEF UsernameInv

\* Who is in flight was found in the plan, and the search is on.
LEMMA FlyingSearches ==
  ASSUME UsernameInv, NEW p \in Sites, uflights[p].step \in InFlight \cup {"waiting"}
  PROVE  ustage = "search" /\ p \in uplan /\ p \in PlannedSites /\ ValidProviders /\ uimport = NoImport
<1>1. p \in uplan
  BY DEF UsernameInv, PlanOK, InFlight
<1>2. uflights[p].step \notin Settled
  BY DEF InFlight, Settled
<1> QED
  BY <1>1, <1>2 DEF UsernameInv, PlanOK, InFlight

\* A step of the search that is one flight's.
LEMMA OneFlight ==
  ASSUME UsernameInv, NEW p \in Sites, ustage = "search",
         uworld' = uworld, uplan' = uplan, uimport' = uimport, ustage' = ustage,
         ucontacts \subseteq ucontacts', \A c \in ucontacts' : c \in ucontacts \/ c[1] = p,
         DOMAIN uflights' = Sites, DOMAIN usaid' = Sites,
         \A q \in Sites \ {p} : uflights'[q] = uflights[q] /\ usaid'[q] = usaid[q],
         FlightShape(uflights'[p]), FlightOK(p)', SaidOK(p)',
         uflights[p].step # "unplanned", uflights'[p].step # "unplanned",
         uflights'[p].step \in InFlight => uflights[p].step \in InFlight \/ Cardinality(Flying) < MaxFlights,
         \A h \in DOMAIN uclients' : uclients'[h] # {} /\ uclients'[h] \subseteq PublicAddresses,
         ContactsPublic'
  PROVE  UsernameInv'
<1> USE DEF UsernameInv
<1>1. Sites' = Sites
  BY DEF Sites
<1>2. ASSUME NEW q \in Sites, q # p
      PROVE  FlightShape(uflights'[q]) /\ FlightOK(q)' /\ SaidOK(q)'
  <2>1. Requests(q)' = Requests(q)
    BY <1>2 DEF Requests
  <2>2. uflights'[q] = uflights[q] /\ usaid'[q] = usaid[q]
    BY <1>2
  <2>3. FlightShape(uflights[q]) /\ FlightOK(q) /\ SaidOK(q)
    OBVIOUS
  <2>4. FlightOK(q)'
    BY <2>1, <2>2, <2>3 DEF FlightOK, AcceptsName, NameFits, State
  <2>5. SaidOK(q)'
    <3>1. (AcceptsName(q))' = AcceptsName(q)
      BY DEF AcceptsName, NameFits, State
    <3> QED
      BY <2>2, <2>3, <3>1 DEF SaidOK, Believed
  <2> QED
    BY <2>2, <2>3, <2>4, <2>5
<1>3. \A q \in Sites' : (FlightShape(uflights[q]) /\ FlightOK(q) /\ SaidOK(q))'
  BY <1>1, <1>2
<1>4. PlanOK'
  <2>1. uplan = PlannedSites /\ ValidProviders
    BY DEF PlanOK
  <2>2. PlannedSites' = PlannedSites
    BY <1>1 DEF PlannedSites
  <2>3. ValidProviders'
    BY <1>1, <2>1 DEF ValidProviders, ValidDefinition, Verified
  <2>4. uimport = NoImport
    BY DEF PlanOK
  <2>5. \A q \in Sites : uflights[q].step # "unplanned" <=> q \in uplan
    BY DEF PlanOK
  <2>6. \A q \in Sites : uflights'[q].step # "unplanned" <=> q \in uplan
    BY <2>5
  <2> QED
    BY <1>1, <2>1, <2>2, <2>3, <2>4, <2>6 DEF PlanOK
<1>5. (Cardinality(Flying) <= MaxFlights)'
  <2>1. IsFiniteSet(Sites) /\ MaxFlights \in Nat
    BY UsernameAssumption DEF Sites
  <2>2. IsFiniteSet(Flying) /\ Cardinality(Flying) \in Nat
    BY <2>1, FS_Subset, FS_CardinalityType DEF Flying
  <2>3. CASE p \notin Flying'
    <3>1. Flying' \subseteq Flying
      BY <1>1, <2>3 DEF Flying
    <3>2. Cardinality(Flying') <= Cardinality(Flying) /\ Cardinality(Flying') \in Nat
      BY <2>2, <3>1, FS_Subset, FS_CardinalityType
    <3> QED
      BY <2>1, <2>2, <3>2
  <2>4. CASE p \in Flying' /\ p \in Flying
    <3>1. Flying' \subseteq Flying
      BY <1>1, <2>4 DEF Flying
    <3>2. Cardinality(Flying') <= Cardinality(Flying) /\ Cardinality(Flying') \in Nat
      BY <2>2, <3>1, FS_Subset, FS_CardinalityType
    <3> QED
      BY <2>1, <2>2, <3>2
  <2>5. CASE p \in Flying' /\ p \notin Flying
    <3>1. Flying' = Flying \cup {p}
      BY <1>1, <2>5 DEF Flying
    <3>2. Cardinality(Flying') = Cardinality(Flying) + 1
      BY <2>2, <2>5, <3>1, FS_AddElement
    <3>3. Cardinality(Flying) < MaxFlights
      BY <1>1, <2>5 DEF Flying, InFlight
    <3> QED
      BY <2>1, <2>2, <3>2, <3>3
  <2> QED
    BY <2>3, <2>4, <2>5
<1>6. \A c \in ucontacts' : c[1] \in Sites'
  BY <1>1
<1>7. AccountsEvidenced'
  <2>1. uimport' = NoImport
    BY DEF PlanOK
  <2> QED
    BY <2>1 DEF AccountsEvidenced, NoImport
<1>8. SearchAccounted'
  BY DEF SearchAccounted
<1> QED
  BY <1>1, <1>3, <1>4, <1>5, <1>6, <1>7, <1>8

\* The plan is made once, of the providers of the selection.
LEMMA PlanKeeps ==
  ASSUME UsernameInv, PlanUsernameProviders PROVE UsernameInv'
<1> USE DEF UsernameInv, PlanUsernameProviders
<1>1. Sites' = Sites
  BY DEF Sites
<1>2. \A p \in Sites : uflights[p].step = "unplanned"
  BY DEF PlanOK
<1>3. CASE ValidProviders /\ KnownSelection
  <2>1. ustage' = "search" /\ uplan' = PlannedSites
    BY <1>3
  <2>2. ASSUME NEW p \in Sites
        PROVE  uflights'[p] = Grounded(IF p \in PlannedSites THEN "waiting" ELSE "unplanned")
    BY <1>3, <2>2
  <2> DEFINE step(p) == IF p \in PlannedSites THEN "waiting" ELSE "unplanned"
  <2>11. ASSUME NEW p \in Sites
         PROVE  /\ DOMAIN uflights'[p] = {"step", "at", "hops", "addresses"} /\ uflights'[p].hops = 0
                /\ uflights'[p].step = step(p) /\ step(p) \in {"waiting", "unplanned"}
    <3>1. PICK s : s = step(p)
      OBVIOUS
    <3>2. uflights'[p] = Grounded(s)
      BY <2>2, <2>11, <3>1
    <3>3. DOMAIN Grounded(s) = {"step", "at", "hops", "addresses"} /\ Grounded(s).hops = 0 /\ Grounded(s).step = s
      BY DEF Grounded
    <3>4. step(p) \in {"waiting", "unplanned"}
      OBVIOUS
    <3> QED
      BY <3>1, <3>2, <3>3, <3>4
  <2> HIDE DEF step
  <2>3. ASSUME NEW p \in Sites PROVE FlightShape(uflights'[p])
    BY <2>3, <2>11 DEF FlightShape, FlightSteps
  <2>4. ASSUME NEW p \in Sites PROVE FlightOK(p)'
    <3>1. Requests(p) = {}
      BY <1>2, <2>4 DEF FlightOK
    <3>2. Requests(p)' = {}
      BY <3>1 DEF Requests
    <3>3. uworld.providers[p].redirects \in Nat
      BY <2>4, UsernameAssumption DEF Sites
    <3>4. IsFiniteSet({}) /\ Cardinality({}) = 0
      BY FS_EmptySet
    <3>5. uflights'[p].step \in {"waiting", "unplanned"} /\ uflights'[p].hops = 0
      BY <2>4, <2>11
    <3> QED
      BY <3>2, <3>3, <3>4, <3>5 DEF FlightOK, InFlight
  <2>5. ASSUME NEW p \in Sites PROVE SaidOK(p)'
    <3>1. SaidOK(p) /\ uflights[p].step = "unplanned"
      BY <1>2, <2>5
    <3>2. uflights'[p].step \in {"waiting", "unplanned"}
      BY <2>5, <2>11
    <3> QED
      BY <3>1, <3>2 DEF SaidOK, Positive
  <2>6. PlanOK'
    <3>1. PlannedSites' = PlannedSites
      BY <1>1 DEF PlannedSites
    <3>2. ValidProviders'
      BY <1>1, <1>3 DEF ValidProviders, ValidDefinition, Verified
    <3>3. \A p \in Sites : uflights'[p].step # "unplanned" <=> p \in uplan'
      BY <2>1, <2>11 DEF step
    <3>4. uimport' = NoImport
      BY DEF PlanOK
    <3> QED
      BY <1>1, <2>1, <3>1, <3>2, <3>3, <3>4 DEF PlanOK
  <2>7. (Cardinality(Flying) <= MaxFlights)'
    <3>1. Flying' = {}
      BY <1>1, <2>11 DEF Flying
    <3> QED
      BY <3>1, FS_EmptySet, UsernameAssumption
  <2>8. DOMAIN uflights' = Sites
    BY <1>3
  <2>9. ContactsPublic'
    <3>1. ucontacts = {}
      <4> SUFFICES ASSUME NEW c \in ucontacts PROVE FALSE
        OBVIOUS
      <4>1. c[1] \in Sites /\ c \in Requests(c[1])
        BY DEF Requests
      <4>2. FlightOK(c[1]) /\ uflights[c[1]].step = "unplanned"
        BY <1>2, <4>1
      <4> QED
        BY <4>1, <4>2 DEF FlightOK
    <3> QED
      BY <3>1 DEF ContactsPublic
  <2>10. AccountsEvidenced' /\ SearchAccounted'
    <3>1. uimport' = NoImport
      BY DEF PlanOK
    <3> QED
      BY <2>1, <3>1 DEF AccountsEvidenced, SearchAccounted, NoImport
  <2> QED
    BY <1>1, <2>1, <2>3, <2>4, <2>5, <2>6, <2>7, <2>8, <2>9, <2>10
<1>4. CASE ~(ValidProviders /\ KnownSelection)
  <2>1. ustage' = "refused" /\ uflights' = uflights /\ uplan' = uplan
    BY <1>4
  <2>2. ASSUME NEW p \in Sites PROVE FlightOK(p)' /\ SaidOK(p)'
    <3>1. Requests(p)' = Requests(p) /\ (AcceptsName(p))' = AcceptsName(p)
      BY DEF Requests, AcceptsName, NameFits, State
    <3>2. FlightOK(p) /\ SaidOK(p)
      BY <2>2
    <3>3. FlightOK(p)'
      BY <2>1, <3>1, <3>2 DEF FlightOK
    <3> QED
      BY <2>1, <3>1, <3>2, <3>3 DEF SaidOK, Believed
  <2>3. PlanOK'
    BY <1>1, <1>2, <2>1 DEF PlanOK
  <2>4. Flying' = Flying
    BY <1>1, <2>1 DEF Flying
  <2>5. ContactsPublic'
    BY <2>1 DEF ContactsPublic
  <2>6. AccountsEvidenced' /\ SearchAccounted'
    <3>1. uimport' = NoImport
      BY DEF PlanOK
    <3> QED
      BY <2>1, <3>1 DEF AccountsEvidenced, SearchAccounted, NoImport
  <2> QED
    BY <1>1, <2>1, <2>2, <2>3, <2>4, <2>5, <2>6
<1> QED
  BY <1>3, <1>4

\* Whoever asks the scheduler is skipped, stopped, or takes off.
LEMMA DispatchKeeps ==
  ASSUME UsernameInv, NEW p \in Sites, DispatchProvider(p) PROVE UsernameInv'
<1> USE DEF DispatchProvider
<1> DEFINE g == uflights'[p]
<1>1. ustage = "search" /\ ValidProviders /\ uflights[p].step = "waiting" /\ p \in PlannedSites
  BY FlyingSearches
<1>2. FlightShape(uflights[p]) /\ FlightOK(p) /\ SaidOK(p) /\ DOMAIN uflights = Sites /\ DOMAIN usaid = Sites
  BY DEF UsernameInv
<1>3. Requests(p)' = {}
  BY <1>1, <1>2 DEF FlightOK, Requests
<1>4. uworld.providers[p].redirects \in Nat
  BY UsernameAssumption DEF UsernameInv, Sites
<1>5. IsFiniteSet({}) /\ Cardinality({}) = 0
  BY FS_EmptySet
<1>6. DOMAIN uflights' = Sites /\ \A q \in Sites \ {p} : uflights'[q] = uflights[q]
  BY <1>2
<1> DEFINE Fine == /\ FlightShape(g) /\ FlightOK(p)' /\ SaidOK(p)' /\ g.step # "unplanned"
                   /\ g.step \in InFlight => Cardinality(Flying) < MaxFlights
<1>7. Fine
  <2>1. ASSUME NEW step \in {"cancelled", "unscanned", "skipped"}, uflights' = [uflights EXCEPT ![p].step = step],
               step = "skipped" => ~AcceptsName(p)
        PROVE  Fine
    <3>1. g.step = step /\ DOMAIN g = DOMAIN uflights[p] /\ g.hops = uflights[p].hops
      BY <1>2, <2>1 DEF FlightShape
    <3>2. FlightShape(g)
      BY <1>2, <3>1 DEF FlightShape, FlightSteps
    <3>3. FlightOK(p)'
      BY <1>2, <1>3, <1>4, <1>5, <3>1 DEF FlightOK, InFlight, FlightShape
    <3>4. SaidOK(p)'
      BY <1>1, <1>2, <2>1, <3>1 DEF SaidOK, AcceptsName, NameFits, State, Positive
    <3> QED
      BY <3>1, <3>2, <3>3, <3>4 DEF InFlight
  <2>2. ASSUME AcceptsName(p), Cardinality(Flying) < MaxFlights,
               uflights' = [uflights EXCEPT ![p] = [Grounded("look") EXCEPT !.at = uworld.providers[p].url]]
        PROVE  Fine
    <3>1. g = [Grounded("look") EXCEPT !.at = uworld.providers[p].url]
      BY <1>2, <2>2
    <3>2. g.step = "look" /\ g.at = uworld.providers[p].url /\ g.hops = 0 /\ DOMAIN g = {"step", "at", "hops", "addresses"}
      BY <3>1 DEF Grounded
    <3>3. g.at[1] = "https"
      BY <1>1, <3>2 DEF ValidProviders, ValidDefinition
    <3>4. FlightShape(g)
      BY <3>2 DEF FlightShape, FlightSteps
    <3>5. FlightOK(p)'
      BY <1>3, <1>4, <1>5, <2>2, <3>2, <3>3 DEF FlightOK, InFlight, AcceptsName, NameFits, State
    <3>6. SaidOK(p)'
      BY <1>1, <1>2, <3>2 DEF SaidOK, Positive
    <3> QED
      BY <2>2, <3>2, <3>4, <3>5, <3>6
  <2> HIDE DEF Fine
  <2>3. \/ \E step \in {"cancelled", "unscanned", "skipped"} :
             uflights' = [uflights EXCEPT ![p].step = step] /\ (step = "skipped" => ~AcceptsName(p))
        \/ /\ AcceptsName(p) /\ Cardinality(Flying) < MaxFlights
           /\ uflights' = [uflights EXCEPT ![p] = [Grounded("look") EXCEPT !.at = uworld.providers[p].url]]
    OBVIOUS
  <2> QED
    BY <2>1, <2>2, <2>3
<1>8. ContactsPublic'
  BY DEF UsernameInv, ContactsPublic
<1>9. \A h \in DOMAIN uclients' : uclients'[h] # {} /\ uclients'[h] \subseteq PublicAddresses
  BY DEF UsernameInv
<1> QED
  BY <1>1, <1>2, <1>6, <1>7, <1>8, <1>9, OneFlight

\* What closes a flight: the step, and what is said if it was answered.
LEMMA ClosesWell ==
  ASSUME UsernameInv, NEW p \in Sites, uflights[p].step \in InFlight, uworld' = uworld,
         NEW step \in {"answered", "cancelled", "unscanned"}, NEW said, Closes(p, step, said),
         step = "answered" <=> said.status # "none",
         said.status \in Positive => Believed(p, said) /\ \E c \in ucontacts' : c[1] = p /\ c[2] = said.page,
         \/ ucontacts' = ucontacts
         \/ \E c : c[1] = p /\ ucontacts' = ucontacts \cup {c}
  PROVE  /\ FlightShape(uflights'[p]) /\ FlightOK(p)' /\ SaidOK(p)'
         /\ DOMAIN uflights' = Sites /\ DOMAIN usaid' = Sites
         /\ uflights'[p].step \notin InFlight \cup {"unplanned"}
         /\ \A q \in Sites \ {p} : uflights'[q] = uflights[q] /\ usaid'[q] = usaid[q]
<1>1. FlightShape(uflights[p]) /\ FlightOK(p) /\ SaidOK(p) /\ DOMAIN uflights = Sites /\ DOMAIN usaid = Sites
  BY DEF UsernameInv
<1>2. /\ DOMAIN uflights' = Sites /\ DOMAIN usaid' = Sites
      /\ \A q \in Sites \ {p} : uflights'[q] = uflights[q] /\ usaid'[q] = usaid[q]
  BY <1>1 DEF Closes
<1>3. /\ uflights'[p].step = step /\ DOMAIN uflights'[p] = DOMAIN uflights[p] /\ uflights'[p].hops = uflights[p].hops
      /\ usaid'[p] = said
  BY <1>1 DEF Closes, FlightShape
<1>4. FlightShape(uflights'[p])
  BY <1>1, <1>3 DEF FlightShape, FlightSteps
<1>5. /\ IsFiniteSet(Requests(p)') /\ Cardinality(Requests(p)') \in Nat
      /\ Cardinality(Requests(p)') <= Cardinality(Requests(p)) + 1 /\ Cardinality(Requests(p)) \in Nat
  <2>1. IsFiniteSet(Requests(p)) /\ Cardinality(Requests(p)) \in Nat
    BY <1>1, FS_CardinalityType DEF FlightOK
  <2>2. CASE ucontacts' = ucontacts
    BY <2>1, <2>2 DEF Requests
  <2>3. CASE \E c : c[1] = p /\ ucontacts' = ucontacts \cup {c}
    <3>1. PICK c : c[1] = p /\ ucontacts' = ucontacts \cup {c}
      BY <2>3
    <3>2. PICK S : S = Requests(p)
      OBVIOUS
    <3>3. Requests(p)' = S \cup {c}
      BY <3>1, <3>2 DEF Requests
    <3>4. IsFiniteSet(S) /\ Cardinality(S) \in Nat
      BY <2>1, <3>2
    <3>5. IsFiniteSet(S \cup {c}) /\ Cardinality(S \cup {c}) = IF c \in S THEN Cardinality(S) ELSE Cardinality(S) + 1
      BY <3>4, FS_AddElement
    <3>6. Cardinality(S \cup {c}) \in Nat /\ Cardinality(S \cup {c}) <= Cardinality(S) + 1
      BY <3>4, <3>5
    <3> QED
      BY <2>1, <3>2, <3>3, <3>5, <3>6
  <2> QED
    BY <2>2, <2>3
<1>6. uworld.providers[p].redirects \in Nat
  BY UsernameAssumption DEF UsernameInv, Sites
<1>7. Cardinality(Requests(p)') <= uworld.providers[p].redirects + 1
  BY <1>1, <1>5, <1>6 DEF FlightOK, FlightShape
<1>8. FlightOK(p)'
  <2>1. step \notin InFlight /\ step \notin {"unplanned", "waiting", "skipped", "resolved", "send"}
    BY DEF InFlight
  <2> QED
    BY <1>1, <1>3, <1>5, <1>7, <2>1 DEF FlightOK
<1>9. SaidOK(p)'
  <2>1. step # "skipped"
    OBVIOUS
  <2> QED
    BY <1>3, <2>1 DEF SaidOK, Believed
<1> QED
  BY <1>2, <1>3, <1>4, <1>8, <1>9 DEF InFlight

\* The host of a flight is looked up.
LEMMA LookUpKeeps ==
  ASSUME UsernameInv, NEW p \in Sites, LookUp(p) PROVE UsernameInv'
<1> USE DEF LookUp
<1>1. uflights[p].step = "look" /\ uflights[p].step \in InFlight
  BY DEF InFlight
<1>2. ustage = "search" /\ ValidProviders
  BY <1>1, FlyingSearches
<1>3. FlightShape(uflights[p]) /\ FlightOK(p) /\ SaidOK(p) /\ DOMAIN uflights = Sites /\ DOMAIN usaid = Sites
  BY DEF UsernameInv
<1>4. Requests(p)' = Requests(p)
  BY DEF Requests
<1>5. ContactsPublic'
  BY DEF UsernameInv, ContactsPublic
<1>6. \A h \in DOMAIN uclients' : uclients'[h] # {} /\ uclients'[h] \subseteq PublicAddresses
  BY DEF UsernameInv
<1> DEFINE Fine == /\ FlightShape(uflights'[p]) /\ FlightOK(p)' /\ SaidOK(p)'
                   /\ DOMAIN uflights' = Sites /\ DOMAIN usaid' = Sites
                   /\ uflights'[p].step # "unplanned"
                   /\ \A q \in Sites \ {p} : uflights'[q] = uflights[q] /\ usaid'[q] = usaid[q]
<1>7. ASSUME NEW step \in {"answered", "cancelled", "unscanned"}, NEW said, Closes(p, step, said),
             step = "answered" <=> said.status # "none", said.status \notin Positive
      PROVE  Fine
  <2>1. uworld' = uworld /\ ucontacts' = ucontacts
    OBVIOUS
  <2> HIDE DEF LookUp
  <2> QED
    BY <1>1, <1>7, <2>1, ClosesWell
<1>8. ASSUME NEW step \in {"send", "resolved"}, NEW found, found # {}, step = "send" => found \subseteq PublicAddresses,
             uflights' = [uflights EXCEPT ![p].step = step, ![p].addresses = found], usaid' = usaid
      PROVE  Fine
  <2>1. /\ uflights'[p].step = step /\ uflights'[p].addresses = found /\ uflights'[p].hops = uflights[p].hops
        /\ uflights'[p].at = uflights[p].at /\ DOMAIN uflights'[p] = DOMAIN uflights[p]
    BY <1>3, <1>8 DEF FlightShape
  <2>2. FlightShape(uflights'[p])
    BY <1>3, <2>1 DEF FlightShape, FlightSteps
  <2>3. FlightOK(p)'
    BY <1>1, <1>3, <1>4, <1>8, <2>1 DEF FlightOK, InFlight, AcceptsName, NameFits, State
  <2>4. SaidOK(p)'
    BY <1>1, <1>3, <1>8, <2>1 DEF SaidOK, Positive, Believed
  <2>5. DOMAIN uflights' = Sites /\ \A q \in Sites \ {p} : uflights'[q] = uflights[q]
    BY <1>3, <1>8
  <2> QED
    BY <1>3, <1>8, <2>1, <2>2, <2>3, <2>4, <2>5
<1> DEFINE host == uflights[p].at[2]
<1>9. \/ Closes(p, "cancelled", Unsaid) \/ Closes(p, "unscanned", Unsaid) \/ Errs(p)
      \/ /\ host \in DOMAIN uclients /\ usaid' = usaid
         /\ uflights' = [uflights EXCEPT ![p].step = "send", ![p].addresses = uclients[host]]
      \/ \E found : /\ found # {} /\ usaid' = usaid
                    /\ uflights' = [uflights EXCEPT ![p].step = "resolved", ![p].addresses = found]
  OBVIOUS
<1>10. Fine
  <2>1. CASE Closes(p, "cancelled", Unsaid) \/ Closes(p, "unscanned", Unsaid)
    <3>1. Unsaid.status = "none" /\ "none" \notin Positive
      BY DEF Unsaid, Positive
    <3> HIDE DEF Fine
    <3> QED
      BY <1>7, <2>1, <3>1
  <2>2. CASE Errs(p)
    <3> DEFINE said == [status |-> "error", confidence |-> 0, page |-> NoUrl]
    <3>1. said.status = "error" /\ "error" \notin Positive /\ Closes(p, "answered", said)
      BY <2>2 DEF Errs, Positive
    <3> HIDE DEF Fine, said
    <3> QED
      BY <1>7, <3>1
  <2>3. CASE /\ host \in DOMAIN uclients /\ usaid' = usaid
             /\ uflights' = [uflights EXCEPT ![p].step = "send", ![p].addresses = uclients[host]]
    <3>1. uclients[host] # {} /\ uclients[host] \subseteq PublicAddresses
      BY <2>3 DEF UsernameInv
    <3> HIDE DEF Fine
    <3> QED
      BY <1>8, <2>3, <3>1
  <2>4. CASE \E found : /\ found # {} /\ usaid' = usaid
                        /\ uflights' = [uflights EXCEPT ![p].step = "resolved", ![p].addresses = found]
    <3> HIDE DEF Fine
    <3> QED
      BY <1>8, <2>4
  <2> QED
    BY <1>9, <2>1, <2>2, <2>3, <2>4
<1>11. /\ uworld' = uworld /\ uplan' = uplan /\ uimport' = uimport /\ ustage' = ustage /\ ucontacts' = ucontacts
  OBVIOUS
<1>12. uflights[p].step # "unplanned"
  BY <1>1
<1> HIDE DEF LookUp
<1> QED
  BY <1>1, <1>2, <1>5, <1>6, <1>10, <1>11, <1>12, OneFlight

\* A host is pinned to addresses that are all public.
LEMMA PinClientKeeps ==
  ASSUME UsernameInv, NEW p \in Sites, PinClient(p) PROVE UsernameInv'
<1> USE DEF PinClient
<1>1. uflights[p].step = "resolved" /\ uflights[p].step \in InFlight
  BY DEF InFlight
<1>2. ustage = "search" /\ ValidProviders
  BY <1>1, FlyingSearches
<1>3. FlightShape(uflights[p]) /\ FlightOK(p) /\ SaidOK(p) /\ DOMAIN uflights = Sites /\ DOMAIN usaid = Sites
  BY DEF UsernameInv
<1>4. Requests(p)' = Requests(p)
  BY DEF Requests
<1>5. ContactsPublic'
  BY DEF UsernameInv, ContactsPublic
<1> DEFINE host == uflights[p].at[2]
           found == uflights[p].addresses
           pinned == \A h \in DOMAIN uclients' : uclients'[h] # {} /\ uclients'[h] \subseteq PublicAddresses
           Fine == /\ FlightShape(uflights'[p]) /\ FlightOK(p)' /\ SaidOK(p)'
                   /\ DOMAIN uflights' = Sites /\ DOMAIN usaid' = Sites
                   /\ uflights'[p].step # "unplanned"
                   /\ \A q \in Sites \ {p} : uflights'[q] = uflights[q] /\ usaid'[q] = usaid[q]
<1>6. ASSUME found \subseteq PublicAddresses PROVE Fine /\ pinned
  <2>1. /\ uclients' = [h \in DOMAIN uclients \cup {host} |-> IF h = host THEN found ELSE uclients[h]]
        /\ uflights' = [uflights EXCEPT ![p].step = "send"] /\ usaid' = usaid
    BY <1>6
  <2>2. found # {}
    BY <1>1, <1>3 DEF FlightOK
  <2>3. pinned
    BY <1>6, <2>1, <2>2 DEF UsernameInv
  <2>4. /\ uflights'[p].step = "send" /\ uflights'[p].addresses = found /\ uflights'[p].hops = uflights[p].hops
        /\ uflights'[p].at = uflights[p].at /\ DOMAIN uflights'[p] = DOMAIN uflights[p]
    BY <1>3, <2>1 DEF FlightShape
  <2>5. FlightShape(uflights'[p])
    BY <1>3, <2>4 DEF FlightShape, FlightSteps
  <2>6. FlightOK(p)'
    BY <1>1, <1>3, <1>4, <1>6, <2>2, <2>4 DEF FlightOK, InFlight, AcceptsName, NameFits, State
  <2>7. SaidOK(p)'
    BY <1>1, <1>3, <2>1, <2>4 DEF SaidOK, Positive
  <2>8. DOMAIN uflights' = Sites /\ \A q \in Sites \ {p} : uflights'[q] = uflights[q]
    BY <1>3, <2>1
  <2>9. uflights'[p].step # "unplanned" /\ DOMAIN usaid' = Sites /\ \A q \in Sites \ {p} : usaid'[q] = usaid[q]
    BY <1>3, <2>1, <2>4
  <2> HIDE DEF pinned, PinClient, found, host
  <2> QED
    BY <2>3, <2>5, <2>6, <2>7, <2>8, <2>9
<1>7. ASSUME ~(found \subseteq PublicAddresses) PROVE Fine /\ pinned
  <2> DEFINE said == [status |-> "error", confidence |-> 0, page |-> NoUrl]
  <2>1. said.status = "error" /\ "error" \notin Positive /\ Closes(p, "answered", said) /\ uclients' = uclients
    BY <1>7 DEF Errs, Positive
  <2>2. uworld' = uworld /\ ucontacts' = ucontacts
    OBVIOUS
  <2>3. pinned
    BY <2>1 DEF UsernameInv
  <2> HIDE DEF said, PinClient, pinned
  <2>4. Fine
    BY <1>1, <2>1, <2>2, ClosesWell
  <2> QED
    BY <2>3, <2>4
<1>8. Fine /\ pinned
  BY <1>6, <1>7
<1>9. /\ uworld' = uworld /\ uplan' = uplan /\ uimport' = uimport /\ ustage' = ustage /\ ucontacts' = ucontacts
  OBVIOUS
<1>10. uflights[p].step # "unplanned"
  BY <1>1
<1> HIDE DEF PinClient
<1> QED
  BY <1>1, <1>2, <1>5, <1>8, <1>9, <1>10, OneFlight

\* A page is believed to show an account where nothing speaks against it.
LEMMA ConclusionEvidenced ==
  ASSUME NEW p, NEW at, Conclusion(uworld.providers[p], at, uworld.answers[at]).status \in Positive,
         NEW said, said.page = at,
         said.confidence = Conclusion(uworld.providers[p], at, uworld.answers[at]).confidence
  PROVE  Believed(p, said)
<1> DEFINE d == uworld.providers[p]
           page == uworld.answers[at]
<1>1. /\ Judged("rate_limited", 0).status \notin Positive /\ Judged("authentication_required", 0).status \notin Positive
      /\ Judged("blocked", 0).status \notin Positive /\ Judged("not_found", 0).status \notin Positive
      /\ Judged("unknown", 0).status \notin Positive
  BY DEF Judged, Positive
<1>2. /\ ~page.huge /\ at \notin d.absence /\ at \notin d.login /\ Conclusion(d, at, page) = Classify(d, page)
      /\ Classify(d, page).status \in Positive
  BY <1>1 DEF Conclusion
<1>3. /\ "blocked" \notin page.marks /\ "missing" \notin page.marks
      /\ page.status \in d.success /\ page.status \notin d.missing
  BY <1>1, <1>2 DEF Classify
<1>4. Classify(d, page).confidence > 25 => d.marks \subseteq page.marks
  <2>1. CASE ~(d.marks \subseteq page.marks)
    <3>1. Classify(d, page) = Judged("possible", 25)
      BY <1>1, <1>2, <2>1 DEF Classify
    <3> QED
      BY <3>1 DEF Judged
  <2> QED
    BY <2>1
<1>5. page.marks \cap Contrary = {}
  BY <1>3 DEF Contrary
<1> HIDE DEF d, page
<1> QED
  BY <1>2, <1>3, <1>4, <1>5 DEF Believed, d, page

\* A request is made: it is told, and what comes of it closes the flight or
\* leads it on.
LEMMA SendRequestKeeps ==
  ASSUME UsernameInv, NEW p \in Sites, SendRequest(p) PROVE UsernameInv'
<1> USE DEF SendRequest
<1> DEFINE at == uflights[p].at
           d == uworld.providers[p]
           page == uworld.answers[at]
           c == <<p, uflights[p].at, uflights[p].addresses>>
<1>1. uflights[p].step = "send" /\ uflights[p].step \in InFlight
  BY DEF InFlight
<1>2. ustage = "search" /\ ValidProviders /\ p \in uplan /\ p \in PlannedSites
  BY <1>1, FlyingSearches
<1>3. FlightShape(uflights[p]) /\ FlightOK(p) /\ SaidOK(p) /\ DOMAIN uflights = Sites /\ DOMAIN usaid = Sites
  BY DEF UsernameInv
<1>4. /\ ucontacts' = ucontacts \cup {c} /\ uworld' = uworld /\ uplan' = uplan /\ uimport' = uimport
      /\ ustage' = ustage /\ uclients' = uclients
  OBVIOUS
<1>5. ContactsPublic'
  <2>1. AcceptsName(p) /\ at[1] = "https" /\ uflights[p].addresses # {} /\ uflights[p].addresses \subseteq PublicAddresses
    BY <1>1, <1>3 DEF FlightOK
  <2>2. d.health # "disabled" /\ uworld.length \in d.shortest .. d.longest
    BY <2>1 DEF AcceptsName, NameFits, State
  <2>3. uworld.length \in Nat /\ d.shortest \in Nat /\ d.longest \in Nat
    BY UsernameAssumption DEF UsernameInv, Sites
  <2>4. uworld.length >= d.shortest /\ uworld.length <= d.longest
    BY <2>2, <2>3
  <2>5. /\ uworld.selected = {} \/ d.id \in uworld.selected
        /\ d.id \notin uworld.excluded /\ (uworld.categories = {} \/ d.category \in uworld.categories)
    BY <1>2 DEF PlannedSites
  <2>6. c[1] = p /\ c[2] = at /\ c[3] = uflights[p].addresses
    OBVIOUS
  <2>7. ContactsPublic
    BY DEF UsernameInv
  <2> HIDE DEF c, d, at, SendRequest
  <2>8. ASSUME NEW e \in ucontacts'
        PROVE  LET dd == uworld.providers[e[1]]
               IN  /\ e[1] \in uplan /\ dd.health # "disabled" /\ uworld.length >= dd.shortest /\ uworld.length <= dd.longest
                   /\ uworld.selected = {} \/ dd.id \in uworld.selected
                   /\ dd.id \notin uworld.excluded /\ (uworld.categories = {} \/ dd.category \in uworld.categories)
                   /\ e[2][1] = "https" /\ e[3] # {} /\ e[3] \subseteq PublicAddresses
    <3>1. CASE e \in ucontacts
      BY <2>7, <3>1 DEF ContactsPublic
    <3>2. CASE e = c
      BY <1>2, <2>1, <2>2, <2>4, <2>5, <2>6, <3>2 DEF d
    <3> QED
      BY <1>4, <2>8, <3>1, <3>2
  <2> QED
    BY <1>4, <2>8 DEF ContactsPublic
<1> DEFINE Fine == /\ FlightShape(uflights'[p]) /\ FlightOK(p)' /\ SaidOK(p)'
                   /\ DOMAIN uflights' = Sites /\ DOMAIN usaid' = Sites
                   /\ uflights'[p].step # "unplanned"
                   /\ \A q \in Sites \ {p} : uflights'[q] = uflights[q] /\ usaid'[q] = usaid[q]
<1>6. c[1] = p /\ c[2] = at /\ c \in ucontacts'
  BY <1>4
<1>7. ASSUME NEW step \in {"answered", "cancelled", "unscanned"}, NEW said, Closes(p, step, said),
             step = "answered" <=> said.status # "none",
             said.status \in Positive => Believed(p, said) /\ said.page = at
      PROVE  Fine
  <2>1. said.status \in Positive => Believed(p, said) /\ \E e \in ucontacts' : e[1] = p /\ e[2] = said.page
    BY <1>6, <1>7
  <2>2. \E e : e[1] = p /\ ucontacts' = ucontacts \cup {e}
    BY <1>4, <1>6
  <2> HIDE DEF SendRequest, c, at, d, page
  <2> QED
    BY <1>1, <1>4, <1>7, <2>1, <2>2, ClosesWell
<1>8. ASSUME Followed(p, page.to), usaid' = usaid,
             uflights' = [uflights EXCEPT ![p].step = "look", ![p].at = page.to, ![p].hops = @ + 1]
      PROVE  Fine
  <2>1. /\ uflights'[p].step = "look" /\ uflights'[p].hops = uflights[p].hops + 1
        /\ uflights'[p].at = page.to /\ DOMAIN uflights'[p] = DOMAIN uflights[p]
    BY <1>3, <1>8 DEF FlightShape
  <2>2. FlightShape(uflights'[p])
    BY <1>3, <2>1 DEF FlightShape, FlightSteps
  <2>3. uworld.providers[p].redirects \in Nat /\ uflights[p].hops \in Nat
    BY <1>3, UsernameAssumption DEF UsernameInv, Sites, FlightShape
  <2>4. uflights[p].hops < uworld.providers[p].redirects /\ page.to[1] = "https"
    BY <1>8 DEF Followed
  <2>5. /\ IsFiniteSet(Requests(p)') /\ Cardinality(Requests(p)') <= uflights[p].hops + 1
    <3>1. PICK S : S = Requests(p)
      OBVIOUS
    <3>2. Requests(p)' = S \cup {c}
      BY <1>4, <1>6, <3>1 DEF Requests
    <3>3. IsFiniteSet(S) /\ Cardinality(S) \in Nat /\ Cardinality(S) <= uflights[p].hops
      BY <1>1, <1>3, <3>1, FS_CardinalityType DEF FlightOK
    <3> HIDE DEF c
    <3>4. IsFiniteSet(S \cup {c}) /\ Cardinality(S \cup {c}) = IF c \in S THEN Cardinality(S) ELSE Cardinality(S) + 1
      BY <3>3, FS_AddElement
    <3>5. Cardinality(S \cup {c}) \in Nat /\ Cardinality(S \cup {c}) <= uflights[p].hops + 1
      BY <2>3, <3>3, <3>4
    <3> QED
      BY <3>2, <3>4, <3>5
  <2>6. AcceptsName(p) /\ (AcceptsName(p))' = AcceptsName(p)
    BY <1>1, <1>3, <1>4 DEF FlightOK, AcceptsName, NameFits, State
  <2>7. uflights'[p].hops <= uworld.providers[p].redirects
    BY <2>1, <2>3, <2>4
  <2>8. FlightOK(p)'
    <3> HIDE DEF SendRequest
    <3> QED
      BY <1>4, <2>1, <2>4, <2>5, <2>6, <2>7 DEF FlightOK, InFlight
  <2>9. SaidOK(p)'
    BY <1>1, <1>3, <1>8, <2>1 DEF SaidOK, Positive
  <2>10. DOMAIN uflights' = Sites /\ \A q \in Sites \ {p} : uflights'[q] = uflights[q]
    BY <1>3, <1>8
  <2> QED
    BY <1>3, <1>8, <2>1, <2>2, <2>8, <2>9, <2>10
<1> DEFINE concluded == Conclusion(d, at, page)
<1>9. \/ Closes(p, "cancelled", Unsaid) \/ Closes(p, "unscanned", Unsaid) \/ Errs(p)
      \/ /\ Followed(p, page.to) /\ usaid' = usaid
         /\ uflights' = [uflights EXCEPT ![p].step = "look", ![p].at = page.to, ![p].hops = @ + 1]
      \/ Closes(p, "answered", [status |-> concluded.status, confidence |-> concluded.confidence, page |-> at])
  OBVIOUS
<1>10. Fine
  <2>1. CASE Closes(p, "cancelled", Unsaid) \/ Closes(p, "unscanned", Unsaid)
    <3>1. Unsaid.status = "none" /\ "none" \notin Positive
      BY DEF Unsaid, Positive
    <3> HIDE DEF Fine
    <3> QED
      BY <1>7, <2>1, <3>1
  <2>2. CASE Errs(p)
    <3> DEFINE said == [status |-> "error", confidence |-> 0, page |-> NoUrl]
    <3>1. said.status = "error" /\ "error" \notin Positive /\ Closes(p, "answered", said)
      BY <2>2 DEF Errs, Positive
    <3> HIDE DEF Fine, said
    <3> QED
      BY <1>7, <3>1
  <2>3. CASE /\ Followed(p, page.to) /\ usaid' = usaid
             /\ uflights' = [uflights EXCEPT ![p].step = "look", ![p].at = page.to, ![p].hops = @ + 1]
    <3> HIDE DEF Fine
    <3> QED
      BY <1>8, <2>3
  <2>4. CASE Closes(p, "answered", [status |-> concluded.status, confidence |-> concluded.confidence, page |-> at])
    <3> DEFINE said == [status |-> concluded.status, confidence |-> concluded.confidence, page |-> at]
    <3>1. said.status = concluded.status /\ said.confidence = concluded.confidence /\ said.page = at
      OBVIOUS
    <3>2. concluded.status # "none"
      BY DEF Conclusion, Classify, Judged
    <3>3. said.status \in Positive => Believed(p, said)
      <4> HIDE DEF said, SendRequest
      <4> QED
        BY <3>1, ConclusionEvidenced
    <3>4. Closes(p, "answered", said)
      BY <2>4
    <3> HIDE DEF Fine, said, concluded
    <3> QED
      BY <1>7, <3>1, <3>2, <3>3, <3>4
  <2> HIDE DEF Fine
  <2> QED
    BY <1>9, <2>1, <2>2, <2>3, <2>4
<1>11. uflights[p].step # "unplanned"
  BY <1>1
<1>12. \A h \in DOMAIN uclients' : uclients'[h] # {} /\ uclients'[h] \subseteq PublicAddresses
  BY DEF UsernameInv
<1>13. ucontacts \subseteq ucontacts' /\ \A e \in ucontacts' : e \in ucontacts \/ e[1] = p
  BY <1>4, <1>6
<1> HIDE DEF SendRequest, c, at, d, page
<1> QED
  BY <1>1, <1>2, <1>4, <1>5, <1>10, <1>11, <1>12, <1>13, OneFlight

\* A cancellation or the deadline says nothing of a provider.
LEMMA StopSearchKeeps ==
  ASSUME UsernameInv, StopSearch PROVE UsernameInv'
<1> USE DEF UsernameInv
<1>1. /\ uworld' = uworld /\ uplan' = uplan /\ uflights' = uflights /\ uclients' = uclients /\ usaid' = usaid
      /\ uimport' = uimport /\ ucontacts' = ucontacts /\ ustage' = ustage /\ ustage = "search"
  BY DEF StopSearch
<1>2. Sites' = Sites
  BY <1>1 DEF Sites
<1>3. ASSUME NEW p \in Sites PROVE FlightOK(p)' /\ SaidOK(p)'
  <2>1. Requests(p)' = Requests(p) /\ (AcceptsName(p))' = AcceptsName(p)
    BY <1>1 DEF Requests, AcceptsName, NameFits, State
  <2>2. FlightOK(p) /\ SaidOK(p)
    BY <1>3
  <2>3. FlightOK(p)'
    BY <1>1, <2>1, <2>2 DEF FlightOK
  <2> QED
    BY <1>1, <2>1, <2>2, <2>3 DEF SaidOK, Believed
<1>4. PlanOK'
  BY <1>1, <1>2 DEF PlanOK, PlannedSites, ValidProviders, ValidDefinition, Verified
<1>5. Flying' = Flying
  BY <1>1, <1>2 DEF Flying
<1>6. ContactsPublic'
  BY <1>1 DEF ContactsPublic
<1>7. AccountsEvidenced'
  BY <1>1 DEF AccountsEvidenced
<1>8. SearchAccounted'
  BY <1>1 DEF SearchAccounted
<1> QED
  BY <1>1, <1>2, <1>3, <1>4, <1>5, <1>6, <1>7, <1>8

\* The report is told when every planned provider is settled.
LEMMA TellReportKeeps ==
  ASSUME UsernameInv, TellReport PROVE UsernameInv'
<1> USE DEF UsernameInv
<1>1. /\ uworld' = uworld /\ uplan' = uplan /\ uflights' = uflights /\ uclients' = uclients /\ usaid' = usaid
      /\ uimport' = uimport /\ ucontacts' = ucontacts /\ ustage' = "import" /\ ustage = "search"
      /\ uplan = UNION {AtStep(step) : step \in {"answered", "skipped", "cancelled", "unscanned"}}
  BY DEF TellReport
<1>2. Sites' = Sites
  BY <1>1 DEF Sites
<1>3. ASSUME NEW p \in Sites PROVE FlightOK(p)' /\ SaidOK(p)'
  <2>1. Requests(p)' = Requests(p) /\ (AcceptsName(p))' = AcceptsName(p)
    BY <1>1 DEF Requests, AcceptsName, NameFits, State
  <2>2. FlightOK(p) /\ SaidOK(p)
    BY <1>3
  <2>3. FlightOK(p)'
    BY <1>1, <2>1, <2>2 DEF FlightOK
  <2> QED
    BY <1>1, <2>1, <2>2, <2>3 DEF SaidOK, Believed
<1>4. PlanOK'
  <2>1. \A p \in uplan : uflights[p].step \in Settled
    BY <1>1 DEF AtStep, Settled
  <2>2. ValidProviders /\ uplan = PlannedSites /\ uimport = NoImport
    BY <1>1 DEF PlanOK
  <2>3. ValidProviders' /\ PlannedSites' = PlannedSites
    BY <1>1, <1>2, <2>2 DEF PlannedSites, ValidProviders, ValidDefinition, Verified
  <2>4. \A p \in Sites : uflights[p].step # "unplanned" <=> p \in uplan
    BY DEF PlanOK
  <2> QED
    BY <1>1, <1>2, <2>1, <2>2, <2>3, <2>4 DEF PlanOK
<1>5. Flying' = Flying
  BY <1>1, <1>2 DEF Flying
<1>6. ContactsPublic'
  BY <1>1 DEF ContactsPublic
<1>7. AccountsEvidenced'
  BY <1>1 DEF AccountsEvidenced
<1>8. SearchAccounted'
  BY <1>1 DEF SearchAccounted
<1> QED
  BY <1>1, <1>2, <1>3, <1>4, <1>5, <1>6, <1>7, <1>8

\* Providers at different steps are different ones.
LEMMA StepsCount ==
  ASSUME UsernameInv, ustage = "import"
  PROVE  /\ Cardinality(AtStep("answered")) + Cardinality(AtStep("skipped")) + Cardinality(AtStep("cancelled"))
              + Cardinality(AtStep("unscanned")) = Cardinality(uplan)
         /\ IsFiniteSet(AtStep("answered"))
<1> DEFINE a == AtStep("answered")
           b == AtStep("skipped")
           c == AtStep("cancelled")
           d == AtStep("unscanned")
<1>1. IsFiniteSet(Sites) /\ uplan \subseteq Sites
  BY UsernameAssumption DEF UsernameInv, PlanOK, Sites, PlannedSites
<1>2. IsFiniteSet(uplan)
  BY <1>1, FS_Subset
<1>3. IsFiniteSet(a) /\ IsFiniteSet(b) /\ IsFiniteSet(c) /\ IsFiniteSet(d)
  <2>1. a \subseteq uplan /\ b \subseteq uplan /\ c \subseteq uplan /\ d \subseteq uplan
    BY DEF AtStep
  <2> HIDE DEF a, b, c, d
  <2> QED
    BY <1>2, <2>1, FS_Subset
<1>4. a \cap b = {} /\ (a \cup b) \cap c = {} /\ (a \cup b \cup c) \cap d = {}
  BY DEF AtStep
<1>5. uplan = a \cup b \cup c \cup d
  BY DEF UsernameInv, PlanOK, AtStep, Settled
<1> HIDE DEF a, b, c, d
<1>6. IsFiniteSet(a \cup b) /\ Cardinality(a \cup b) = Cardinality(a) + Cardinality(b)
  BY <1>3, <1>4, DisjointCount
<1>7. IsFiniteSet(a \cup b \cup c) /\ Cardinality(a \cup b \cup c) = Cardinality(a \cup b) + Cardinality(c)
  BY <1>3, <1>4, <1>6, DisjointCount
<1>8. Cardinality(a \cup b \cup c \cup d) = Cardinality(a \cup b \cup c) + Cardinality(d)
  BY <1>3, <1>4, <1>7, DisjointCount
<1>9. /\ Cardinality(a) \in Nat /\ Cardinality(b) \in Nat /\ Cardinality(c) \in Nat /\ Cardinality(d) \in Nat
  BY <1>3, FS_CardinalityType
<1>10. Cardinality(a) + Cardinality(b) + Cardinality(c) + Cardinality(d) = Cardinality(uplan)
  BY <1>5, <1>6, <1>7, <1>8
<1> QED
  BY <1>3, <1>10 DEF a, b, c, d

\* The report becomes accounts and module results.
LEMMA PersistUsernameReportKeeps ==
  ASSUME UsernameInv, PersistUsernameReport PROVE UsernameInv'
<1> USE DEF UsernameInv
<1> DEFINE answered == AtStep("answered")
           positive == {p \in answered : usaid[p].status \in {"confirmed", "probable", "possible"}}
<1>1. /\ uworld' = uworld /\ uplan' = uplan /\ uflights' = uflights /\ uclients' = uclients /\ usaid' = usaid
      /\ ucontacts' = ucontacts /\ ustage' = "done" /\ ustage = "import"
  BY DEF PersistUsernameReport
<1>2. /\ uimport'.accounts = {[platform |-> uworld.providers[p].platform, by |-> p, confidence |-> usaid[p].confidence] : p \in positive}
      /\ uimport'.termination = IF AtStep("cancelled") # {} THEN "cancelled"
                                ELSE IF AtStep("unscanned") # {} THEN "deadline_or_budget" ELSE "complete"
      /\ uimport'.modules = {<<uworld.providers[p].id, usaid[p].status>> : p \in answered}
  BY DEF PersistUsernameReport
<1>3. Sites' = Sites
  BY <1>1 DEF Sites
<1>4. ASSUME NEW p \in Sites PROVE FlightOK(p)' /\ SaidOK(p)'
  <2>1. Requests(p)' = Requests(p) /\ (AcceptsName(p))' = AcceptsName(p)
    BY <1>1 DEF Requests, AcceptsName, NameFits, State
  <2>2. FlightOK(p) /\ SaidOK(p)
    BY <1>4
  <2>3. FlightOK(p)'
    BY <1>1, <2>1, <2>2 DEF FlightOK
  <2> QED
    BY <1>1, <2>1, <2>2, <2>3 DEF SaidOK, Believed
<1>5. /\ ValidProviders /\ uplan = PlannedSites /\ uplan \subseteq Sites
      /\ \A p \in uplan : uflights[p].step \in Settled
      /\ \A p \in Sites : uflights[p].step # "unplanned" <=> p \in uplan
  BY <1>1 DEF PlanOK, PlannedSites
<1>6. PlanOK'
  <2>1. ValidProviders' /\ PlannedSites' = PlannedSites
    BY <1>1, <1>3, <1>5 DEF PlannedSites, ValidProviders, ValidDefinition, Verified
  <2> QED
    BY <1>1, <1>3, <1>5, <2>1 DEF PlanOK
<1>7. Flying' = Flying
  BY <1>1, <1>3 DEF Flying
<1>8. ContactsPublic'
  BY <1>1 DEF ContactsPublic
<1>9. AccountsEvidenced'
  <2> SUFFICES ASSUME NEW account \in uimport'.accounts
               PROVE  LET p == account.by d == uworld.providers[p] url == usaid[p].page page == uworld.answers[url]
                      IN  /\ page.status \in d.success \ d.missing /\ page.marks \cap Contrary = {} /\ ~page.huge
                          /\ url \notin d.absence \cup d.login
                          /\ account.confidence > 25 => d.marks \subseteq page.marks
                          /\ \E c \in ucontacts : c[1] = p /\ c[2] = url
    BY <1>1 DEF AccountsEvidenced
  <2>1. PICK p \in positive : account = [platform |-> uworld.providers[p].platform, by |-> p, confidence |-> usaid[p].confidence]
    BY <1>2
  <2>2. account.by = p /\ account.confidence = usaid[p].confidence
    BY <2>1
  <2>3. p \in Sites /\ usaid[p].status \in Positive
    BY <1>5, <2>1 DEF AtStep, Positive
  <2>4. SaidOK(p)
    BY <2>3
  <2>5. Believed(p, usaid[p]) /\ \E c \in ucontacts : c[1] = p /\ c[2] = usaid[p].page
    BY <2>3, <2>4 DEF SaidOK
  <2> HIDE DEF UsernameInv, positive
  <2> QED
    BY <2>2, <2>5 DEF Believed
<1>10. SearchAccounted'
  <2>1. ASSUME NEW p \in uplan PROVE usaid[p].status # "none" <=> uflights[p].step = "answered"
    <3>1. SaidOK(p)
      BY <1>5, <2>1
    <3> QED
      BY <3>1 DEF SaidOK
  <2>2. answered = {p \in uplan : usaid[p].status # "none"} /\ answered \subseteq Sites
    BY <1>5, <2>1 DEF AtStep
  <2>3. uimport'.termination = "complete" => \A p \in uplan : usaid[p].status # "none" \/ ~AcceptsName(p)
    <3> SUFFICES ASSUME uimport'.termination = "complete", NEW p \in uplan, usaid[p].status = "none"
                 PROVE  ~AcceptsName(p)
      OBVIOUS
    <3>1. AtStep("cancelled") = {} /\ AtStep("unscanned") = {}
      BY <1>2
    <3>2. uflights[p].step # "cancelled" /\ uflights[p].step # "unscanned" /\ uflights[p].step # "answered"
      BY <2>1, <3>1 DEF AtStep
    <3>3. uflights[p].step = "skipped"
      BY <1>5, <3>2 DEF Settled
    <3>4. SaidOK(p)
      BY <1>5
    <3> QED
      BY <3>3, <3>4 DEF SaidOK
  <2>4. {m[1] : m \in uimport'.modules} = IdsOf(answered)
    <3>1. {m[1] : m \in {<<uworld.providers[p].id, usaid[p].status>> : p \in answered}} = {uworld.providers[p].id : p \in answered}
      <4> HIDE DEF answered, UsernameInv
      <4> DEFINE T == {<<uworld.providers[p].id, usaid[p].status>> : p \in answered}
      <4>1. ASSUME NEW m \in T PROVE m[1] \in {uworld.providers[p].id : p \in answered}
        OBVIOUS
      <4>2. ASSUME NEW p \in answered PROVE \E m \in T : m[1] = uworld.providers[p].id
        <5>1. <<uworld.providers[p].id, usaid[p].status>> \in T
          OBVIOUS
        <5> QED
          BY <5>1
      <4> HIDE DEF T
      <4>3. {m[1] : m \in T} = {uworld.providers[p].id : p \in answered}
        BY <4>1, <4>2
      <4> QED
        BY <4>3 DEF T
    <3> QED
      BY <1>2, <3>1 DEF IdsOf
  <2>5. IsFiniteSet(answered)
    BY <1>1, StepsCount
  <2>6. Cardinality(uimport'.modules) = Cardinality(answered)
    <3> DEFINE f == [p \in answered |-> <<uworld.providers[p].id, usaid[p].status>>]
               T == uimport'.modules
    <3>1. \A p \in answered : f[p] \in T
      BY <1>2
    <3>2. \A t \in T : \E p \in answered : f[p] = t
      BY <1>2
    <3>3. ASSUME NEW p \in answered, NEW q \in answered, f[p] = f[q] PROVE p = q
      <4>1. uworld.providers[p].id = uworld.providers[q].id
        BY <3>3
      <4> QED
        BY <1>5, <2>2, <4>1 DEF ValidProviders
    <3>4. DOMAIN f = answered
      OBVIOUS
    <3>5. f \in Bijection(answered, T)
      <4> HIDE DEF T, answered, UsernameInv
      <4>1. f \in [answered -> T]
        BY <3>1
      <4> HIDE DEF f
      <4>2. f \in Injection(answered, T)
        BY <3>3, <3>4, <4>1 DEF Injection, IsInjective
      <4>3. f \in Surjection(answered, T)
        BY <3>2, <3>4, <4>1 DEF Surjection
      <4> QED
        BY <4>2, <4>3 DEF Bijection
    <3> HIDE DEF f, T, answered, UsernameInv
    <3>6. ExistsBijection(answered, T)
      BY <3>5 DEF ExistsBijection
    <3> QED
      BY <2>5, <3>6, FS_Bijection DEF T
  <2>7. Cardinality(uimport'.modules) + Cardinality(AtStep("skipped")) + Cardinality(AtStep("cancelled"))
          + Cardinality(AtStep("unscanned")) = Cardinality(uplan)
    BY <1>1, <2>6, StepsCount
  <2>8. AtStep("skipped")' = AtStep("skipped") /\ AtStep("cancelled")' = AtStep("cancelled") /\ AtStep("unscanned")' = AtStep("unscanned")
    BY <1>1 DEF AtStep
  <2>9. (IdsOf({p \in uplan : usaid[p].status # "none"}))' = IdsOf(answered)
    BY <1>1, <2>2 DEF IdsOf
  <2>10. \A p \in Sites : (AcceptsName(p))' = AcceptsName(p)
    BY <1>1 DEF AcceptsName, NameFits, State
  <2>11. (\A p \in uplan : usaid[p].status # "none" \/ ~AcceptsName(p))' <=> \A p \in uplan : usaid[p].status # "none" \/ ~AcceptsName(p)
    BY <1>1, <1>5, <2>10
  <2> HIDE DEF answered, UsernameInv
  <2> QED
    BY <1>1, <2>3, <2>4, <2>7, <2>8, <2>9, <2>11 DEF SearchAccounted
<1> HIDE DEF positive, answered
<1>11. \A c \in ucontacts' : c[1] \in Sites'
  BY <1>1, <1>3
<1>12. uimport' = uimport'
  OBVIOUS
<1> QED
  BY <1>1, <1>3, <1>4, <1>6, <1>7, <1>8, <1>9, <1>10, <1>11

\* What the search is about does not move without a step of it.
LEMMA UsernameStutters ==
  ASSUME UsernameInv, UNCHANGED uservars PROVE UsernameInv'
<1> USE DEF UsernameInv
<1>1. /\ uworld' = uworld /\ uplan' = uplan /\ uflights' = uflights /\ uclients' = uclients /\ usaid' = usaid
      /\ uimport' = uimport /\ ucontacts' = ucontacts /\ ustage' = ustage
  BY DEF uservars
<1>2. Sites' = Sites
  BY <1>1 DEF Sites
<1>3. ASSUME NEW p \in Sites PROVE FlightOK(p)' /\ SaidOK(p)'
  <2>1. Requests(p)' = Requests(p) /\ (AcceptsName(p))' = AcceptsName(p)
    BY <1>1 DEF Requests, AcceptsName, NameFits, State
  <2>2. FlightOK(p) /\ SaidOK(p)
    BY <1>3
  <2>3. FlightOK(p)'
    BY <1>1, <2>1, <2>2 DEF FlightOK
  <2> QED
    BY <1>1, <2>1, <2>2, <2>3 DEF SaidOK, Believed
<1>4. PlanOK'
  BY <1>1, <1>2 DEF PlanOK, PlannedSites, ValidProviders, ValidDefinition, Verified
<1>5. Flying' = Flying
  BY <1>1, <1>2 DEF Flying
<1>6. ContactsPublic' /\ AccountsEvidenced'
  BY <1>1 DEF ContactsPublic, AccountsEvidenced
<1>7. SearchAccounted'
  BY <1>1 DEF SearchAccounted, AtStep, IdsOf, AcceptsName, NameFits, State
<1> QED
  BY <1>1, <1>2, <1>3, <1>4, <1>5, <1>6, <1>7

\* The invariant has all that the search promises.
LEMMA UsernameKept ==
  ASSUME UsernameInv PROVE UsernameTypeOK /\ UsernameSound
<1> USE DEF UsernameInv
<1>1. ASSUME NEW p \in Sites PROVE Cardinality(Requests(p)) <= uworld.providers[p].redirects + 1
  <2>1. uworld.providers[p].redirects \in Nat
    BY <1>1, UsernameAssumption DEF Sites
  <2>2. FlightOK(p) /\ FlightShape(uflights[p])
    BY <1>1
  <2>3. IsFiniteSet(Requests(p)) /\ Cardinality(Requests(p)) \in Nat
    BY <2>2, FS_CardinalityType DEF FlightOK
  <2> QED
    BY <2>1, <2>2, <2>3 DEF FlightOK, FlightShape
<1> QED
  BY <1>1 DEF UsernameTypeOK, UsernameSound, Requests

\* A search for a username keeps to its bounds, contacts whom it may at public
\* addresses, believes an account on evidence, and accounts for every provider.
THEOREM UsernameSearchIsSound == UsernameSpec => [](UsernameTypeOK /\ UsernameSound)
<1>1. UsernameInv /\ [UsernameNext]_uservars => UsernameInv'
  <2> SUFFICES ASSUME UsernameInv, [UsernameNext]_uservars PROVE UsernameInv'
    OBVIOUS
  <2>1. CASE UNCHANGED uservars
    BY <2>1, UsernameStutters
  <2>2. CASE PlanUsernameProviders
    BY <2>2, PlanKeeps
  <2>3. CASE StopSearch
    BY <2>3, StopSearchKeeps
  <2>4. CASE TellReport
    BY <2>4, TellReportKeeps
  <2>5. CASE PersistUsernameReport
    BY <2>5, PersistUsernameReportKeeps
  <2>6. ASSUME NEW p \in Sites, DispatchProvider(p) \/ LookUp(p) \/ PinClient(p) \/ SendRequest(p) PROVE UsernameInv'
    BY <2>6, DispatchKeeps, LookUpKeeps, PinClientKeeps, SendRequestKeeps
  <2> QED
    BY <2>1, <2>2, <2>3, <2>4, <2>5, <2>6 DEF UsernameNext
<1>2. UsernameInv => UsernameTypeOK /\ UsernameSound
  BY UsernameKept
<1> QED
  BY <1>1, <1>2, UsernameStarts, PTL DEF UsernameSpec

-----------------------------------------------------------------------------
(* What speaks on a port.                                                    *)

\* The probes; those a task asks on a connection of their own, and those it
\* leaves to the wave.
AloneProbes == {"ssh", "mysql"}
MailProbes == {"ftp", "smtp"}
WaveProbes == {"http", "tls", "redis", "postgres", "smb"}
Probes == AloneProbes \cup MailProbes \cup WaveProbes \cup {"generic"}

\* The probes named once, in order: a row without repetitions of the same ones.
LEMMA FirstOfDistinct ==
  ASSUME NEW S, NEW probes \in Seq(S)
  PROVE  FirstOf(probes) \in Seq(S) /\ IsInjective(FirstOf(probes))
<1> DEFINE n == Len(probes)
           T == {s \in Seq(S) : IsInjective(s)}
           step == [kv \in (1 .. n) \X T |-> IF Contains(kv[2], probes[kv[1]]) THEN kv[2] ELSE Append(kv[2], probes[kv[1]])]
           Fit(f) == f = [k \in 0 .. n |-> IF k = 0 THEN <<>>
                                           ELSE IF Contains(f[k - 1], probes[k]) THEN f[k - 1] ELSE Append(f[k - 1], probes[k])]
<1>1. n \in Nat /\ <<>> \in T
  BY EmptyElements
<1>2. ASSUME NEW k \in 1 .. n, NEW v \in T
      PROVE  (IF Contains(v, probes[k]) THEN v ELSE Append(v, probes[k])) \in T
  <2>1. CASE Contains(v, probes[k])
    BY <2>1
  <2>2. CASE ~Contains(v, probes[k])
    <3>1. probes[k] \in S /\ v \in Seq(S) /\ IsInjective(v)
      OBVIOUS
    <3>2. probes[k] \notin ToSet(v)
      BY <2>2, <3>1 DEF Contains, ToSet
    <3>3. Append(v, probes[k]) \in Seq(S) /\ IsInjective(Append(v, probes[k]))
      BY <3>1, <3>2, AppendElements
    <3> QED
      BY <2>2, <3>3
  <2> QED
    BY <2>1, <2>2
<1> HIDE DEF T
<1>3. step \in [(1 .. n) \X T -> T]
  BY <1>2
<1>4. \A k \in 1 .. n, v \in T : step[<<k, v>>] = IF Contains(v, probes[k]) THEN v ELSE Append(v, probes[k])
  OBVIOUS
<1> HIDE DEF step
<1>5. PICK f : Unfolds(f, n, T, <<>>, step)
  <2> HIDE DEF n
  <2> QED
    BY <1>1, <1>3, Recursion
<1>6. Fit(f)
  <2> SUFFICES ASSUME NEW k \in 0 .. n
               PROVE  f[k] = IF k = 0 THEN <<>>
                             ELSE IF Contains(f[k - 1], probes[k]) THEN f[k - 1] ELSE Append(f[k - 1], probes[k])
    BY <1>5 DEF Unfolds
  <2>1. CASE k = 0
    BY <1>5, <2>1 DEF Unfolds
  <2>2. CASE k # 0
    <3>1. k \in 1 .. n /\ k - 1 \in 0 .. n
      BY <2>2
    <3>2. f[k] = step[<<k, f[k - 1]>>] /\ f[k - 1] \in T
      BY <1>5, <3>1 DEF Unfolds
    <3> QED
      BY <1>4, <2>2, <3>1, <3>2
  <2> QED
    BY <2>1, <2>2
<1> DEFINE g == CHOOSE h : Fit(h)
<1>7. Fit(g)
  BY <1>6
<1>8. FirstOf(probes) = g[n]
  BY DEF FirstOf
<1> HIDE DEF g
<1>9. g[0] = <<>> /\ \A k \in 1 .. n : g[k] = IF Contains(g[k - 1], probes[k]) THEN g[k - 1] ELSE Append(g[k - 1], probes[k])
  <2>1. g = [k \in 0 .. n |-> IF k = 0 THEN <<>>
                              ELSE IF Contains(g[k - 1], probes[k]) THEN g[k - 1] ELSE Append(g[k - 1], probes[k])]
    BY <1>7
  <2> HIDE DEF n, Fit
  <2>2. 0 \in 0 .. n /\ \A k \in 1 .. n : k \in 0 .. n /\ k # 0
    BY <1>1
  <2> QED
    BY <2>1, <2>2
<1> HIDE DEF Fit
<1> DEFINE R == {k \in Nat : k <= n => g[k] \in T}
<1>10. 0 \in R
  BY <1>1, <1>9
<1>11. ASSUME NEW k \in Nat, k \in R PROVE k + 1 \in R
  <2> SUFFICES ASSUME k + 1 <= n PROVE g[k + 1] \in T
    OBVIOUS
  <2>1. k + 1 \in 1 .. n /\ g[k] \in T /\ (k + 1) - 1 = k
    BY <1>1, <1>11
  <2>2. (IF Contains(g[k], probes[k + 1]) THEN g[k] ELSE Append(g[k], probes[k + 1])) \in T
    BY <1>2, <2>1
  <2> QED
    BY <1>9, <2>1, <2>2
<1> HIDE DEF R
<1>12. Nat \subseteq R
  BY <1>10, <1>11, SetInduction
<1>13. g[n] \in T
  BY <1>1, <1>12 DEF R
<1> QED
  BY <1>8, <1>13 DEF T

\* The first members of a row without repetitions.
LEMMA FirstsDistinct ==
  ASSUME NEW S, NEW s \in Seq(S), IsInjective(s), NEW cap \in Nat
  PROVE  LET few == SubSeq(s, 1, IF Len(s) < cap THEN Len(s) ELSE cap)
         IN  few \in Seq(S) /\ IsInjective(few) /\ Len(few) <= cap
<1> DEFINE k == IF Len(s) < cap THEN Len(s) ELSE cap
           few == SubSeq(s, 1, k)
<1>1. k \in Nat /\ k <= Len(s) /\ k <= cap /\ Len(s) \in Nat /\ DOMAIN s = 1 .. Len(s)
  OBVIOUS
<1> HIDE DEF k
<1>2. few \in Seq(S) /\ Len(few) = k /\ DOMAIN few = 1 .. k /\ \A i \in 1 .. k : few[i] = s[i] /\ i \in DOMAIN s
  BY <1>1
<1>3. IsInjective(few)
  BY <1>1, <1>2 DEF IsInjective
<1> QED
  BY <1>1, <1>2, <1>3 DEF k

\* A plan asks each probe once, and six at most.
LEMMA PlanDistinct ==
  ASSUME NEW port \in Suggestions, NEW level \in 1 .. 5
  PROVE  LET plan == PlannedProbes(port, level)
         IN  plan \in Seq(Probes) /\ IsInjective(plan) /\ Len(plan) <= 6
<1> DEFINE first == PrimaryProbe(port)
           likely == <<first>>
                \o (IF port = "smtps" THEN FromLevel(level, 4, <<"smtp">>) ELSE <<>>)
                \o FromLevel(level, 2, <<"generic">>) \o FromLevel(level, 4, <<"http">>)
                \o FromLevel(level, 5, <<"redis", "tls">>)
           unlikely == <<"generic">> \o FromLevel(level, 2, <<"http">>) \o FromLevel(level, 3, <<"redis">>)
                  \o FromLevel(level, 4, <<"tls">>) \o FromLevel(level, 5, <<"postgres", "smtp">>)
           row == IF first = "none" THEN unlikely ELSE likely
           all == FirstOf(row)
           cap == ProbeCap(level)
<1>1. first = "none" \/ first \in Probes
  BY DEF PrimaryProbe, Suggestions, Probes, AloneProbes, MailProbes, WaveProbes
<1>2. cap \in Nat /\ cap <= 6
  BY DEF ProbeCap
<1>4. /\ <<"smtp">> \in Seq(Probes) /\ <<"generic">> \in Seq(Probes) /\ <<"http">> \in Seq(Probes)
      /\ <<"redis", "tls">> \in Seq(Probes) /\ <<"redis">> \in Seq(Probes) /\ <<"tls">> \in Seq(Probes)
      /\ <<"postgres", "smtp">> \in Seq(Probes) /\ <<>> \in Seq(Probes)
  BY DEF Probes, AloneProbes, MailProbes, WaveProbes
<1>5. \A s, t \in Seq(Probes) : s \o t \in Seq(Probes)
  OBVIOUS
<1>6. unlikely \in Seq(Probes)
  <2>1. PICK a, b, c, d, e :
          /\ a = <<"generic">> /\ b = FromLevel(level, 2, <<"http">>) /\ c = FromLevel(level, 3, <<"redis">>)
          /\ d = FromLevel(level, 4, <<"tls">>) /\ e = FromLevel(level, 5, <<"postgres", "smtp">>)
    OBVIOUS
  <2>2. a \in Seq(Probes) /\ b \in Seq(Probes) /\ c \in Seq(Probes) /\ d \in Seq(Probes) /\ e \in Seq(Probes)
    BY <1>4, <2>1 DEF FromLevel
  <2>3. unlikely = a \o b \o c \o d \o e
    BY <2>1
  <2> QED
    BY <1>5, <2>2, <2>3
<1>7. ASSUME first # "none" PROVE likely \in Seq(Probes)
  <2>1. PICK a, b, c, d, e :
          /\ a = <<first>> /\ b = (IF port = "smtps" THEN FromLevel(level, 4, <<"smtp">>) ELSE <<>>)
          /\ c = FromLevel(level, 2, <<"generic">>) /\ d = FromLevel(level, 4, <<"http">>)
          /\ e = FromLevel(level, 5, <<"redis", "tls">>)
    OBVIOUS
  <2>2. a \in Seq(Probes)
    BY <1>1, <1>7, <2>1
  <2>3. b \in Seq(Probes) /\ c \in Seq(Probes) /\ d \in Seq(Probes) /\ e \in Seq(Probes)
    BY <1>4, <2>1 DEF FromLevel
  <2>4. likely = a \o b \o c \o d \o e
    BY <2>1
  <2> QED
    BY <1>5, <2>2, <2>3, <2>4
<1> HIDE DEF first, likely, unlikely
<1>8. row \in Seq(Probes)
  BY <1>6, <1>7
<1> HIDE DEF row
<1>9. all \in Seq(Probes) /\ IsInjective(all)
  BY <1>8, FirstOfDistinct
<1> HIDE DEF all, cap
<1>10. PICK plan : plan = SubSeq(all, 1, IF Len(all) < cap THEN Len(all) ELSE cap)
  OBVIOUS
<1>11. plan \in Seq(Probes) /\ IsInjective(plan) /\ Len(plan) <= cap
  BY <1>2, <1>9, <1>10, FirstsDistinct
<1>12. PlannedProbes(port, level) = plan
  BY <1>10 DEF PlannedProbes, all, row, first, likely, unlikely, cap
<1>13. Len(plan) <= 6
  BY <1>2, <1>11
<1> QED
  BY <1>11, <1>12, <1>13

-----------------------------------------------------------------------------
(* The invariant.                                                            *)

Sockets == Probes \cup {"passive"}
Hearings == Greetings \cup {"unasked", "cut"}
Protocols == {"unknown", "ssh", "mysql", "tls", "ftp", "smtp", "http", "redis", "postgres", "smb"}
Attempts == [probe : Sockets \cup {"none"}, protocol : Protocols, banner : Hearings \cup {"none"}, tls : BOOLEAN]
BeforeWave == {"start", "passive", "judge", "alone", "mail"}
ServicePhases == BeforeWave \cup {"wave", "replay", "compose", "final", "done"}

ServiceTypes ==
  /\ ztask \in [port : Suggestions, level : 1 .. 5, context : BOOLEAN]
  /\ zserver \in Server
  /\ zworld \in [cancelled : BOOLEAN, time : {"ample", "low", "over"}]
  /\ zphase \in ServicePhases /\ zheard \in Hearings
  /\ zleft \in Seq(Probes) /\ zwave \in Seq(WaveProbes) /\ zopened \in Seq(Sockets)
  /\ zfallback \in Attempts /\ zwinner \in Attempts
  /\ zcut \in BOOLEAN /\ zgaveup \in BOOLEAN /\ zconns \in Nat
  /\ zout.how \in {"none", "failed", "cancelled", "empty", "done"}

\* What zthread holds depends on where the task is: the probe asked alone, or
\* the answers of the wave.
ServiceThread ==
  /\ zphase \in {"start", "passive", "judge"} => zthread = <<>>
  /\ zphase = "alone" => zthread[1] \in AloneProbes
  /\ zphase = "mail" => zthread[1] \in MailProbes
  /\ zphase \in {"wave", "replay", "compose", "final"} \/ ServiceConcluded => zthread \in Seq(Attempts)

\* A probe is still to be looked at, or in the wave, or its socket is open.
ServiceRows ==
  /\ IsInjective(zleft) /\ IsInjective(zwave) /\ IsInjective(zopened)
  /\ ToSet(zleft) \cap ToSet(zwave) = {}
  /\ zphase \in BeforeWave => ToSet(zopened) \cap (ToSet(zleft) \cup ToSet(zwave)) = {}
  /\ zphase = "start" => zopened = <<>> /\ zleft = <<>>
  /\ zphase \in {"start", "passive"} => zwave = <<>> /\ zheard = "unasked" /\ ToSet(zopened) \subseteq {"passive"}

\* What was heard decides which sockets are opened after it.
ServiceHeard ==
  /\ ToSet(zopened) \cap AloneProbes # {} => zheard = "unasked"
  /\ ToSet(zopened) \cap MailProbes # {} => zheard \in {"unasked", "220", "cut"}

\* Each connection takes a probe off what is left, or off the wave.
Unasked == {p \in ToSet(zwave) : ~AskedFor(p)}
ServiceBudget ==
  /\ zphase = "start" => zconns = 0
  /\ zphase \in BeforeWave => zconns + Len(zleft) + Len(zwave) <= Len(ServicePlan) + 1
  /\ zphase = "wave" => zconns + Cardinality(Unasked) <= Len(ServicePlan) + 1
  /\ zconns <= Len(ServicePlan) + 1

\* An attempt claims what the server proved.
Backed(a) ==
  /\ a.protocol \in {"ssh", "mysql"} => zserver.first = a.protocol
  /\ a.protocol = "tls" => zserver.tls /\ a.tls
  /\ a.protocol = "ftp" => zserver.first = "220" /\ zserver.mail = "ftp"
  /\ a.protocol = "smtp" => IF a.tls THEN zserver.tls /\ zserver.inside = "smtp"
                                  ELSE zserver.first = "220" /\ zserver.mail = "smtp"
  /\ a.protocol = "http" => IF a.tls THEN zserver.tls /\ zserver.inside = "http"
                                  ELSE "http" \in zserver.answers
  /\ a.protocol \in {"redis", "postgres", "smb"} => a.protocol \in zserver.answers

\* The answers of the wave, in the order they came: one of each probe at most,
\* of the protocol the probe is named for.
WaveAnswer(answer) ==
  /\ answer.probe \in ToSet(zwave) /\ Backed(answer)
  /\ Classified(answer) => answer.protocol = answer.probe /\ (answer.tls <=> answer.probe = "tls")
AllAnswered == \A i \in DOMAIN zwave : \E k \in DOMAIN zthread : zthread[k].probe = zwave[i]
PastWave == (zphase = "final" \/ ServiceConcluded) /\ zthread # <<>>

\* The winner is what the first classified answer of the plan became.
WinnerStands ==
  Classified(zwinner) =>
    \E i \in DOMAIN zwave :
      /\ \E k \in DOMAIN zthread : zthread[k].probe = zwave[i] /\ Classified(zthread[k])
      /\ \A j \in 1 .. (i - 1) : \A k \in DOMAIN zthread : zthread[k].probe = zwave[j] => ~Classified(zthread[k])
      /\ IF zwave[i] = "tls" THEN zwinner.probe \in {"tls", "http", "smtp"} /\ zwinner.tls
         ELSE zwinner.probe = zwave[i]

ServiceWave ==
  /\ zphase \in {"wave", "replay"} =>
       /\ \A k \in DOMAIN zthread : WaveAnswer(zthread[k])
       /\ \A k, m \in DOMAIN zthread : zthread[k].probe = zthread[m].probe => k = m
  /\ zphase = "replay" => AllAnswered
  /\ zphase = "compose" => zwinner.probe = "tls" /\ Classified(zwinner) /\ zserver.tls
  /\ zphase = "compose" \/ PastWave => WinnerStands

ServiceEvidence == Backed(zfallback) /\ Backed(zwinner)

\* A greeting is on its way into the conclusion.
ServiceKept ==
  /\ zfallback = NoAttempt \/ zfallback.banner # "none"
  /\ zphase = "passive" => "generic" \in ToSet(zleft)
  /\ zphase \in {"wave", "replay", "compose"} => zleft = <<>>
  /\ zphase = "final" => zleft = <<>> \/ Classified(zwinner)
  /\ ~zcut /\ zheard \notin {"unasked", "silence"} /\ zphase # "done" =>
       \/ zphase = "final" /\ Classified(zwinner)
       \/ "generic" \in ToSet(zleft) \/ zfallback.banner # "none"

\* An exchange is dropped by a cancel or by the deadline only.
ServiceSilence ==
  /\ zgaveup => zworld.cancelled \/ zworld.time = "over"
  /\ zgaveup \/ zconns = Len(zopened)

\* What the conclusion was made from.
ServiceResult == IF Classified(zwinner) THEN zwinner ELSE zfallback
ServiceOutcome ==
  ServiceConcluded =>
    /\ zout.protocol = ServiceResult.protocol /\ zout.tls = ServiceResult.tls /\ zout.banner = ServiceResult.banner
    /\ zout.identified = Classified(ServiceResult) /\ zout.connections = zconns
    /\ ~zworld.cancelled /\ (zworld.time = "over" => zcut)
    /\ ~zcut /\ zheard \notin {"unasked", "silence"} => Classified(zwinner) \/ zfallback.banner # "none"

ServiceInv ==
  /\ ServiceTypes /\ ServiceThread /\ ServiceRows /\ ServiceHeard /\ ServiceBudget
  /\ ServiceWave /\ ServiceEvidence /\ ServiceKept /\ ServiceSilence /\ ServiceOutcome

-----------------------------------------------------------------------------
(* The answers.                                                              *)

LEMMA AttemptsAre ==
  /\ NoAttempt = [probe |-> "none", protocol |-> "unknown", banner |-> "none", tls |-> FALSE]
  /\ \A p : Missed(p) = [probe |-> p, protocol |-> "unknown", banner |-> "none", tls |-> FALSE]
  /\ \A p, text : Banner(p, text) = [probe |-> p, protocol |-> "unknown", banner |-> text, tls |-> FALSE]
  /\ \A p, protocol, text : Proved(p, protocol, text) = [probe |-> p, protocol |-> protocol, banner |-> text, tls |-> FALSE]
  /\ \A p, protocol, text :
       InsideTls(Proved(p, protocol, text)) = [probe |-> p, protocol |-> protocol, banner |-> text, tls |-> TRUE]
<1>1. ASSUME NEW p, NEW protocol, NEW text
      PROVE  InsideTls(Proved(p, protocol, text)) = [probe |-> p, protocol |-> protocol, banner |-> text, tls |-> TRUE]
  BY DEF Proved, InsideTls
<1> QED
  BY <1>1 DEF NoAttempt, Missed, Banner, Proved

\* What was heard comes from the server or is nothing.
LEMMA HearsIs ==
  ASSUME zserver \in Server
  PROVE  /\ Hears \subseteq Hearings
         /\ \A h \in Hears : h \in {"ssh", "mysql", "220", "line"} => zserver.first = h
         /\ \A h \in Hears : h # "unasked"
BY DEF Hears, Server, Greetings, Hearings

\* A probe that asks alone: its attempt claims what was heard.
LEMMA AloneReads ==
  ASSUME zserver \in Server, NEW h \in Hears
  PROVE  /\ SshReads(h) \in Attempts /\ Backed(SshReads(h))
         /\ MysqlReads(h) \in Attempts /\ Backed(MysqlReads(h))
<1>1. h \in Hearings /\ (h \in {"ssh", "mysql", "220", "line"} => zserver.first = h)
  BY HearsIs
<1>2. SshReads(h) \in Attempts /\ MysqlReads(h) \in Attempts
  BY <1>1, AttemptsAre DEF SshReads, MysqlReads, Attempts, Protocols, Sockets, Probes, AloneProbes, Hearings, Greetings
<1>3. Backed(SshReads(h))
  BY <1>1, AttemptsAre DEF SshReads, Backed
<1>4. Backed(MysqlReads(h))
  BY <1>1, AttemptsAre DEF MysqlReads, Backed
<1> QED
  BY <1>2, <1>3, <1>4

LEMMA MailReadsIs ==
  ASSUME zserver \in Server, NEW h \in Hears, NEW p \in MailProbes, NEW a \in MailReads(p, h)
  PROVE  a \in Attempts /\ Backed(a)
<1>1. h \in Hearings /\ (h \in {"ssh", "mysql", "220", "line"} => zserver.first = h)
  BY HearsIs
<1>2. \/ a = Missed(p) \/ a = Banner(p, h)
      \/ a = Proved(p, zserver.mail, h) /\ h = "220" /\ zserver.mail # "odd"
  BY DEF MailReads
<1>3. zserver.mail \in {"smtp", "ftp", "odd"}
  BY DEF Server
<1>4. a \in Attempts
  <2>1. p \in Sockets /\ h \in Hearings \cup {"none"} /\ "none" \in Hearings \cup {"none"}
    BY <1>1 DEF Sockets, Probes
  <2>2. zserver.mail # "odd" => zserver.mail \in Protocols
    BY <1>3 DEF Protocols
  <2>3. "unknown" \in Protocols
    BY DEF Protocols
  <2>4. CASE a = Missed(p)
    BY <2>1, <2>3, <2>4, AttemptsAre DEF Attempts
  <2>5. CASE a = Banner(p, h)
    BY <2>1, <2>3, <2>5, AttemptsAre DEF Attempts
  <2>6. CASE a = Proved(p, zserver.mail, h) /\ zserver.mail # "odd"
    BY <2>1, <2>2, <2>6, AttemptsAre DEF Attempts
  <2> QED
    BY <1>2, <2>4, <2>5, <2>6
<1>5. Backed(a)
  BY <1>1, <1>2, <1>3, AttemptsAre DEF Backed
<1> QED
  BY <1>4, <1>5

\* An answer of the wave.
LEMMA WaveReads ==
  ASSUME zserver \in Server, NEW p \in WaveProbes, NEW a \in (IF p = "tls" THEN TlsReads ELSE RequestReads(p))
  PROVE  /\ a \in Attempts /\ a.probe = p /\ Backed(a)
         /\ Classified(a) => a.protocol = a.probe /\ (a.tls <=> a.probe = "tls")
<1>1. a = Missed(p) \/ a # Missed(p)
  OBVIOUS
<1>2. p \in Sockets /\ p \in Protocols /\ "unknown" \in Protocols
  BY DEF Sockets, Probes, WaveProbes, Protocols
<1>3. CASE a = Missed(p)
  BY <1>2, <1>3, AttemptsAre DEF Attempts, Backed, Classified
<1>4. CASE a # Missed(p) /\ p = "tls"
  <2>1. a \in {Missed("tls")} \cup (IF zserver.tls THEN {InsideTls(Proved("tls", "tls", "none"))} ELSE {})
    BY <1>4 DEF TlsReads
  <2>2. zserver.tls
    BY <1>4, <2>1
  <2>3. a = InsideTls(Proved("tls", "tls", "none"))
    BY <1>4, <2>1
  <2>4. a = [probe |-> "tls", protocol |-> "tls", banner |-> "none", tls |-> TRUE]
    BY <2>3, AttemptsAre
  <2>5. "tls" \in Sockets \cup {"none"} /\ "tls" \in Protocols /\ "none" \in Hearings \cup {"none"}
    BY <1>2, <1>4
  <2>6. a \in Attempts
    BY <2>4, <2>5 DEF Attempts
  <2>7. a.protocol = "tls" /\ a.probe = "tls" /\ a.tls
    BY <2>4
  <2>8. Backed(a)
    BY <2>2, <2>7 DEF Backed
  <2> QED
    BY <1>4, <2>6, <2>7, <2>8
<1>5. CASE a # Missed(p) /\ p # "tls"
  <2>1. a \in {Missed(p)} \cup (IF p \in zserver.answers THEN {Proved(p, p, "none")} ELSE {})
    BY <1>5 DEF RequestReads
  <2>2. p \in zserver.answers
    BY <1>5, <2>1
  <2>3. a = Proved(p, p, "none")
    BY <1>5, <2>1
  <2>4. a = [probe |-> p, protocol |-> p, banner |-> "none", tls |-> FALSE]
    BY <2>3, AttemptsAre
  <2>5. a \in Attempts
    BY <1>2, <2>4 DEF Attempts
  <2>6. a.protocol = p /\ a.probe = p /\ ~a.tls
    BY <2>4
  <2>7. Backed(a)
    BY <1>5, <2>2, <2>6 DEF Backed, WaveProbes
  <2> QED
    BY <1>5, <2>5, <2>6, <2>7
<1> QED
  BY <1>1, <1>3, <1>4, <1>5

LEMMA MissedIs ==
  ASSUME NEW p \in Sockets
  PROVE  Missed(p) \in Attempts /\ Missed(p).probe = p /\ Backed(Missed(p)) /\ ~Classified(Missed(p))
BY AttemptsAre DEF Attempts, Protocols, Backed, Classified

LEMMA BannerIs ==
  ASSUME NEW p \in Sockets, NEW h \in Hearings
  PROVE  /\ Banner(p, h) \in Attempts /\ Backed(Banner(p, h)) /\ ~Classified(Banner(p, h))
         /\ Banner(p, h).banner = h /\ h # "none"
BY AttemptsAre DEF Attempts, Protocols, Backed, Classified, Hearings, Greetings

LEMMA NoneIs == NoAttempt \in Attempts /\ Backed(NoAttempt) /\ ~Classified(NoAttempt) /\ NoAttempt.banner = "none"
BY AttemptsAre DEF Attempts, Protocols, Backed, Classified

LEMMA ComposedIs ==
  ASSUME zserver \in Server, Composes, zserver.tls
  PROVE  Composed \in Attempts /\ Backed(Composed) /\ Classified(Composed) /\ Composed.probe \in {"http", "smtp"} /\ Composed.tls
<1>1. zserver.inside \in {"http", "smtp"}
  BY DEF Composes
<1>2. PICK text : text = (IF zserver.inside = "smtp" THEN "220" ELSE "none")
  OBVIOUS
<1>3. Composed = [probe |-> zserver.inside, protocol |-> zserver.inside, banner |-> text, tls |-> TRUE]
  BY <1>2, AttemptsAre DEF Composed
<1>4. text \in Hearings \cup {"none"}
  BY <1>2 DEF Hearings, Greetings
<1> QED
  BY <1>1, <1>3, <1>4 DEF Attempts, Protocols, Sockets, Probes, WaveProbes, MailProbes, Backed, Classified

\* The plan of a task, and that it does not change.
LEMMA PlanIs ==
  ASSUME ServiceTypes
  PROVE  ServicePlan \in Seq(Probes) /\ IsInjective(ServicePlan) /\ Len(ServicePlan) <= 6 /\ Len(ServicePlan) \in Nat
<1>1. ztask.port \in Suggestions /\ ztask.level \in 1 .. 5
  BY DEF ServiceTypes
<1>2. PICK port \in Suggestions, level \in 1 .. 5 : port = ztask.port /\ level = ztask.level
  BY <1>1
<1>3. PlannedProbes(port, level) \in Seq(Probes) /\ IsInjective(PlannedProbes(port, level)) /\ Len(PlannedProbes(port, level)) <= 6
  BY PlanDistinct
<1>4. ServicePlan = PlannedProbes(port, level)
  BY <1>2 DEF ServicePlan
<1> QED
  BY <1>3, <1>4

LEMMA SurroundingsStay ==
  ASSUME ServiceNext
  PROVE  /\ ztask' = ztask /\ zserver' = zserver /\ ServicePlan' = ServicePlan /\ zphase # "done"
<1>1. ztask' = ztask /\ zserver' = zserver /\ zphase # "done"
  BY DEF ServiceNext, RefuseService, StopService, CancelledAt, EndService, BeginService, ObservePassive,
         SkipRest, JudgeGreeting, AskAlone, AloneAnswers, MailAnswers, LeaveToWave, LooksAt, MayLook,
         StartProbeWave, WaveConnects, WaveAnswers, JoinWave, Replay, Compose,
         NothingToAsk, FinishService, CancelProbe, TimeRuns
<1>2. ServicePlan' = ServicePlan
  BY <1>1 DEF ServicePlan
<1> QED
  BY <1>1, <1>2

-----------------------------------------------------------------------------
(* Every step keeps the invariant.                                           *)

LEMMA PhasesKept == ASSUME ServiceTypes, ServiceNext PROVE zphase' \in ServicePhases
<1>1. zphase \in ServicePhases
  BY DEF ServiceTypes
<1> QED
  BY <1>1 DEF ServicePhases, BeforeWave, ServiceNext, RefuseService, StopService, CancelledAt, EndService, BeginService, ObservePassive,
         SkipRest, JudgeGreeting, AskAlone, AloneAnswers, MailAnswers, LeaveToWave, LooksAt, MayLook,
         StartProbeWave, WaveConnects, WaveAnswers, JoinWave, Replay, Compose,
         NothingToAsk, FinishService, CancelProbe, TimeRuns

LEMMA WorldKept == ASSUME ServiceTypes, ServiceNext PROVE zworld' \in [cancelled : BOOLEAN, time : {"ample", "low", "over"}]
<1>1. zworld \in [cancelled : BOOLEAN, time : {"ample", "low", "over"}]
  BY DEF ServiceTypes
<1>2. \/ zworld' = zworld \/ zworld' = [zworld EXCEPT !.cancelled = TRUE]
      \/ zworld' = [zworld EXCEPT !.time = IF zworld.time = "ample" THEN "low" ELSE "over"]
  BY DEF ServiceNext, RefuseService, StopService, CancelledAt, EndService, BeginService, ObservePassive,
         SkipRest, JudgeGreeting, AskAlone, AloneAnswers, MailAnswers, LeaveToWave, LooksAt, MayLook,
         StartProbeWave, WaveConnects, WaveAnswers, JoinWave, Replay, Compose,
         NothingToAsk, FinishService, CancelProbe, TimeRuns
<1> QED
  BY <1>1, <1>2

\* A task that ends without a conclusion.
LEMMA EndedBare ==
  ASSUME RefuseService \/ StopService
  PROVE  /\ zphase' = "done" /\ zphase \in {"start", "judge", "mail", "replay", "final"}
         /\ zout'.how \in {"failed", "cancelled", "empty"} /\ ~ServiceConcluded'
         /\ UNCHANGED <<ztask, zscope, zserver, zworld, zheard, zleft, zwave, zthread, zmade, zfallback,
                        zwinner, zcut, zconns, zopened, zgaveup>>
<1>1. PICK how \in {"failed", "cancelled", "empty"} : EndService(how)
  BY DEF RefuseService, StopService, CancelledAt
<1>2. zphase \in {"start", "judge", "mail", "replay", "final"}
  BY DEF RefuseService, StopService, CancelledAt
<1>3. [NoConclusion EXCEPT !.how = how].how = how
  BY DEF NoConclusion
<1>4. zout'.how = how
  BY <1>1, <1>3 DEF EndService
<1> QED
  BY <1>1, <1>2, <1>4 DEF EndService, ServiceConcluded

\* What is left of the plan, and the wave.
LEMMA LeftKept ==
  ASSUME ServiceTypes, ServiceNext
  PROVE  zleft' \in Seq(Probes) /\ zwave' \in Seq(WaveProbes)
<1>1. zleft \in Seq(Probes) /\ zwave \in Seq(WaveProbes)
  BY DEF ServiceTypes
<1>2. \/ zleft' = zleft \/ zleft' = <<>> \/ zleft' = ServicePlan
      \/ zleft # <<>> /\ zleft' = Tail(zleft)
  BY DEF ServiceNext, RefuseService, StopService, CancelledAt, EndService, BeginService, ObservePassive,
         SkipRest, JudgeGreeting, AskAlone, AloneAnswers, MailAnswers, LeaveToWave, LooksAt, MayLook,
         StartProbeWave, WaveConnects, WaveAnswers, JoinWave, Replay, Compose,
         NothingToAsk, FinishService, CancelProbe, TimeRuns
<1>3. zwave' = zwave \/ \E p \in WaveProbes : zwave' = Append(zwave, p)
  BY DEF WaveProbes, ServiceNext, RefuseService, StopService, CancelledAt, EndService, BeginService, ObservePassive,
         SkipRest, JudgeGreeting, AskAlone, AloneAnswers, MailAnswers, LeaveToWave, LooksAt, MayLook,
         StartProbeWave, WaveConnects, WaveAnswers, JoinWave, Replay, Compose,
         NothingToAsk, FinishService, CancelProbe, TimeRuns
<1>4. ServicePlan \in Seq(Probes)
  BY PlanIs
<1>5. zleft' \in Seq(Probes)
  <2>1. <<>> \in Seq(Probes)
    OBVIOUS
  <2>2. zleft # <<>> => Tail(zleft) \in Seq(Probes)
    BY <1>1
  <2> QED
    BY <1>1, <1>2, <1>4, <2>1, <2>2
<1>6. zwave' \in Seq(WaveProbes)
  BY <1>1, <1>3
<1> QED
  BY <1>5, <1>6

LEMMA SocketsKept ==
  ASSUME ServiceTypes, ServiceThread, ServiceNext
  PROVE  zopened' \in Seq(Sockets) /\ zconns' \in Nat
<1>1. zopened \in Seq(Sockets) /\ zwave \in Seq(WaveProbes) /\ zconns \in Nat
  BY DEF ServiceTypes
<1>2. ToSet(zwave) \subseteq Sockets
  BY <1>1 DEF ToSet, Sockets, Probes
<1>3. \/ zopened' = zopened \/ zopened' = Append(zopened, "passive")
      \/ \E p \in {"ssh", "mysql", "ftp", "smtp"} : zopened' = Append(zopened, p)
      \/ \E p \in ToSet(zwave) : zopened' = Append(zopened, p)
  BY DEF Connects, ServiceNext, RefuseService, StopService, CancelledAt, EndService, BeginService, ObservePassive,
         SkipRest, JudgeGreeting, AskAlone, AloneAnswers, MailAnswers, LeaveToWave, LooksAt, MayLook,
         StartProbeWave, WaveConnects, WaveAnswers, JoinWave, Replay, Compose,
         NothingToAsk, FinishService, CancelProbe, TimeRuns
<1>4. zconns' = zconns \/ zconns' = zconns + 1
  BY DEF Connects, ServiceNext, RefuseService, StopService, CancelledAt, EndService, BeginService, ObservePassive,
         SkipRest, JudgeGreeting, AskAlone, AloneAnswers, MailAnswers, LeaveToWave, LooksAt, MayLook,
         StartProbeWave, WaveConnects, WaveAnswers, JoinWave, Replay, Compose,
         NothingToAsk, FinishService, CancelProbe, TimeRuns
<1>5. {"passive", "ssh", "mysql", "ftp", "smtp"} \subseteq Sockets
  BY DEF Sockets, Probes, AloneProbes, MailProbes
<1> QED
  BY <1>1, <1>2, <1>3, <1>4, <1>5

LEMMA FlagsKept ==
  ASSUME ServiceTypes, ServiceNext
  PROVE  /\ zcut' \in BOOLEAN /\ zgaveup' \in BOOLEAN
         /\ zout'.how \in {"none", "failed", "cancelled", "empty", "done"}
<1>1. zcut \in BOOLEAN /\ zgaveup \in BOOLEAN /\ zout.how \in {"none", "failed", "cancelled", "empty", "done"}
      /\ zworld.cancelled \in BOOLEAN
  BY DEF ServiceTypes
<1>2. zcut' \in BOOLEAN
  BY <1>1 DEF ServiceNext, RefuseService, StopService, CancelledAt, EndService, BeginService, ObservePassive,
         SkipRest, JudgeGreeting, AskAlone, AloneAnswers, MailAnswers, LeaveToWave, LooksAt, MayLook,
         StartProbeWave, WaveConnects, WaveAnswers, JoinWave, Replay, Compose,
         NothingToAsk, FinishService, CancelProbe, TimeRuns
<1>3. zgaveup' \in BOOLEAN
  BY <1>1 DEF Connects, Interrupted, ServiceNext, RefuseService, StopService, CancelledAt, EndService, BeginService, ObservePassive,
         SkipRest, JudgeGreeting, AskAlone, AloneAnswers, MailAnswers, LeaveToWave, LooksAt, MayLook,
         StartProbeWave, WaveConnects, WaveAnswers, JoinWave, Replay, Compose,
         NothingToAsk, FinishService, CancelProbe, TimeRuns
<1>4. zout' = zout \/ zout'.how \in {"failed", "cancelled", "empty", "done"}
  <2>1. \A how : [NoConclusion EXCEPT !.how = how].how = how
    BY DEF NoConclusion
  <2>2. CASE zout' = zout
    BY <2>2
  <2>3. CASE FinishService
    BY <2>3 DEF FinishService
  <2>4. CASE RefuseService \/ StopService
    <3>1. \E how \in {"failed", "cancelled", "empty"} : EndService(how)
      BY <2>4 DEF RefuseService, StopService, CancelledAt
    <3> QED
      BY <2>1, <3>1 DEF EndService
  <2>5. zout' = zout \/ FinishService \/ RefuseService \/ StopService
    BY DEF ServiceNext, BeginService, ObservePassive, SkipRest, JudgeGreeting, AskAlone, AloneAnswers, MailAnswers,
           LeaveToWave, StartProbeWave, WaveConnects, WaveAnswers, JoinWave, Replay, Compose, NothingToAsk,
           CancelProbe, TimeRuns
  <2> QED
    BY <2>2, <2>3, <2>4, <2>5
<1> QED
  BY <1>1, <1>2, <1>3, <1>4

\* The answers in the order of the plan.
LEMMA ReplayedIs ==
  ASSUME ServiceTypes, ServiceThread, ServiceWave, zphase = "replay"
  PROVE  /\ DOMAIN Replayed = 1 .. Len(zwave) /\ DOMAIN zwave = 1 .. Len(zwave) /\ Len(zwave) \in Nat
         /\ \A i \in 1 .. Len(zwave) : \E k \in DOMAIN zthread : Replayed[i] = zthread[k] /\ zthread[k].probe = zwave[i]
         /\ \A k \in DOMAIN zthread : zthread[k] \in Attempts /\ WaveAnswer(zthread[k])
<1>1. zthread \in Seq(Attempts) /\ zwave \in Seq(WaveProbes)
  BY DEF ServiceTypes, ServiceThread
<1>2. DOMAIN zwave = 1 .. Len(zwave) /\ Len(zwave) \in Nat
  BY <1>1
<1>3. \A k \in DOMAIN zthread : zthread[k] \in Attempts /\ WaveAnswer(zthread[k])
  BY <1>1 DEF ServiceWave
<1>4. DOMAIN Replayed = 1 .. Len(zwave)
  BY DEF Replayed
<1>5. ASSUME NEW i \in 1 .. Len(zwave)
      PROVE  \E k \in DOMAIN zthread : Replayed[i] = zthread[k] /\ zthread[k].probe = zwave[i]
  <2>1. \E k \in DOMAIN zthread : zthread[k].probe = zwave[i]
    BY <1>2 DEF ServiceWave, AllAnswered
  <2>2. Replayed[i] = zthread[CHOOSE k \in DOMAIN zthread : zthread[k].probe = zwave[i]]
    BY DEF Replayed
  <2> QED
    BY <2>1, <2>2
<1> QED
  BY <1>2, <1>3, <1>4, <1>5

\* The first of some attempts that holds a banner, and that is classified.
LEMMA FirstBanner ==
  ASSUME NEW n \in Nat, NEW s, DOMAIN s = 1 .. n
  PROVE  \/ FirstWith(s, HoldsBanner) = NoAttempt
         \/ \E i \in 1 .. n : FirstWith(s, HoldsBanner) = s[i] /\ HoldsBanner(s[i])
<1> DEFINE T == {i \in 1 .. n : HoldsBanner(s[i])}
           First(i) == i \in DOMAIN s /\ HoldsBanner(s[i]) /\ \A k \in 1 .. (i - 1) : ~HoldsBanner(s[k])
<1>1. CASE T = {}
  <2>1. ~ \E i \in DOMAIN s : HoldsBanner(s[i])
    BY <1>1
  <2> QED
    BY <2>1 DEF FirstWith
<1>2. CASE T # {}
  <2>1. T \subseteq Nat
    OBVIOUS
  <2>2. PICK i \in T : \A k \in T : i <= k
    BY <1>2, <2>1, Smallest
  <2>3. First(i)
    BY <2>2
  <2>4. First(CHOOSE j : First(j))
    BY <2>3
  <2>5. PICK j : j = (CHOOSE m \in DOMAIN s : HoldsBanner(s[m]) /\ \A k \in 1 .. (m - 1) : ~HoldsBanner(s[k]))
    OBVIOUS
  <2>6. j \in DOMAIN s /\ HoldsBanner(s[j])
    BY <2>3, <2>5
  <2>7. FirstWith(s, HoldsBanner) = s[j]
    BY <1>2, <2>5 DEF FirstWith
  <2> QED
    BY <2>6, <2>7
<1> QED
  BY <1>1, <1>2

LEMMA FirstClassified ==
  ASSUME NEW n \in Nat, NEW s, DOMAIN s = 1 .. n
  PROVE  \/ FirstWith(s, Classified) = NoAttempt
         \/ \E i \in 1 .. n : /\ FirstWith(s, Classified) = s[i] /\ Classified(s[i])
                              /\ \A k \in 1 .. (i - 1) : ~Classified(s[k])
<1> DEFINE T == {i \in 1 .. n : Classified(s[i])}
           First(i) == i \in DOMAIN s /\ Classified(s[i]) /\ \A k \in 1 .. (i - 1) : ~Classified(s[k])
<1>1. CASE T = {}
  <2>1. ~ \E i \in DOMAIN s : Classified(s[i])
    BY <1>1
  <2> QED
    BY <2>1 DEF FirstWith
<1>2. CASE T # {}
  <2>1. T \subseteq Nat
    OBVIOUS
  <2>2. PICK i \in T : \A k \in T : i <= k
    BY <1>2, <2>1, Smallest
  <2>3. First(i)
    BY <2>2
  <2>4. PICK j : j = (CHOOSE m \in DOMAIN s : Classified(s[m]) /\ \A k \in 1 .. (m - 1) : ~Classified(s[k]))
    OBVIOUS
  <2>5. j \in DOMAIN s /\ Classified(s[j]) /\ \A k \in 1 .. (j - 1) : ~Classified(s[k])
    BY <2>3, <2>4
  <2>6. FirstWith(s, Classified) = s[j]
    BY <1>2, <2>4 DEF FirstWith
  <2> QED
    BY <2>5, <2>6
<1> QED
  BY <1>1, <1>2

LEMMA HearsNowIs ==
  ASSUME NEW p
  PROVE  HearsNow(p) \subseteq Hears
BY DEF HearsNow, Hears

\* What becomes the fallback, and the winner, claims what the server proved.
LEMMA FallbackKept ==
  ASSUME ServiceTypes, ServiceThread, ServiceWave, ServiceEvidence, ServiceNext
  PROVE  zfallback' \in Attempts /\ Backed(zfallback')
<1>1. zfallback \in Attempts /\ Backed(zfallback) /\ zserver \in Server /\ zheard \in Hearings
  BY DEF ServiceTypes, ServiceEvidence
<1>2. CASE zfallback' = zfallback
  BY <1>1, <1>2
<1>3. CASE JudgeGreeting
  <2>1. PICK p \in {"generic", "ssh", "mysql", "ftp", "smtp"} : Records(IF zheard = "silence" THEN Missed(p) ELSE Banner(p, zheard))
    BY <1>3 DEF JudgeGreeting
  <2>2. p \in Sockets
    BY DEF Sockets, Probes, AloneProbes, MailProbes
  <2>3. Missed(p) \in Attempts /\ Backed(Missed(p)) /\ Banner(p, zheard) \in Attempts /\ Backed(Banner(p, zheard))
    BY <1>1, <2>2, MissedIs, BannerIs
  <2>4. zfallback' \in {zfallback, Missed(p), Banner(p, zheard)}
    BY <2>1 DEF Records
  <2> QED
    BY <1>1, <2>3, <2>4
<1>4. CASE AloneAnswers
  <2>1. PICK h \in HearsNow(zthread[1]) : Records(IF zthread[1] = "ssh" THEN SshReads(h) ELSE MysqlReads(h))
    BY <1>4 DEF AloneAnswers
  <2>2. h \in Hears
    BY <2>1, HearsNowIs
  <2>3. SshReads(h) \in Attempts /\ Backed(SshReads(h)) /\ MysqlReads(h) \in Attempts /\ Backed(MysqlReads(h))
    BY <1>1, <2>2, AloneReads
  <2>4. zfallback' \in {zfallback, SshReads(h), MysqlReads(h)}
    BY <2>1 DEF Records
  <2> QED
    BY <1>1, <2>3, <2>4
<1>5. CASE MailAnswers
  <2>1. PICK h \in HearsNow(zthread[1]) : \E a \in MailReads(zthread[1], h) : zfallback' \in {zfallback, a}
    BY <1>5 DEF MailAnswers
  <2>2. PICK a \in MailReads(zthread[1], h) : zfallback' \in {zfallback, a}
    BY <2>1
  <2>3. h \in Hears /\ zthread[1] \in MailProbes
    BY <1>5, <2>1, HearsNowIs DEF MailAnswers, ServiceThread
  <2>4. a \in Attempts /\ Backed(a)
    BY <1>1, <2>2, <2>3, MailReadsIs
  <2> QED
    BY <1>1, <2>2, <2>4
<1>6. CASE Replay
  <2>1. zphase = "replay" /\ zfallback' \in {zfallback, FirstWith(Replayed, HoldsBanner)}
    BY <1>6 DEF Replay
  <2>2. /\ DOMAIN Replayed = 1 .. Len(zwave) /\ Len(zwave) \in Nat
        /\ \A i \in 1 .. Len(zwave) : Replayed[i] \in Attempts /\ Backed(Replayed[i])
    BY <2>1, ReplayedIs DEF WaveAnswer
  <2>3. FirstWith(Replayed, HoldsBanner) \in Attempts /\ Backed(FirstWith(Replayed, HoldsBanner))
    BY <2>2, FirstBanner, NoneIs
  <2> QED
    BY <1>1, <2>1, <2>3
<1> QED
  BY <1>2, <1>3, <1>4, <1>5, <1>6
     DEF ServiceNext, RefuseService, StopService, CancelledAt, EndService, BeginService, ObservePassive,
         SkipRest, AskAlone, LeaveToWave, StartProbeWave, WaveConnects, WaveAnswers, JoinWave, Compose,
         NothingToAsk, FinishService, CancelProbe, TimeRuns

LEMMA WinnerKept ==
  ASSUME ServiceTypes, ServiceThread, ServiceWave, ServiceEvidence, ServiceNext
  PROVE  zwinner' \in Attempts /\ Backed(zwinner')
<1>1. zwinner \in Attempts /\ Backed(zwinner) /\ zserver \in Server
  BY DEF ServiceTypes, ServiceEvidence
<1>2. CASE zwinner' = zwinner
  BY <1>1, <1>2
<1>3. CASE ObservePassive /\ zwinner' # zwinner
  <2>1. PICK h \in {"ssh", "mysql"} : h \in Hears /\ zwinner' = Proved("passive", h, h)
    <3>1. PICK h \in IF Contains(zopened, "passive") THEN Hears ELSE {"silence"} :
            h \in {"ssh", "mysql"} /\ zwinner' = Proved("passive", h, h)
      BY <1>3 DEF ObservePassive
    <3>2. h \in Hears
      BY <3>1 DEF Hears
    <3> QED
      BY <3>1, <3>2
  <2>2. zserver.first = h
    BY <1>1, <2>1, HearsIs
  <2>3. zwinner' = [probe |-> "passive", protocol |-> h, banner |-> h, tls |-> FALSE]
    BY <2>1, AttemptsAre
  <2>4. zwinner' \in Attempts
    <3>1. "passive" \in Sockets \cup {"none"} /\ h \in Protocols /\ h \in Hearings \cup {"none"}
      BY <2>1 DEF Sockets, Protocols, Hearings, Greetings
    <3> QED
      BY <2>3, <3>1 DEF Attempts
  <2>5. zwinner'.protocol = h
    BY <2>3
  <2>6. Backed(zwinner')
    BY <2>1, <2>2, <2>5 DEF Backed
  <2> QED
    BY <2>4, <2>6
<1>4. CASE MailAnswers
  <2>1. PICK h \in HearsNow(zthread[1]) : \E a \in MailReads(zthread[1], h) : zwinner' \in {zwinner, a}
    BY <1>4 DEF MailAnswers
  <2>2. PICK a \in MailReads(zthread[1], h) : zwinner' \in {zwinner, a}
    BY <2>1
  <2>3. h \in Hears /\ zthread[1] \in MailProbes
    BY <1>4, <2>1, HearsNowIs DEF MailAnswers, ServiceThread
  <2>4. a \in Attempts /\ Backed(a)
    BY <1>1, <2>2, <2>3, MailReadsIs
  <2> QED
    BY <1>1, <2>2, <2>4
<1>5. CASE Replay
  <2>1. zphase = "replay" /\ zwinner' = FirstWith(Replayed, Classified)
    BY <1>5 DEF Replay
  <2>2. /\ DOMAIN Replayed = 1 .. Len(zwave) /\ Len(zwave) \in Nat
        /\ \A i \in 1 .. Len(zwave) : Replayed[i] \in Attempts /\ Backed(Replayed[i])
    BY <2>1, ReplayedIs DEF WaveAnswer
  <2>3. FirstWith(Replayed, Classified) \in Attempts /\ Backed(FirstWith(Replayed, Classified))
    <3>1. PICK n, s : n = Len(zwave) /\ s = Replayed /\ n \in Nat
      BY <2>2
    <3>2. \/ FirstWith(s, Classified) = NoAttempt
          \/ \E i \in 1 .. n : FirstWith(s, Classified) = s[i]
      BY <2>2, <3>1, FirstClassified
    <3>3. \A i \in 1 .. n : s[i] \in Attempts /\ Backed(s[i])
      BY <2>2, <3>1
    <3> QED
      BY <3>1, <3>2, <3>3, NoneIs
  <2> QED
    BY <2>1, <2>3
<1>6. CASE Compose /\ zwinner' # zwinner
  <2>1. zwinner' = Composed /\ Composes /\ zphase = "compose"
    BY <1>6 DEF Compose
  <2>2. zserver.tls
    BY <2>1 DEF ServiceWave
  <2> QED
    BY <1>1, <2>1, <2>2, ComposedIs
<1> QED
  BY <1>2, <1>3, <1>4, <1>5, <1>6
     DEF ServiceNext, RefuseService, StopService, CancelledAt, EndService, BeginService,
         SkipRest, JudgeGreeting, Records, AskAlone, AloneAnswers, LeaveToWave, StartProbeWave, WaveConnects,
         WaveAnswers, JoinWave, NothingToAsk, FinishService, CancelProbe, TimeRuns

LEMMA EvidenceKept ==
  ASSUME ServiceTypes, ServiceThread, ServiceWave, ServiceEvidence, ServiceNext
  PROVE  ServiceEvidence'
<1>1. Backed(zfallback') /\ Backed(zwinner')
  BY FallbackKept, WinnerKept
<1>2. zserver' = zserver
  BY SurroundingsStay
<1> QED
  BY <1>1, <1>2 DEF ServiceEvidence, Backed

LEMMA HeardTypeKept == ASSUME ServiceTypes, ServiceNext PROVE zheard' \in Hearings
<1>1. zheard \in Hearings /\ zserver \in Server
  BY DEF ServiceTypes
<1>2. CASE ObservePassive
  <2>1. \E h \in IF Contains(zopened, "passive") THEN Hears ELSE {"silence"} : zheard' = h
    BY <1>2 DEF ObservePassive
  <2>2. Hears \subseteq Hearings /\ "silence" \in Hearings
    BY <1>1, HearsIs DEF Hearings, Greetings
  <2> QED
    BY <2>1, <2>2
<1>3. ObservePassive \/ zheard' = zheard
  BY DEF ServiceNext, RefuseService, StopService, CancelledAt, EndService, BeginService,
         SkipRest, JudgeGreeting, AskAlone, AloneAnswers, MailAnswers, LeaveToWave,
         StartProbeWave, WaveConnects, WaveAnswers, JoinWave, Replay, Compose,
         NothingToAsk, FinishService, CancelProbe, TimeRuns
<1> QED
  BY <1>1, <1>2, <1>3

LEMMA TypesKept ==
  ASSUME ServiceTypes, ServiceThread, ServiceWave, ServiceEvidence, ServiceNext
  PROVE  ServiceTypes'
<1>1. ztask' = ztask /\ zserver' = zserver
  BY SurroundingsStay
<1>2. ztask' \in [port : Suggestions, level : 1 .. 5, context : BOOLEAN] /\ zserver' \in Server
  BY <1>1 DEF ServiceTypes
<1>3. zworld' \in [cancelled : BOOLEAN, time : {"ample", "low", "over"}] /\ zphase' \in ServicePhases /\ zheard' \in Hearings
  BY WorldKept, PhasesKept, HeardTypeKept
<1>4. zleft' \in Seq(Probes) /\ zwave' \in Seq(WaveProbes) /\ zopened' \in Seq(Sockets) /\ zconns' \in Nat
  BY LeftKept, SocketsKept
<1>5. zfallback' \in Attempts /\ zwinner' \in Attempts
  BY FallbackKept, WinnerKept
<1>6. zcut' \in BOOLEAN /\ zgaveup' \in BOOLEAN /\ zout'.how \in {"none", "failed", "cancelled", "empty", "done"}
  BY FlagsKept
<1> QED
  BY <1>2, <1>3, <1>4, <1>5, <1>6 DEF ServiceTypes

LEMMA ThreadKept ==
  ASSUME ServiceTypes, ServiceThread, ServiceNext
  PROVE  ServiceThread'
<1>2. CASE RefuseService
  BY <1>2, EndedBare DEF ServiceThread
<1>3. CASE StopService
  BY <1>3, EndedBare DEF ServiceThread
<1>4. CASE BeginService
  BY <1>4 DEF BeginService, Connects, ServiceThread, ServiceConcluded
<1>5. CASE ObservePassive
  BY <1>5 DEF ObservePassive, Interrupted, ServiceThread, ServiceConcluded
<1>6. CASE SkipRest
  BY <1>6 DEF SkipRest, MayLook, ServiceThread, ServiceConcluded
<1>7. CASE JudgeGreeting
  BY <1>7 DEF JudgeGreeting, LooksAt, MayLook, Records, ServiceThread, ServiceConcluded
<1>8. CASE AskAlone
  <2>1. PICK p \in {"ssh", "mysql", "ftp", "smtp"} :
          zthread' = <<p>> /\ zphase' = IF p \in {"ssh", "mysql"} THEN "alone" ELSE "mail"
    BY <1>8 DEF AskAlone
  <2>2. zthread'[1] = p
    BY <2>1
  <2> QED
    BY <2>1, <2>2 DEF ServiceThread, ServiceConcluded, AloneProbes, MailProbes
<1>9. CASE AloneAnswers
  BY <1>9 DEF AloneAnswers, Interrupted, Records, ServiceThread, ServiceConcluded
<1>10. CASE MailAnswers
  BY <1>10 DEF MailAnswers, Interrupted, ServiceThread, ServiceConcluded
<1>11. CASE LeaveToWave
  BY <1>11 DEF LeaveToWave, LooksAt, MayLook, ServiceThread, ServiceConcluded
<1>12. CASE StartProbeWave
  BY <1>12 DEF StartProbeWave, ServiceThread, ServiceConcluded
<1>13. CASE WaveConnects
  <2>1. PICK p \in ToSet(zwave) : zthread' = zthread \/ zthread' = Append(zthread, Missed(p))
    BY <1>13 DEF WaveConnects
  <2>2. zphase = "wave" /\ zphase' = zphase
    BY <1>13 DEF WaveConnects
  <2>3. p \in Sockets
    BY <2>1 DEF ServiceTypes, ToSet, Sockets, Probes
  <2>4. Missed(p) \in Attempts
    BY <2>3, MissedIs
  <2>5. zthread' \in Seq(Attempts)
    BY <2>1, <2>2, <2>4 DEF ServiceThread
  <2> QED
    BY <2>2, <2>5 DEF ServiceThread, ServiceConcluded
<1>14. CASE WaveAnswers
  <2>1. PICK p \in ToSet(zwave) : \E a \in IF p = "tls" THEN TlsReads ELSE RequestReads(p) : zthread' = Append(zthread, a)
    BY <1>14 DEF WaveAnswers
  <2>2. PICK a \in IF p = "tls" THEN TlsReads ELSE RequestReads(p) : zthread' = Append(zthread, a)
    BY <2>1
  <2>3. zphase = "wave" /\ zphase' = zphase
    BY <1>14 DEF WaveAnswers
  <2>4. p \in WaveProbes /\ zserver \in Server
    BY <2>1 DEF ServiceTypes, ToSet
  <2>5. a \in Attempts
    BY <2>2, <2>4, WaveReads
  <2>6. zthread' \in Seq(Attempts)
    BY <2>2, <2>3, <2>5 DEF ServiceThread
  <2> QED
    BY <2>3, <2>6 DEF ServiceThread, ServiceConcluded
<1>15. CASE JoinWave
  BY <1>15 DEF JoinWave, ServiceThread, ServiceConcluded
<1>16. CASE Replay
  BY <1>16 DEF Replay, ServiceThread, ServiceConcluded
<1>17. CASE Compose
  BY <1>17 DEF Compose, Interrupted, ServiceThread, ServiceConcluded
<1>18. CASE NothingToAsk
  BY <1>18 DEF NothingToAsk, ServiceThread, ServiceConcluded
<1>19. CASE FinishService
  BY <1>19 DEF FinishService, ServiceThread, ServiceConcluded
<1>20. CASE CancelProbe
  BY <1>20 DEF CancelProbe, ServiceThread, ServiceConcluded
<1>21. CASE TimeRuns
  BY <1>21 DEF TimeRuns, ServiceThread, ServiceConcluded
<1> QED
  BY <1>2, <1>3, <1>4, <1>5, <1>6, <1>7, <1>8, <1>9, <1>10, <1>11, <1>12, <1>13, <1>14, <1>15, <1>16, <1>17, <1>18, <1>19, <1>20, <1>21 DEF ServiceNext

\* The next probe to look at leaves the row.
LEMMA LookIs ==
  ASSUME ServiceTypes, ServiceRows, NEW p, LooksAt(p)
  PROVE  /\ p \in Probes /\ p \in ToSet(zleft) /\ zphase = "judge" /\ ~zworld.cancelled
         /\ zleft' \in Seq(Probes) /\ IsInjective(zleft') /\ ToSet(zleft') = ToSet(zleft) \ {p}
         /\ Len(zleft') = Len(zleft) - 1 /\ Len(zleft) \in Nat
<1>1. zleft \in Seq(Probes) /\ zleft # <<>> /\ p = Head(zleft) /\ zleft' = Tail(zleft) /\ IsInjective(zleft)
  BY DEF LooksAt, MayLook, ServiceTypes, ServiceRows
<1>2. Head(zleft) \in ToSet(zleft) /\ ToSet(Tail(zleft)) = ToSet(zleft) \ {Head(zleft)} /\ IsInjective(Tail(zleft))
  BY <1>1, TailElements
<1>3. Tail(zleft) \in Seq(Probes) /\ Len(Tail(zleft)) = Len(zleft) - 1 /\ Len(zleft) \in Nat /\ Head(zleft) \in Probes
  BY <1>1
<1> QED
  BY <1>1, <1>2, <1>3 DEF LooksAt, MayLook

LEMMA RowsQuiet ==
  ASSUME ServiceRows, UNCHANGED <<zleft, zwave, zopened>>, zphase' # "start" \/ zphase = "start",
         zphase' \in BeforeWave => zphase \in BeforeWave,
         zphase' \in {"start", "passive"} => zphase' = zphase /\ zheard' = zheard
  PROVE  ServiceRows'
BY DEF ServiceRows

LEMMA RowsKept ==
  ASSUME ServiceTypes, ServiceRows, ServiceNext
  PROVE  ServiceRows'
<1>1. /\ zleft \in Seq(Probes) /\ zwave \in Seq(WaveProbes) /\ zopened \in Seq(Sockets)
      /\ IsInjective(zleft) /\ IsInjective(zwave) /\ IsInjective(zopened)
      /\ ToSet(zleft) \cap ToSet(zwave) = {}
  BY DEF ServiceTypes, ServiceRows
<1>2. CASE RefuseService
  BY <1>2, EndedBare, RowsQuiet DEF BeforeWave
<1>3. CASE StopService
  BY <1>3, EndedBare, RowsQuiet DEF BeforeWave
<1>4. CASE BeginService
  <2>1. zphase = "start" /\ zleft' = ServicePlan /\ zwave' = zwave /\ zheard' = zheard /\ zphase' \in {"passive", "judge"}
        /\ (zopened' = zopened \/ zopened' = Append(zopened, "passive"))
    BY <1>4 DEF BeginService, Connects
  <2>2. zopened = <<>> /\ zwave = <<>> /\ zheard = "unasked"
    BY <2>1 DEF ServiceRows
  <2>3. zopened' = <<>> \/ zopened' = <<"passive">>
    BY <2>1, <2>2
  <2>4. /\ ToSet(<<>>) = {} /\ IsInjective(<<>>)
    BY EmptyElements
  <2>5. ToSet(<<"passive">>) = {"passive"} /\ IsInjective(<<"passive">>)
    BY DEF ToSet, IsInjective
  <2>6. ToSet(zopened') \subseteq {"passive"} /\ IsInjective(zopened')
    BY <2>3, <2>4, <2>5
  <2>7. ServicePlan \in Seq(Probes) /\ IsInjective(ServicePlan)
    BY PlanIs
  <2>8. "passive" \notin ToSet(ServicePlan)
    BY <2>7 DEF ToSet, Probes, AloneProbes, MailProbes, WaveProbes
  <2>9. IsInjective(zleft') /\ IsInjective(zwave') /\ ToSet(zwave') = {} /\ zwave' = <<>>
    BY <2>1, <2>2, <2>4, <2>7
  <2>10. ToSet(zleft') = ToSet(ServicePlan)
    BY <2>1
  <2> QED
    BY <2>1, <2>2, <2>6, <2>8, <2>9, <2>10 DEF ServiceRows, BeforeWave
<1>5. CASE ObservePassive
  BY <1>5, RowsQuiet DEF BeforeWave, ObservePassive, Interrupted
<1>6. CASE SkipRest
  <2>1. zleft' = <<>> /\ zwave' = zwave /\ zopened' = zopened /\ zphase = "judge" /\ zphase' = zphase
    BY <1>6 DEF SkipRest, MayLook
  <2>2. ToSet(zleft') = {} /\ IsInjective(zleft')
    BY <2>1, EmptyElements
  <2> QED
    BY <1>1, <2>1, <2>2 DEF ServiceRows, BeforeWave
<1>7. CASE JudgeGreeting
  <2>1. PICK p : LooksAt(p)
    BY <1>7 DEF JudgeGreeting
  <2>2. zwave' = zwave /\ zopened' = zopened /\ zphase' = zphase
    BY <1>7 DEF JudgeGreeting
  <2>3. zphase = "judge" /\ IsInjective(zleft') /\ ToSet(zleft') = ToSet(zleft) \ {p}
    BY <2>1, LookIs
  <2> QED
    BY <1>1, <2>2, <2>3 DEF ServiceRows, BeforeWave
<1>8. CASE AskAlone
  <2>1. PICK p : LooksAt(p) /\ (zopened' = zopened \/ zopened' = Append(zopened, p)) /\ zphase' \in {"alone", "mail"}
    BY <1>8 DEF AskAlone, Connects
  <2>2. zwave' = zwave
    BY <1>8 DEF AskAlone
  <2>3. p \in ToSet(zleft) /\ p \in Probes /\ zphase = "judge" /\ IsInjective(zleft') /\ ToSet(zleft') = ToSet(zleft) \ {p}
    BY <2>1, LookIs
  <2>4. p \in Sockets /\ p \notin ToSet(zopened) /\ p \notin ToSet(zwave)
        /\ ToSet(zopened) \cap (ToSet(zleft) \cup ToSet(zwave)) = {}
    BY <1>1, <2>3 DEF ServiceRows, BeforeWave, Sockets
  <2>5. ToSet(Append(zopened, p)) = ToSet(zopened) \cup {p} /\ IsInjective(Append(zopened, p))
    BY <1>1, <2>4, AppendElements
  <2>6. IsInjective(zopened') /\ ToSet(zopened') \subseteq ToSet(zopened) \cup {p}
    BY <1>1, <2>1, <2>5
  <2> QED
    BY <1>1, <2>1, <2>2, <2>3, <2>4, <2>6 DEF ServiceRows, BeforeWave
<1>9. CASE AloneAnswers
  BY <1>9, RowsQuiet DEF BeforeWave, AloneAnswers, Interrupted, Records
<1>10. CASE MailAnswers
  BY <1>10, RowsQuiet DEF BeforeWave, MailAnswers, Interrupted
<1>11. CASE LeaveToWave
  <2>1. PICK p \in WaveProbes : LooksAt(p) /\ zwave' = Append(zwave, p)
    BY <1>11 DEF LeaveToWave, WaveProbes
  <2>2. zopened' = zopened /\ zphase' = zphase
    BY <1>11 DEF LeaveToWave
  <2>3. p \in ToSet(zleft) /\ zphase = "judge" /\ IsInjective(zleft') /\ ToSet(zleft') = ToSet(zleft) \ {p}
    BY <2>1, LookIs
  <2>4. p \notin ToSet(zwave) /\ ToSet(zopened) \cap (ToSet(zleft) \cup ToSet(zwave)) = {}
    BY <1>1, <2>3 DEF ServiceRows, BeforeWave
  <2>5. ToSet(zwave') = ToSet(zwave) \cup {p} /\ IsInjective(zwave')
    BY <1>1, <2>1, <2>4, AppendElements
  <2> QED
    BY <1>1, <2>2, <2>3, <2>4, <2>5 DEF ServiceRows, BeforeWave
<1>12. CASE StartProbeWave
  BY <1>12, RowsQuiet DEF BeforeWave, StartProbeWave
<1>13. CASE WaveConnects
  <2>1. PICK p \in ToSet(zwave) : ~AskedFor(p) /\ (zopened' = zopened \/ zopened' = Append(zopened, p))
    BY <1>13 DEF WaveConnects, Connects
  <2>2. zphase = "wave" /\ UNCHANGED <<zphase, zleft, zwave>>
    BY <1>13 DEF WaveConnects
  <2>3. p \notin ToSet(zopened)
    BY <1>1, <2>1 DEF AskedFor, Contains, ToSet
  <2>4. p \in Sockets
    BY <1>1, <2>1 DEF ToSet, Sockets, Probes
  <2>5. IsInjective(Append(zopened, p))
    BY <1>1, <2>3, <2>4, AppendElements
  <2>6. IsInjective(zopened')
    BY <1>1, <2>1, <2>5
  <2> QED
    BY <1>1, <2>2, <2>6 DEF ServiceRows, BeforeWave
<1>14. CASE WaveAnswers
  BY <1>14, RowsQuiet DEF BeforeWave, WaveAnswers
<1>15. CASE JoinWave
  BY <1>15, RowsQuiet DEF BeforeWave, JoinWave
<1>16. CASE Replay
  BY <1>16, RowsQuiet DEF BeforeWave, Replay
<1>17. CASE Compose
  BY <1>17, RowsQuiet DEF BeforeWave, Compose, Interrupted
<1>18. CASE NothingToAsk
  BY <1>18, RowsQuiet DEF BeforeWave, NothingToAsk
<1>19. CASE FinishService
  BY <1>19, RowsQuiet DEF BeforeWave, FinishService
<1>20. CASE CancelProbe
  BY <1>20, RowsQuiet DEF BeforeWave, CancelProbe
<1>21. CASE TimeRuns
  BY <1>21, RowsQuiet DEF BeforeWave, TimeRuns
<1> QED
  BY <1>2, <1>3, <1>4, <1>5, <1>6, <1>7, <1>8, <1>9, <1>10, <1>11, <1>12, <1>13, <1>14, <1>15, <1>16, <1>17, <1>18, <1>19, <1>20, <1>21 DEF ServiceNext

\* What was heard, and what is asked after it.
LEMMA HeardKept ==
  ASSUME ServiceTypes, ServiceRows, ServiceHeard, ServiceNext
  PROVE  ServiceHeard'
<1>1. zopened \in Seq(Sockets) /\ zwave \in Seq(WaveProbes)
  BY DEF ServiceTypes
<1>2. CASE zopened' = zopened /\ zheard' = zheard
  BY <1>2 DEF ServiceHeard
<1>3. CASE BeginService
  <2>1. zopened = <<>>
    BY <1>3 DEF BeginService, ServiceRows
  <2>2. zopened' = <<>> \/ zopened' = <<"passive">>
    BY <1>3, <2>1 DEF BeginService, Connects
  <2>3. ToSet(zopened') \subseteq {"passive"}
    BY <2>2 DEF ToSet
  <2> QED
    BY <2>3 DEF ServiceHeard, AloneProbes, MailProbes
<1>4. CASE ObservePassive
  <2>1. zopened' = zopened /\ ToSet(zopened) \subseteq {"passive"}
    BY <1>4 DEF ObservePassive, ServiceRows
  <2> QED
    BY <2>1 DEF ServiceHeard, AloneProbes, MailProbes
<1>5. CASE AskAlone
  <2>1. PICK p \in {"ssh", "mysql", "ftp", "smtp"} :
          /\ IF p \in {"ssh", "mysql"} THEN zheard = "unasked" ELSE MailJustified
          /\ zopened' = zopened \/ zopened' = Append(zopened, p)
    BY <1>5 DEF AskAlone, Connects
  <2>2. zheard' = zheard
    BY <1>5 DEF AskAlone
  <2>3. p \in Sockets
    BY DEF Sockets, Probes, AloneProbes, MailProbes
  <2>4. ToSet(zopened') \subseteq ToSet(zopened) \cup {p}
    <3>1. ToSet(Append(zopened, p)) = ToSet(zopened) \cup {p}
      BY <1>1, <2>3, AppendMembers
    <3> QED
      BY <2>1, <3>1
  <2> QED
    BY <2>1, <2>2, <2>4 DEF ServiceHeard, AloneProbes, MailProbes, MailJustified
<1>6. CASE WaveConnects
  <2>1. PICK p \in ToSet(zwave) : zopened' = zopened \/ zopened' = Append(zopened, p)
    BY <1>6 DEF WaveConnects, Connects
  <2>2. zheard' = zheard
    BY <1>6 DEF WaveConnects
  <2>3. p \in Sockets /\ p \in WaveProbes
    BY <1>1, <2>1 DEF ToSet, Sockets, Probes
  <2>4. ToSet(zopened') \subseteq ToSet(zopened) \cup {p}
    <3>1. ToSet(Append(zopened, p)) = ToSet(zopened) \cup {p}
      BY <1>1, <2>3, AppendMembers
    <3> QED
      BY <2>1, <3>1
  <2> QED
    BY <2>2, <2>3, <2>4 DEF ServiceHeard, AloneProbes, MailProbes, WaveProbes
<1> QED
  BY <1>2, <1>3, <1>4, <1>5, <1>6
     DEF ServiceNext, RefuseService, StopService, CancelledAt, EndService, SkipRest, JudgeGreeting,
         AloneAnswers, MailAnswers, LeaveToWave, StartProbeWave, WaveAnswers, JoinWave, Replay, Compose,
         NothingToAsk, FinishService, CancelProbe, TimeRuns

\* The probes of the wave still to be asked.
LEMMA UnaskedFew ==
  ASSUME ServiceTypes
  PROVE  IsFiniteSet(Unasked) /\ Cardinality(Unasked) \in Nat /\ Cardinality(Unasked) <= Len(zwave)
<1>1. zwave \in Seq(WaveProbes)
  BY DEF ServiceTypes
<1>2. IsFiniteSet(ToSet(zwave)) /\ Cardinality(ToSet(zwave)) \in Nat /\ Cardinality(ToSet(zwave)) <= Len(zwave)
  BY <1>1, MembersFew
<1>3. Unasked \subseteq ToSet(zwave)
  BY DEF Unasked
<1>4. IsFiniteSet(Unasked) /\ Cardinality(Unasked) <= Cardinality(ToSet(zwave))
  BY <1>2, <1>3, FS_Subset
<1>5. Cardinality(Unasked) \in Nat
  BY <1>4, FS_CardinalityType
<1> QED
  BY <1>1, <1>2, <1>4, <1>5

\* The wave's rows only grow.
LEMMA AskedStays ==
  ASSUME ServiceTypes, ServiceThread, zphase = "wave", WaveConnects \/ WaveAnswers
  PROVE  /\ zwave' = zwave /\ zphase' = "wave" /\ UNCHANGED <<ztask, zserver>>
         /\ zopened' \in Seq(Sockets) /\ zthread' \in Seq(Attempts)
         /\ \A q : AskedFor(q) => AskedFor(q)'
<1>1. zopened \in Seq(Sockets) /\ zthread \in Seq(Attempts) /\ zwave \in Seq(WaveProbes)
  BY DEF ServiceTypes, ServiceThread
<1>2. zwave' = zwave /\ zphase' = "wave" /\ UNCHANGED <<ztask, zserver>>
  BY DEF WaveConnects, WaveAnswers
<1>3. ServiceNext
  BY DEF ServiceNext
<1>4. zopened' \in Seq(Sockets)
  BY <1>3, SocketsKept
<1>5. zthread' \in Seq(Attempts)
  BY <1>2, <1>3, ThreadKept DEF ServiceThread
<1>6. zopened' = zopened \/ \E p \in Sockets : zopened' = Append(zopened, p)
  <2>1. zopened' = zopened \/ \E p \in ToSet(zwave) : zopened' = Append(zopened, p)
    BY DEF WaveConnects, WaveAnswers, Connects
  <2>2. ToSet(zwave) \subseteq Sockets
    BY <1>1 DEF ToSet, Sockets, Probes
  <2> QED
    BY <2>1, <2>2
<1>7. zthread' = zthread \/ \E a : zthread' = Append(zthread, a)
  BY DEF WaveConnects, WaveAnswers
<1>8. ASSUME NEW q, Contains(zopened, q) PROVE Contains(zopened', q)
  BY <1>1, <1>6, <1>8 DEF Contains
<1>9. ASSUME NEW q, NEW i \in DOMAIN zthread, zthread[i].probe = q PROVE \E k \in DOMAIN zthread' : zthread'[k].probe = q
  <2>1. i \in DOMAIN zthread' /\ zthread'[i] = zthread[i]
    BY <1>1, <1>7
  <2> QED
    BY <1>9, <2>1
<1> QED
  BY <1>2, <1>4, <1>5, <1>8, <1>9 DEF AskedFor

\* A connection of the wave takes a probe off those still to be asked.
LEMMA ConnectAsks ==
  ASSUME ServiceTypes, ServiceThread, WaveConnects
  PROVE  /\ zconns' = zconns + 1
         /\ \E p \in Unasked : Unasked' \subseteq Unasked \ {p}
<1>1. zphase = "wave" /\ zconns' = zconns + 1
  BY DEF WaveConnects, Connects
<1>2. zopened \in Seq(Sockets) /\ zthread \in Seq(Attempts) /\ zwave \in Seq(WaveProbes)
  BY <1>1 DEF ServiceTypes, ServiceThread
<1>3. PICK p \in ToSet(zwave) : /\ ~AskedFor(p) /\ (zopened' = zopened \/ zopened' = Append(zopened, p))
                                /\ zthread' = IF zopened' = zopened THEN Append(zthread, Missed(p)) ELSE zthread
  BY DEF WaveConnects, Connects
<1>4. p \in Sockets
  BY <1>2, <1>3 DEF ToSet, Sockets, Probes
<1>5. AskedFor(p)'
  <2>1. CASE zopened' = zopened
    <3>1. zthread' = Append(zthread, Missed(p)) /\ Missed(p).probe = p
      BY <1>3, <1>4, <2>1, MissedIs
    <3>2. PICK k : k = Len(zthread) + 1
      OBVIOUS
    <3>3. k \in DOMAIN zthread' /\ zthread'[k] = Missed(p)
      BY <1>2, <3>1, <3>2
    <3> QED
      BY <3>1, <3>3 DEF AskedFor
  <2>2. CASE zopened' = Append(zopened, p)
    <3>1. PICK k : k = Len(zopened) + 1
      OBVIOUS
    <3>2. k \in 1 .. Len(zopened') /\ zopened'[k] = p
      BY <1>2, <1>4, <2>2, <3>1
    <3> QED
      BY <3>2 DEF AskedFor, Contains
  <2> QED
    BY <1>3, <2>1, <2>2
<1>6. p \in Unasked
  BY <1>3 DEF Unasked
<1>7. zwave' = zwave /\ \A q : AskedFor(q) => AskedFor(q)'
  BY <1>1, AskedStays
<1>8. Unasked' \subseteq Unasked \ {p}
  BY <1>5, <1>7 DEF Unasked
<1> QED
  BY <1>1, <1>6, <1>8

LEMMA BudgetQuiet ==
  ASSUME ServiceBudget, Len(ServicePlan)' = Len(ServicePlan), UNCHANGED <<zconns, zleft, zwave>>,
         zphase' \in BeforeWave => zphase \in BeforeWave, zphase' = "start" => zphase = "start",
         zphase' = "wave" => zphase = "wave" /\ Unasked' = Unasked
  PROVE  ServiceBudget'
<1>1. PICK n : n = Len(ServicePlan) /\ n = Len(ServicePlan)'
  OBVIOUS
<1>2. zconns' <= n + 1
  BY <1>1 DEF ServiceBudget
<1>3. zphase' \in BeforeWave => zconns' + Len(zleft') + Len(zwave') <= n + 1
  BY <1>1 DEF ServiceBudget
<1>4. zphase' = "wave" => zconns' + Cardinality(Unasked)' <= n + 1
  BY <1>1 DEF ServiceBudget
<1> QED
  BY <1>1, <1>2, <1>3, <1>4 DEF ServiceBudget

LEMMA BudgetKept ==
  ASSUME ServiceTypes, ServiceThread, ServiceRows, ServiceBudget, ServiceNext
  PROVE  ServiceBudget'
<1>1. /\ Len(ServicePlan)' = Len(ServicePlan) /\ Len(ServicePlan) \in Nat /\ zconns \in Nat
      /\ zleft \in Seq(Probes) /\ zwave \in Seq(WaveProbes) /\ Len(zwave) \in Nat /\ Len(zleft) \in Nat
  <2>1. ServicePlan' = ServicePlan
    BY SurroundingsStay
  <2> QED
    BY <2>1, PlanIs DEF ServiceTypes
<1>2. CASE RefuseService
  BY <1>1, <1>2, EndedBare, BudgetQuiet DEF BeforeWave
<1>3. CASE StopService
  BY <1>1, <1>3, EndedBare, BudgetQuiet DEF BeforeWave
<1>4. CASE BeginService
  <2>1. zphase = "start" /\ zleft' = ServicePlan /\ zwave' = zwave /\ zphase' \in {"passive", "judge"}
        /\ (zconns' = zconns \/ zconns' = zconns + 1)
    BY <1>4 DEF BeginService, Connects
  <2>2. zconns = 0 /\ zwave = <<>>
    BY <2>1 DEF ServiceBudget, ServiceRows
  <2>3. PICK n \in Nat : n = Len(ServicePlan) /\ n = Len(ServicePlan)' /\ n = Len(zleft')
    BY <1>1, <2>1
  <2>4. Len(zwave') = 0 /\ zconns' \in {0, 1}
    BY <2>1, <2>2
  <2> QED
    BY <2>1, <2>3, <2>4 DEF ServiceBudget
<1>5. CASE ObservePassive
  <2>1. UNCHANGED <<zconns, zleft, zwave>>
    BY <1>5 DEF ObservePassive, Interrupted
  <2>2. /\ zphase' \in BeforeWave => zphase \in BeforeWave
        /\ zphase' # "start" /\ zphase' # "wave"
    BY <1>5 DEF BeforeWave, ObservePassive, Interrupted
  <2> QED
    BY <1>1, <2>1, <2>2, BudgetQuiet
<1>6. CASE SkipRest
  <2>1. zleft' = <<>> /\ zwave' = zwave /\ zconns' = zconns /\ zphase = "judge" /\ zphase' = "judge"
    BY <1>6 DEF SkipRest, MayLook
  <2>2. zconns + Len(zleft) + Len(zwave) <= Len(ServicePlan) + 1
    BY <2>1 DEF ServiceBudget, BeforeWave
  <2>3. PICK n \in Nat : n = Len(ServicePlan) /\ n = Len(ServicePlan)'
    BY <1>1
  <2>4. Len(zleft') = 0 /\ Len(zwave') = Len(zwave)
    BY <2>1
  <2> QED
    BY <1>1, <2>1, <2>2, <2>3, <2>4 DEF ServiceBudget
<1>7. CASE JudgeGreeting
  <2>1. PICK p \in Probes : LooksAt(p) 
    BY <1>7 DEF JudgeGreeting, Probes, AloneProbes, MailProbes, WaveProbes
  <2>2. zphase = "judge" /\ Len(zleft') = Len(zleft) - 1
    BY <2>1, LookIs
  <2>3. zphase' \in {"judge"} /\ zconns' = zconns
    BY <1>7, <2>2 DEF JudgeGreeting
  <2>4. Len(zwave') = Len(zwave)
    BY <1>1, <1>7, <2>1 DEF JudgeGreeting
  <2>5. zconns + Len(zleft) + Len(zwave) <= Len(ServicePlan) + 1
    BY <2>2 DEF ServiceBudget, BeforeWave
  <2>6. PICK n \in Nat : n = Len(ServicePlan) /\ n = Len(ServicePlan)'
    BY <1>1
  <2>7. zconns' + Len(zleft') + Len(zwave') <= n + 1 /\ Len(zleft') \in Nat /\ Len(zwave') \in Nat
    <3>1. Len(zleft') \in Nat
      BY <2>1, LookIs
    <3> QED
      BY <1>1, <2>2, <2>3, <2>4, <2>5, <2>6, <3>1
  <2>8. zconns' \in Nat /\ zconns' <= n + 1
    BY <1>1, <2>3, <2>7
  <2> QED
    BY <2>3, <2>6, <2>7, <2>8 DEF ServiceBudget
<1>8. CASE AskAlone
  <2>1. PICK p \in Probes : LooksAt(p) 
    BY <1>8 DEF AskAlone, Connects, Probes, AloneProbes, MailProbes, WaveProbes
  <2>2. zphase = "judge" /\ Len(zleft') = Len(zleft) - 1
    BY <2>1, LookIs
  <2>3. zphase' \in {"alone", "mail"} /\ zconns' = zconns + 1
    BY <1>8, <2>2 DEF AskAlone, Connects
  <2>4. Len(zwave') = Len(zwave)
    BY <1>1, <1>8, <2>1 DEF AskAlone
  <2>5. zconns + Len(zleft) + Len(zwave) <= Len(ServicePlan) + 1
    BY <2>2 DEF ServiceBudget, BeforeWave
  <2>6. PICK n \in Nat : n = Len(ServicePlan) /\ n = Len(ServicePlan)'
    BY <1>1
  <2>7. zconns' + Len(zleft') + Len(zwave') <= n + 1 /\ Len(zleft') \in Nat /\ Len(zwave') \in Nat
    <3>1. Len(zleft') \in Nat
      BY <2>1, LookIs
    <3> QED
      BY <1>1, <2>2, <2>3, <2>4, <2>5, <2>6, <3>1
  <2>8. zconns' \in Nat /\ zconns' <= n + 1
    BY <1>1, <2>3, <2>7
  <2> QED
    BY <2>3, <2>6, <2>7, <2>8 DEF ServiceBudget
<1>9. CASE AloneAnswers
  <2>1. UNCHANGED <<zconns, zleft, zwave>>
    BY <1>9 DEF AloneAnswers, Interrupted, Records
  <2>2. /\ zphase' \in BeforeWave => zphase \in BeforeWave
        /\ zphase' # "start" /\ zphase' # "wave"
    BY <1>9 DEF BeforeWave, AloneAnswers, Interrupted, Records
  <2> QED
    BY <1>1, <2>1, <2>2, BudgetQuiet
<1>10. CASE MailAnswers
  <2>1. UNCHANGED <<zconns, zleft, zwave>>
    BY <1>10 DEF MailAnswers, Interrupted
  <2>2. /\ zphase' \in BeforeWave => zphase \in BeforeWave
        /\ zphase' # "start" /\ zphase' # "wave"
    BY <1>10 DEF BeforeWave, MailAnswers, Interrupted
  <2> QED
    BY <1>1, <2>1, <2>2, BudgetQuiet
<1>11. CASE LeaveToWave
  <2>1. PICK p \in Probes : LooksAt(p) /\ zwave' = Append(zwave, p)
    BY <1>11 DEF LeaveToWave, Probes, AloneProbes, MailProbes, WaveProbes
  <2>2. zphase = "judge" /\ Len(zleft') = Len(zleft) - 1
    BY <2>1, LookIs
  <2>3. zphase' \in {"judge"} /\ zconns' = zconns
    BY <1>11, <2>2 DEF LeaveToWave
  <2>4. Len(zwave') = Len(zwave) + 1
    BY <1>1, <1>11, <2>1 DEF LeaveToWave
  <2>5. zconns + Len(zleft) + Len(zwave) <= Len(ServicePlan) + 1
    BY <2>2 DEF ServiceBudget, BeforeWave
  <2>6. PICK n \in Nat : n = Len(ServicePlan) /\ n = Len(ServicePlan)'
    BY <1>1
  <2>7. zconns' + Len(zleft') + Len(zwave') <= n + 1 /\ Len(zleft') \in Nat /\ Len(zwave') \in Nat
    <3>1. Len(zleft') \in Nat
      BY <2>1, LookIs
    <3> QED
      BY <1>1, <2>2, <2>3, <2>4, <2>5, <2>6, <3>1
  <2>8. zconns' \in Nat /\ zconns' <= n + 1
    BY <1>1, <2>3, <2>7
  <2> QED
    BY <2>3, <2>6, <2>7, <2>8 DEF ServiceBudget
<1>12. CASE StartProbeWave
  <2>1. zphase = "judge" /\ zphase' = "wave" /\ UNCHANGED <<zconns, zleft, zwave>>
    BY <1>12 DEF StartProbeWave
  <2>2. zconns + Len(zleft) + Len(zwave) <= Len(ServicePlan) + 1 /\ zconns <= Len(ServicePlan) + 1
    BY <2>1 DEF ServiceBudget, BeforeWave
  <2>3. Cardinality(Unasked)' \in Nat /\ Cardinality(Unasked)' <= Len(zwave)
    <3>1. PICK W : W = Unasked'
      OBVIOUS
    <3>2. W \subseteq ToSet(zwave)
      BY <2>1, <3>1 DEF Unasked
    <3>3. IsFiniteSet(ToSet(zwave)) /\ Cardinality(ToSet(zwave)) \in Nat /\ Cardinality(ToSet(zwave)) <= Len(zwave)
      BY <1>1, MembersFew
    <3>4. IsFiniteSet(W) /\ Cardinality(W) <= Cardinality(ToSet(zwave))
      BY <3>2, <3>3, FS_Subset
    <3>5. Cardinality(W) \in Nat
      BY <3>4, FS_CardinalityType
    <3> QED
      BY <1>1, <3>1, <3>3, <3>4, <3>5
  <2>4. PICK n \in Nat, m \in Nat : n = Len(ServicePlan) /\ n = Len(ServicePlan)' /\ m = Cardinality(Unasked)'
    BY <1>1, <2>3
  <2>5. zconns' + m <= n + 1 /\ zconns' <= n + 1
    BY <1>1, <2>1, <2>2, <2>3, <2>4
  <2> QED
    BY <2>1, <2>4, <2>5 DEF ServiceBudget, BeforeWave
<1>13. CASE WaveConnects
  <2>1. zphase = "wave" /\ zphase' = "wave"
    BY <1>13 DEF WaveConnects
  <2>2. PICK p \in Unasked : Unasked' \subseteq Unasked \ {p}
    BY <1>13, ConnectAsks
  <2>3. IsFiniteSet(Unasked) /\ Cardinality(Unasked) \in Nat
    BY UnaskedFew
  <2>4. PICK V, W : V = Unasked /\ W = Unasked'
    OBVIOUS
  <2>5. IsFiniteSet(V \ {p}) /\ Cardinality(V \ {p}) = Cardinality(V) - 1
    BY <2>2, <2>3, <2>4, FS_RemoveElement
  <2>6. IsFiniteSet(W) /\ Cardinality(W) <= Cardinality(V \ {p})
    BY <2>2, <2>4, <2>5, FS_Subset
  <2>7. Cardinality(W) \in Nat
    BY <2>6, FS_CardinalityType
  <2>8. zconns' = zconns + 1
    BY <1>13, ConnectAsks
  <2>9. PICK n \in Nat : n = Len(ServicePlan) /\ n = Len(ServicePlan)'
    BY <1>1
  <2>10. zconns + Cardinality(V) <= n + 1
    BY <2>1, <2>4, <2>9 DEF ServiceBudget
  <2>11. zconns' + Cardinality(W) <= n + 1 /\ zconns' <= n + 1
    BY <1>1, <2>3, <2>4, <2>5, <2>6, <2>7, <2>8, <2>10
  <2> QED
    BY <2>1, <2>4, <2>9, <2>11 DEF ServiceBudget, BeforeWave
<1>14. CASE WaveAnswers
  <2>1. zphase = "wave" /\ zphase' = "wave" /\ zconns' = zconns /\ zwave' = zwave
    BY <1>14 DEF WaveAnswers
  <2>2. \A q : AskedFor(q) => AskedFor(q)'
    BY <1>14, <2>1, AskedStays
  <2>3. PICK V, W : V = Unasked /\ W = Unasked'
    OBVIOUS
  <2>4. W \subseteq V
    BY <2>1, <2>2, <2>3 DEF Unasked
  <2>5. IsFiniteSet(V) /\ Cardinality(V) \in Nat
    BY <2>3, UnaskedFew
  <2>6. IsFiniteSet(W) /\ Cardinality(W) <= Cardinality(V)
    BY <2>4, <2>5, FS_Subset
  <2>7. Cardinality(W) \in Nat
    BY <2>6, FS_CardinalityType
  <2>8. PICK n \in Nat : n = Len(ServicePlan) /\ n = Len(ServicePlan)'
    BY <1>1
  <2>9. zconns + Cardinality(V) <= n + 1
    BY <2>1, <2>3, <2>8 DEF ServiceBudget
  <2>10. zconns' + Cardinality(W) <= n + 1 /\ zconns' <= n + 1
    BY <1>1, <2>1, <2>5, <2>6, <2>7, <2>9
  <2> QED
    BY <2>1, <2>3, <2>8, <2>10 DEF ServiceBudget, BeforeWave
<1>15. CASE JoinWave
  <2>1. UNCHANGED <<zconns, zleft, zwave>>
    BY <1>15 DEF JoinWave
  <2>2. /\ zphase' \in BeforeWave => zphase \in BeforeWave
        /\ zphase' # "start" /\ zphase' # "wave"
    BY <1>15 DEF BeforeWave, JoinWave
  <2> QED
    BY <1>1, <2>1, <2>2, BudgetQuiet
<1>16. CASE Replay
  <2>1. UNCHANGED <<zconns, zleft, zwave>>
    BY <1>16 DEF Replay
  <2>2. /\ zphase' \in BeforeWave => zphase \in BeforeWave
        /\ zphase' # "start" /\ zphase' # "wave"
    BY <1>16 DEF BeforeWave, Replay
  <2> QED
    BY <1>1, <2>1, <2>2, BudgetQuiet
<1>17. CASE Compose
  <2>1. UNCHANGED <<zconns, zleft, zwave>>
    BY <1>17 DEF Compose, Interrupted
  <2>2. /\ zphase' \in BeforeWave => zphase \in BeforeWave
        /\ zphase' # "start" /\ zphase' # "wave"
    BY <1>17 DEF BeforeWave, Compose, Interrupted
  <2> QED
    BY <1>1, <2>1, <2>2, BudgetQuiet
<1>18. CASE NothingToAsk
  <2>1. UNCHANGED <<zconns, zleft, zwave>>
    BY <1>18 DEF NothingToAsk
  <2>2. /\ zphase' \in BeforeWave => zphase \in BeforeWave
        /\ zphase' # "start" /\ zphase' # "wave"
    BY <1>18 DEF BeforeWave, NothingToAsk
  <2> QED
    BY <1>1, <2>1, <2>2, BudgetQuiet
<1>19. CASE FinishService
  <2>1. UNCHANGED <<zconns, zleft, zwave>>
    BY <1>19 DEF FinishService
  <2>2. /\ zphase' \in BeforeWave => zphase \in BeforeWave
        /\ zphase' # "start" /\ zphase' # "wave"
    BY <1>19 DEF BeforeWave, FinishService
  <2> QED
    BY <1>1, <2>1, <2>2, BudgetQuiet
<1>20. CASE CancelProbe
  <2>1. UNCHANGED <<zconns, zleft, zwave, zopened, zthread, zphase>>
    BY <1>20 DEF CancelProbe
  <2>2. Unasked' = Unasked
    BY <2>1 DEF Unasked, AskedFor
  <2> QED
    BY <1>1, <2>1, <2>2, BudgetQuiet
<1>21. CASE TimeRuns
  <2>1. UNCHANGED <<zconns, zleft, zwave, zopened, zthread, zphase>>
    BY <1>21 DEF TimeRuns
  <2>2. Unasked' = Unasked
    BY <2>1 DEF Unasked, AskedFor
  <2> QED
    BY <1>1, <2>1, <2>2, BudgetQuiet
<1> QED
  BY <1>2, <1>3, <1>4, <1>5, <1>6, <1>7, <1>8, <1>9, <1>10, <1>11, <1>12, <1>13, <1>14, <1>15, <1>16, <1>17, <1>18, <1>19, <1>20, <1>21 DEF ServiceNext

\* The answers in hand: one of each probe of the wave at most.
LEMMA AnswerAdded ==
  ASSUME zthread \in Seq(Attempts),
         \A k \in DOMAIN zthread : WaveAnswer(zthread[k]),
         \A k, m \in DOMAIN zthread : zthread[k].probe = zthread[m].probe => k = m,
         NEW a \in Attempts, WaveAnswer(a), \A k \in DOMAIN zthread : zthread[k].probe # a.probe,
         zthread' = Append(zthread, a), UNCHANGED <<zwave, zserver>>
  PROVE  /\ \A k \in DOMAIN zthread' : WaveAnswer(zthread[k])'
         /\ \A k, m \in DOMAIN zthread' : zthread'[k].probe = zthread'[m].probe => k = m
<1>1. PICK n \in Nat : n = Len(zthread) /\ DOMAIN zthread = 1 .. n
  OBVIOUS
<1>2. /\ DOMAIN zthread' = 1 .. n + 1 /\ zthread'[n + 1] = a
      /\ \A k \in 1 .. n : zthread'[k] = zthread[k]
  BY <1>1
<1>3. ASSUME NEW k \in 1 .. n + 1 PROVE (k \in 1 .. n /\ zthread'[k] = zthread[k]) \/ (k = n + 1 /\ zthread'[k] = a)
  BY <1>1, <1>2
<1>4. ASSUME NEW k \in 1 .. n + 1 PROVE WaveAnswer(zthread[k])'
  <2>1. PICK b : b = zthread'[k]
    OBVIOUS
  <2>2. WaveAnswer(b)
    BY <1>1, <1>3, <2>1
  <2> QED
    BY <2>1, <2>2 DEF WaveAnswer, Backed
<1>5. ASSUME NEW k \in 1 .. n + 1, NEW m \in 1 .. n + 1, zthread'[k].probe = zthread'[m].probe PROVE k = m
  BY <1>1, <1>3, <1>5
<1> QED
  BY <1>2, <1>4, <1>5

\* The wave is over when there is an answer for each of its probes.
LEMMA WaveOver ==
  ASSUME zthread \in Seq(Attempts), zwave \in Seq(WaveProbes), IsInjective(zwave), Len(zthread) = Len(zwave),
         \A k \in DOMAIN zthread : WaveAnswer(zthread[k]),
         \A k, m \in DOMAIN zthread : zthread[k].probe = zthread[m].probe => k = m
  PROVE  AllAnswered
<1> DEFINE n == Len(zthread)
           q == [k \in 1 .. n |-> [port |-> zthread[k].probe]]
           E == [port : Sockets \cup {"none"}]
<1>1. n \in Nat /\ DOMAIN zthread = 1 .. n /\ DOMAIN zwave = 1 .. n /\ n = Len(zwave)
  OBVIOUS
<1>2. \A k \in 1 .. n : zthread[k].probe \in Sockets \cup {"none"}
  <2> SUFFICES ASSUME NEW k \in 1 .. n PROVE zthread[k].probe \in Sockets \cup {"none"}
    OBVIOUS
  <2>1. zthread[k] \in Attempts
    BY <1>1
  <2> QED
    BY <2>1 DEF Attempts
<1>3. q \in Seq(E) /\ Len(q) = n /\ \A k \in 1 .. n : q[k].port = zthread[k].probe
  BY <1>1, <1>2
<1> HIDE DEF q, E
<1>4. PortsDistinct(q)
  BY <1>1, <1>3 DEF PortsDistinct
<1>5. QueuedPorts(q) \subseteq ToSet(zwave)
  BY <1>1, <1>3 DEF QueuedPorts, WaveAnswer
<1>6. IsFiniteSet(QueuedPorts(q)) /\ Cardinality(QueuedPorts(q)) = n
  BY <1>3, <1>4, CountEntries
<1>7. IsFiniteSet(ToSet(zwave)) /\ Cardinality(ToSet(zwave)) \in Nat /\ Cardinality(ToSet(zwave)) <= n
  BY <1>1, MembersFew
<1>8. Cardinality(QueuedPorts(q)) <= Cardinality(ToSet(zwave))
      /\ (Cardinality(QueuedPorts(q)) = Cardinality(ToSet(zwave)) => QueuedPorts(q) = ToSet(zwave))
  BY <1>5, <1>7, FS_Subset
<1>9. QueuedPorts(q) = ToSet(zwave)
  BY <1>1, <1>6, <1>7, <1>8
<1>10. ASSUME NEW i \in 1 .. n PROVE \E k \in 1 .. n : zthread[k].probe = zwave[i]
  <2>1. zwave[i] \in QueuedPorts(q)
    BY <1>1, <1>9 DEF ToSet
  <2> QED
    BY <1>1, <1>3, <2>1 DEF QueuedPorts
<1> QED
  BY <1>1, <1>10 DEF AllAnswered

\* Steps away from the wave.
LEMMA WaveQuiet ==
  ASSUME ServiceTypes, ServiceThread, ServiceWave, zserver' = zserver, UNCHANGED <<zwave, zthread, zwinner>>,
         zphase' \in {"wave", "replay", "compose"} => zphase' = zphase,
         PastWave' => PastWave
  PROVE  ServiceWave'
<1>1. /\ zphase' = "wave" => zphase = "wave"
      /\ zphase' = "replay" => zphase = "replay"
      /\ zphase' = "compose" => zphase = "compose"
  OBVIOUS
<1>2. WinnerStands => WinnerStands'
  BY DEF WinnerStands
<1>3. AllAnswered => AllAnswered'
  BY DEF AllAnswered
<1>4. \A a : WaveAnswer(a) => WaveAnswer(a)'
  BY DEF WaveAnswer, Backed
<1>5. ASSUME zphase' \in {"wave", "replay"}
      PROVE  /\ \A k \in DOMAIN zthread' : WaveAnswer(zthread[k])'
             /\ \A k, m \in DOMAIN zthread' : zthread'[k].probe = zthread'[m].probe => k = m
  BY <1>1, <1>4, <1>5 DEF ServiceWave
<1>6. zphase' = "compose" => zwinner'.probe = "tls" /\ Classified(zwinner') /\ zserver'.tls
  BY <1>1 DEF ServiceWave, Classified
<1>7. zphase' = "compose" \/ PastWave' => WinnerStands'
  BY <1>1, <1>2 DEF ServiceWave
<1>8. zphase' = "replay" => AllAnswered'
  BY <1>1, <1>3 DEF ServiceWave
<1> QED
  BY <1>5, <1>6, <1>7, <1>8 DEF ServiceWave, Classified

LEMMA WaveApart ==
  ASSUME zphase' \notin {"wave", "replay", "compose"}, ~PastWave'
  PROVE  ServiceWave'
BY DEF ServiceWave

LEMMA WaveKept ==
  ASSUME ServiceTypes, ServiceThread, ServiceRows, ServiceWave, ServiceNext
  PROVE  ServiceWave'
<1>1. zserver' = zserver /\ zserver \in Server /\ zwave \in Seq(WaveProbes) /\ IsInjective(zwave)
  BY SurroundingsStay DEF ServiceTypes, ServiceRows
<1>2. CASE RefuseService
  BY <1>2, EndedBare, WaveApart DEF PastWave
<1>3. CASE StopService
  BY <1>3, EndedBare, WaveApart DEF PastWave
<1>4. CASE BeginService
  <2>1. zphase' \in {"judge", "passive", "alone", "mail"}
    BY <1>4 DEF BeginService, Connects
  <2> QED
    BY <2>1, WaveApart DEF PastWave, ServiceConcluded
<1>5. CASE ObservePassive
  <2>1. zthread' = <<>> /\ zphase' \in {"judge", "final"}
    BY <1>5 DEF ObservePassive, ServiceThread
  <2> QED
    BY <2>1, WaveApart DEF PastWave
<1>6. CASE SkipRest
  <2>1. zphase' \in {"judge", "passive", "alone", "mail"}
    BY <1>6 DEF SkipRest, MayLook
  <2> QED
    BY <2>1, WaveApart DEF PastWave, ServiceConcluded
<1>7. CASE JudgeGreeting
  <2>1. zphase' \in {"judge", "passive", "alone", "mail"}
    BY <1>7 DEF JudgeGreeting, LooksAt, MayLook, Records
  <2> QED
    BY <2>1, WaveApart DEF PastWave, ServiceConcluded
<1>8. CASE AskAlone
  <2>1. zphase' \in {"judge", "passive", "alone", "mail"}
    BY <1>8 DEF AskAlone, LooksAt, MayLook, Connects
  <2> QED
    BY <2>1, WaveApart DEF PastWave, ServiceConcluded
<1>9. CASE AloneAnswers
  <2>1. zphase' \in {"judge", "passive", "alone", "mail"}
    BY <1>9 DEF AloneAnswers, Interrupted, Records
  <2> QED
    BY <2>1, WaveApart DEF PastWave, ServiceConcluded
<1>10. CASE MailAnswers
  <2>1. zthread' = <<>> /\ zphase' \in {"judge", "final"}
    BY <1>10 DEF MailAnswers
  <2> QED
    BY <2>1, WaveApart DEF PastWave
<1>11. CASE LeaveToWave
  <2>1. zphase' \in {"judge", "passive", "alone", "mail"}
    BY <1>11 DEF LeaveToWave, LooksAt, MayLook
  <2> QED
    BY <2>1, WaveApart DEF PastWave, ServiceConcluded
<1>12. CASE StartProbeWave
  <2>1. zthread' = <<>> /\ zphase' = "wave"
    BY <1>12 DEF StartProbeWave
  <2> QED
    BY <2>1 DEF ServiceWave, PastWave, ServiceConcluded
<1>13. CASE WaveConnects
  <2>1. zphase = "wave" /\ zphase' = "wave" /\ zwave' = zwave /\ UNCHANGED <<zwinner, zout>>
    BY <1>13 DEF WaveConnects
  <2>2. PICK p \in ToSet(zwave) : ~AskedFor(p) /\ (zthread' = zthread \/ zthread' = Append(zthread, Missed(p)))
    BY <1>13 DEF WaveConnects
  <2>3. ~PastWave'
    BY <2>1 DEF PastWave, ServiceConcluded
  <2>4. CASE zthread' = zthread
    BY <1>1, <2>1, <2>3, <2>4, WaveQuiet
  <2>5. CASE zthread' = Append(zthread, Missed(p))
    <3>1. zthread \in Seq(Attempts) /\ \A k \in DOMAIN zthread : WaveAnswer(zthread[k])
      BY <2>1 DEF ServiceThread, ServiceWave
    <3>2. \A k, m \in DOMAIN zthread : zthread[k].probe = zthread[m].probe => k = m
      BY <2>1 DEF ServiceWave
    <3>3. p \in Sockets
      BY <1>1, <2>2 DEF ToSet, Sockets, Probes
    <3>4. PICK a : a = Missed(p)
      OBVIOUS
    <3>5. a \in Attempts /\ a.probe = p /\ WaveAnswer(a)
      BY <2>2, <3>3, <3>4, MissedIs DEF WaveAnswer
    <3>6. \A k \in DOMAIN zthread : zthread[k].probe # a.probe
      BY <2>2, <3>5 DEF AskedFor
    <3>7. zthread' = Append(zthread, a)
      BY <2>5, <3>4
    <3>8. /\ \A k \in DOMAIN zthread' : WaveAnswer(zthread[k])'
          /\ \A k, m \in DOMAIN zthread' : zthread'[k].probe = zthread'[m].probe => k = m
      BY <1>1, <2>1, <3>1, <3>2, <3>5, <3>6, <3>7, AnswerAdded
    <3> QED
      BY <2>1, <2>3, <3>8 DEF ServiceWave
  <2> QED
    BY <2>2, <2>4, <2>5
<1>14. CASE WaveAnswers
  <2>1. zphase = "wave" /\ zphase' = "wave" /\ zwave' = zwave /\ UNCHANGED <<zwinner, zout>>
    BY <1>14 DEF WaveAnswers
  <2>2. PICK p \in ToSet(zwave) :
          /\ \A i \in DOMAIN zthread : zthread[i].probe # p
          /\ \E a \in IF p = "tls" THEN TlsReads ELSE RequestReads(p) : zthread' = Append(zthread, a)
    BY <1>14 DEF WaveAnswers
  <2>3. PICK a \in IF p = "tls" THEN TlsReads ELSE RequestReads(p) : zthread' = Append(zthread, a)
    BY <2>2
  <2>4. ~PastWave'
    BY <2>1 DEF PastWave, ServiceConcluded
  <2>5. zthread \in Seq(Attempts) /\ \A k \in DOMAIN zthread : WaveAnswer(zthread[k])
    BY <2>1 DEF ServiceThread, ServiceWave
  <2>6. \A k, m \in DOMAIN zthread : zthread[k].probe = zthread[m].probe => k = m
    BY <2>1 DEF ServiceWave
  <2>7. p \in WaveProbes
    BY <1>1, <2>2 DEF ToSet
  <2>8. a \in Attempts /\ a.probe = p /\ Backed(a) /\ (Classified(a) => a.protocol = a.probe /\ (a.tls <=> a.probe = "tls"))
    BY <1>1, <2>3, <2>7, WaveReads
  <2>9. WaveAnswer(a)
    BY <2>2, <2>8 DEF WaveAnswer
  <2>10. \A k \in DOMAIN zthread : zthread[k].probe # a.probe
    BY <2>2, <2>8
  <2>11. /\ \A k \in DOMAIN zthread' : WaveAnswer(zthread[k])'
         /\ \A k, m \in DOMAIN zthread' : zthread'[k].probe = zthread'[m].probe => k = m
    BY <1>1, <2>1, <2>3, <2>5, <2>6, <2>8, <2>9, <2>10, AnswerAdded
  <2> QED
    BY <2>1, <2>4, <2>11 DEF ServiceWave
<1>15. CASE JoinWave
  <2>1. zphase = "wave" /\ zphase' = "replay" /\ UNCHANGED <<zwave, zthread, zwinner, zout>> /\ Len(zthread) = Len(zwave)
    BY <1>15 DEF JoinWave
  <2>2. /\ zthread \in Seq(Attempts) /\ \A k \in DOMAIN zthread : WaveAnswer(zthread[k])
        /\ \A k, m \in DOMAIN zthread : zthread[k].probe = zthread[m].probe => k = m
    BY <2>1 DEF ServiceThread, ServiceWave
  <2>3. AllAnswered
    BY <1>1, <2>1, <2>2, WaveOver
  <2>4. AllAnswered'
    BY <2>1, <2>3 DEF AllAnswered
  <2>5. \A a : WaveAnswer(a) => WaveAnswer(a)'
    BY <1>1, <2>1 DEF WaveAnswer, Backed
  <2>6. \A k \in DOMAIN zthread' : WaveAnswer(zthread[k])'
    BY <2>1, <2>2, <2>5
  <2>7. ~PastWave'
    BY <2>1 DEF PastWave, ServiceConcluded
  <2>8. \A k, m \in DOMAIN zthread' : zthread'[k].probe = zthread'[m].probe => k = m
    BY <2>1, <2>2
  <2> QED
    BY <2>1, <2>4, <2>6, <2>7, <2>8 DEF ServiceWave
<1>16. CASE Replay
  <2>1. zphase = "replay" /\ UNCHANGED <<zwave, zthread>> /\ zwinner' = FirstWith(Replayed, Classified)
        /\ zphase' = IF FirstWith(Replayed, Classified).probe = "tls" THEN "compose" ELSE "final"
    BY <1>16 DEF Replay
  <2>2. /\ DOMAIN Replayed = 1 .. Len(zwave) /\ DOMAIN zwave = 1 .. Len(zwave) /\ Len(zwave) \in Nat
        /\ \A i \in 1 .. Len(zwave) : \E k \in DOMAIN zthread : Replayed[i] = zthread[k] /\ zthread[k].probe = zwave[i]
        /\ \A k \in DOMAIN zthread : zthread[k] \in Attempts /\ WaveAnswer(zthread[k])
    BY <2>1, ReplayedIs
  <2>3. \A k, m \in DOMAIN zthread : zthread[k].probe = zthread[m].probe => k = m
    BY <2>1 DEF ServiceWave
  <2>4. PICK n, s, w : n \in Nat /\ n = Len(zwave) /\ s = Replayed /\ w = FirstWith(Replayed, Classified) /\ w = FirstWith(s, Classified)
    BY <2>2
  <2>5. w = NoAttempt \/ \E i \in 1 .. n : w = s[i] /\ Classified(s[i]) /\ \A k \in 1 .. (i - 1) : ~Classified(s[k])
    <3>1. \/ FirstWith(s, Classified) = NoAttempt
          \/ \E i \in 1 .. n : /\ FirstWith(s, Classified) = s[i] /\ Classified(s[i])
                               /\ \A k \in 1 .. (i - 1) : ~Classified(s[k])
      BY <2>2, <2>4, FirstClassified
    <3> QED
      BY <2>4, <3>1
  <2>6. zwinner' = w
    BY <2>1, <2>4
  <2>7. ASSUME Classified(w)
        PROVE  \E i \in 1 .. n : \E k \in DOMAIN zthread :
                 /\ w = zthread[k] /\ zthread[k].probe = zwave[i] /\ Classified(zthread[k])
                 /\ \A j \in 1 .. (i - 1) : \A m \in DOMAIN zthread : zthread[m].probe = zwave[j] => ~Classified(zthread[m])
    <3>1. w # NoAttempt
      BY <2>7, NoneIs
    <3>2. PICK i \in 1 .. n : w = s[i] /\ Classified(s[i]) /\ \A k \in 1 .. (i - 1) : ~Classified(s[k])
      BY <2>5, <3>1
    <3>3. PICK k \in DOMAIN zthread : s[i] = zthread[k] /\ zthread[k].probe = zwave[i]
      BY <2>2, <2>4
    <3>4. ASSUME NEW j \in 1 .. (i - 1), NEW m \in DOMAIN zthread, zthread[m].probe = zwave[j]
          PROVE  ~Classified(zthread[m])
      <4>1. j \in 1 .. n
        BY <2>4
      <4>2. PICK l \in DOMAIN zthread : s[j] = zthread[l] /\ zthread[l].probe = zwave[j]
        BY <2>2, <2>4, <4>1
      <4>3. l = m
        BY <2>3, <3>4, <4>2
      <4> QED
        BY <3>2, <4>2, <4>3
    <3> QED
      BY <3>2, <3>3, <3>4
  <2>8. \A k \in DOMAIN zthread : Classified(zthread[k]) => zthread[k].protocol = zthread[k].probe /\ (zthread[k].tls <=> zthread[k].probe = "tls")
    BY <2>2 DEF WaveAnswer
  <2>9. WinnerStands'
    <3>1. SUFFICES ASSUME Classified(w)
          PROVE  \E i \in 1 .. n :
                   /\ \E k \in DOMAIN zthread : zthread[k].probe = zwave[i] /\ Classified(zthread[k])
                   /\ \A j \in 1 .. (i - 1) : \A k \in DOMAIN zthread : zthread[k].probe = zwave[j] => ~Classified(zthread[k])
                   /\ IF zwave[i] = "tls" THEN w.probe \in {"tls", "http", "smtp"} /\ w.tls ELSE w.probe = zwave[i]
      BY <2>1, <2>2, <2>4, <2>6 DEF WinnerStands, Classified
    <3>2. PICK i \in 1 .. n : \E k \in DOMAIN zthread :
                 /\ w = zthread[k] /\ zthread[k].probe = zwave[i] /\ Classified(zthread[k])
                 /\ \A j \in 1 .. (i - 1) : \A m \in DOMAIN zthread : zthread[m].probe = zwave[j] => ~Classified(zthread[m])
      BY <2>7, <3>1
    <3>3. PICK k \in DOMAIN zthread :
                 /\ w = zthread[k] /\ zthread[k].probe = zwave[i] /\ Classified(zthread[k])
                 /\ \A j \in 1 .. (i - 1) : \A m \in DOMAIN zthread : zthread[m].probe = zwave[j] => ~Classified(zthread[m])
      BY <3>2
    <3>4. zwave[i] = "tls" => w.probe = "tls" /\ w.tls
      BY <2>8, <3>3
    <3> QED
      BY <3>3, <3>4
  <2>10. ASSUME w.probe = "tls" PROVE Classified(w) /\ zserver.tls
    <3>1. w # NoAttempt
      BY <2>10, AttemptsAre
    <3>2. Classified(w)
      BY <2>5, <3>1
    <3>3. PICK k \in DOMAIN zthread : w = zthread[k]
      BY <2>7, <3>2
    <3>4. Backed(w) /\ w.protocol = "tls"
      BY <2>2, <2>8, <2>10, <3>2, <3>3 DEF WaveAnswer
    <3> QED
      BY <3>2, <3>4 DEF Backed
  <2>11. zphase' = "compose" => zwinner'.probe = "tls" /\ Classified(zwinner') /\ zserver'.tls
    <3>1. zphase' = "compose" => w.probe = "tls"
      BY <2>1, <2>4
    <3> QED
      BY <1>1, <2>6, <2>10, <3>1
  <2>12. zphase' \in {"compose", "final"}
    BY <2>1
  <2> QED
    BY <2>9, <2>11, <2>12 DEF ServiceWave, Classified
<1>17. CASE Compose
  <2>1. zphase = "compose" /\ zphase' = "final" /\ UNCHANGED <<zwave, zthread>>
        /\ (zwinner' # zwinner => zwinner' = Composed /\ Composes)
    <3>1. zphase = "compose" /\ zphase' = "final" /\ UNCHANGED <<zwave, zthread>>
      BY <1>17 DEF Compose
    <3>2. zwinner' # zwinner => zwinner' = Composed /\ Composes
      BY <1>17 DEF Compose
    <3> QED
      BY <3>1, <3>2
  <2>2. zwinner.probe = "tls" /\ Classified(zwinner) /\ zserver.tls /\ WinnerStands
    BY <2>1 DEF ServiceWave
  <2>3. PICK i \in DOMAIN zwave :
      /\ \E k \in DOMAIN zthread : zthread[k].probe = zwave[i] /\ Classified(zthread[k])
      /\ \A j \in 1 .. (i - 1) : \A k \in DOMAIN zthread : zthread[k].probe = zwave[j] => ~Classified(zthread[k])
      /\ IF zwave[i] = "tls" THEN zwinner.probe \in {"tls", "http", "smtp"} /\ zwinner.tls
         ELSE zwinner.probe = zwave[i]
    BY <2>2 DEF WinnerStands
  <2>4. zwave[i] = "tls" /\ zwinner.tls
    BY <2>2, <2>3
  <2>5. zwinner'.probe \in {"tls", "http", "smtp"} /\ zwinner'.tls
    <3>1. CASE zwinner' = zwinner
      BY <2>2, <2>4, <3>1
    <3>2. CASE zwinner' = Composed /\ Composes
      <4>1. Composed.probe \in {"http", "smtp"} /\ Composed.tls
        BY <1>1, <2>2, <3>2, ComposedIs
      <4> QED
        BY <3>2, <4>1
    <3> QED
      BY <2>1, <3>1, <3>2
  <2>6. WinnerStands'
    <3>1. /\ \E k \in DOMAIN zthread : zthread[k].probe = zwave[i] /\ Classified(zthread[k])
          /\ \A j \in 1 .. (i - 1) : \A k \in DOMAIN zthread : zthread[k].probe = zwave[j] => ~Classified(zthread[k])
      BY <2>3
    <3> QED
      BY <2>1, <2>4, <2>5, <3>1 DEF WinnerStands, Classified
  <2> QED
    BY <2>1, <2>6 DEF ServiceWave
<1>18. CASE NothingToAsk
  <2>1. zthread' = <<>> /\ zphase' \in {"judge", "final"}
    BY <1>18 DEF NothingToAsk, ServiceThread
  <2> QED
    BY <2>1, WaveApart DEF PastWave
<1>19. CASE FinishService
  <2>1. UNCHANGED <<zwave, zthread, zwinner>> /\ zphase' = "done" /\ zphase = "final"
    BY <1>19 DEF FinishService
  <2>2. PastWave' => PastWave
    BY <2>1 DEF PastWave, ServiceConcluded
  <2> QED
    BY <1>1, <2>1, <2>2, WaveQuiet
<1>20. CASE CancelProbe
  <2>1. UNCHANGED <<zwave, zthread, zwinner, zphase, zout>>
    BY <1>20 DEF CancelProbe
  <2>2. PastWave' => PastWave
    BY <2>1 DEF PastWave, ServiceConcluded
  <2> QED
    BY <1>1, <2>1, <2>2, WaveQuiet
<1>21. CASE TimeRuns
  <2>1. UNCHANGED <<zwave, zthread, zwinner, zphase, zout>>
    BY <1>21 DEF TimeRuns
  <2>2. PastWave' => PastWave
    BY <2>1 DEF PastWave, ServiceConcluded
  <2> QED
    BY <1>1, <2>1, <2>2, WaveQuiet
<1> QED
  BY <1>2, <1>3, <1>4, <1>5, <1>6, <1>7, <1>8, <1>9, <1>10, <1>11, <1>12, <1>13, <1>14, <1>15, <1>16, <1>17, <1>18, <1>19, <1>20, <1>21 DEF ServiceNext

LEMMA KeptKept ==
  ASSUME ServiceTypes, ServiceThread, ServiceRows, ServiceWave, ServiceEvidence, ServiceKept, ServiceNext
  PROVE  ServiceKept'
<1>1. /\ zserver \in Server /\ zwave \in Seq(WaveProbes) /\ zheard \in Hearings /\ zfallback \in Attempts
      /\ NoAttempt.banner = "none" /\ (zfallback = NoAttempt \/ zfallback.banner # "none")
  BY NoneIs DEF ServiceTypes, ServiceKept
<1>2. CASE RefuseService
  <2>1. zphase' = "done" /\ UNCHANGED <<zfallback, zleft, zheard, zcut>>
    BY <1>2, EndedBare
  <2> QED
    BY <2>1 DEF ServiceKept
<1>3. CASE StopService
  <2>1. zphase' = "done" /\ UNCHANGED <<zfallback, zleft, zheard, zcut>>
    BY <1>3, EndedBare
  <2> QED
    BY <2>1 DEF ServiceKept
<1>4. CASE BeginService
  <2>1. zphase = "start" /\ zheard' = zheard /\ zfallback' = zfallback /\ zleft' = ServicePlan
        /\ IF Contains(ServicePlan, "generic") THEN zphase' = "passive" ELSE zphase' = "judge"
    BY <1>4 DEF BeginService
  <2>2. zheard = "unasked"
    BY <2>1 DEF ServiceRows
  <2>3. ServicePlan \in Seq(Probes)
    BY PlanIs
  <2>4. zphase' = "passive" => "generic" \in ToSet(zleft')
    BY <2>1, <2>3 DEF Contains, ToSet
  <2>5. zphase' \in {"passive", "judge"}
    BY <2>1
  <2> QED
    BY <1>1, <2>1, <2>2, <2>4, <2>5 DEF ServiceKept
<1>5. CASE ObservePassive
  <2>1. zphase = "passive" /\ UNCHANGED <<zfallback, zleft, zcut>>
    BY <1>5 DEF ObservePassive
  <2>2. "generic" \in ToSet(zleft)
    BY <2>1 DEF ServiceKept
  <2>3. PICK h \in IF Contains(zopened, "passive") THEN Hears ELSE {"silence"} :
          IF h \in {"ssh", "mysql"} THEN zwinner' = Proved("passive", h, h) /\ zphase' = "final" ELSE zphase' = "judge"
    BY <1>5 DEF ObservePassive
  <2>4. zphase' \in {"judge", "final"}
    BY <2>3
  <2>5. zphase' = "final" => Classified(zwinner')
    <3>1. zphase' = "final" => h \in {"ssh", "mysql"} /\ zwinner' = Proved("passive", h, h)
      BY <2>3
    <3>2. Proved("passive", h, h).protocol = h
      BY AttemptsAre
    <3> QED
      BY <3>1, <3>2 DEF Classified
  <2> QED
    BY <1>1, <2>1, <2>2, <2>4, <2>5 DEF ServiceKept, Classified
<1>6. CASE SkipRest
  <2>1. zphase = "judge" /\ zphase' = "judge" /\ zcut' = TRUE /\ zfallback' = zfallback
    BY <1>6 DEF SkipRest, MayLook
  <2> QED
    BY <1>1, <2>1 DEF ServiceKept
<1>7. CASE JudgeGreeting
  <2>1. PICK p : LooksAt(p) /\ Records(IF zheard = "silence" THEN Missed(p) ELSE Banner(p, zheard))
    BY <1>7 DEF JudgeGreeting
  <2>2. UNCHANGED <<zphase, zheard, zcut, zwinner>>
    BY <1>7 DEF JudgeGreeting
  <2>3. ToSet(zleft') = ToSet(zleft) \ {p} /\ zphase = "judge" /\ p \in Probes
    BY <2>1, LookIs
  <2>4. PICK a : /\ a = (IF zheard = "silence" THEN Missed(p) ELSE Banner(p, zheard))
                 /\ zfallback' = IF zfallback = NoAttempt /\ a.banner # "none" THEN a ELSE zfallback
    BY <2>1 DEF Records
  <2>5. zheard # "silence" => a.banner # "none"
    <3>1. p \in Sockets
      BY <2>3 DEF Sockets
    <3> QED
      BY <1>1, <2>4, <3>1, BannerIs
  <2>6. zfallback' = NoAttempt \/ zfallback'.banner # "none"
    BY <1>1, <2>4
  <2>7. zheard # "silence" => zfallback'.banner # "none"
    BY <1>1, <2>4, <2>5
  <2> QED
    BY <2>2, <2>3, <2>6, <2>7 DEF ServiceKept
<1>8. CASE AskAlone
  <2>1. PICK p : LooksAt(p) /\ p # "generic" /\ zphase' \in {"alone", "mail"}
    BY <1>8 DEF AskAlone
  <2>2. UNCHANGED <<zheard, zcut, zwinner, zfallback>>
    BY <1>8 DEF AskAlone
  <2>3. ToSet(zleft') = ToSet(zleft) \ {p} /\ zphase = "judge"
    BY <2>1, LookIs
  <2> QED
    BY <2>1, <2>2, <2>3 DEF ServiceKept
<1>9. CASE AloneAnswers
  <2>1. zphase = "alone" /\ zphase' = "judge" /\ UNCHANGED <<zheard, zcut, zwinner, zleft>>
    BY <1>9 DEF AloneAnswers
  <2>2. PICK a : zfallback' = IF zfallback = NoAttempt /\ a.banner # "none" THEN a ELSE zfallback
    BY <1>9 DEF AloneAnswers, Records
  <2>3. (zfallback' = NoAttempt \/ zfallback'.banner # "none") /\ (zfallback.banner # "none" => zfallback' = zfallback)
    BY <1>1, <2>2
  <2> QED
    BY <2>1, <2>3 DEF ServiceKept
<1>10. CASE MailAnswers
  <2>1. zphase = "mail" /\ UNCHANGED <<zheard, zcut, zleft>>
    BY <1>10 DEF MailAnswers
  <2>2. PICK a : IF Classified(a) THEN zwinner' = a /\ zphase' = "final" /\ zfallback' = zfallback
                 ELSE /\ zphase' = "judge"
                      /\ zfallback' = IF zfallback = NoAttempt /\ a.banner # "none" THEN a ELSE zfallback
    BY <1>10 DEF MailAnswers
  <2>3. (zfallback' = NoAttempt \/ zfallback'.banner # "none") /\ (zfallback.banner # "none" => zfallback' = zfallback)
    BY <1>1, <2>2
  <2>4. zphase' \in {"judge", "final"} /\ (zphase' = "final" => Classified(zwinner'))
    BY <2>2
  <2> QED
    BY <2>1, <2>3, <2>4 DEF ServiceKept, Classified
<1>11. CASE LeaveToWave
  <2>1. PICK p : LooksAt(p) /\ p # "generic"
    BY <1>11 DEF LeaveToWave
  <2>2. UNCHANGED <<zphase, zheard, zcut, zwinner, zfallback>>
    BY <1>11 DEF LeaveToWave
  <2>3. ToSet(zleft') = ToSet(zleft) \ {p} /\ zphase = "judge" /\ p # "generic"
    BY <2>1, LookIs
  <2> QED
    BY <2>2, <2>3 DEF ServiceKept
<1>12. CASE StartProbeWave
  <2>1. zphase = "judge" /\ zphase' = "wave" /\ zleft = <<>> /\ UNCHANGED <<zheard, zcut, zfallback, zleft>>
    BY <1>12 DEF StartProbeWave
  <2> QED
    BY <2>1 DEF ServiceKept
<1>13. CASE WaveConnects
  <2>1. UNCHANGED <<zfallback, zleft, zheard, zcut, zwinner, zphase>>
    BY <1>13 DEF WaveConnects, Connects
  <2> QED
    BY <2>1 DEF ServiceKept
<1>14. CASE WaveAnswers
  <2>1. UNCHANGED <<zfallback, zleft, zheard, zcut, zwinner, zphase>>
    BY <1>14 DEF WaveAnswers
  <2> QED
    BY <2>1 DEF ServiceKept
<1>15. CASE JoinWave
  <2>1. zphase = "wave" /\ zphase' = "replay" /\ UNCHANGED <<zheard, zcut, zfallback, zleft>>
    BY <1>15 DEF JoinWave
  <2> QED
    BY <2>1 DEF ServiceKept
<1>16. CASE Replay
  <2>1. zphase = "replay" /\ UNCHANGED <<zheard, zcut, zleft>> /\ zphase' \in {"compose", "final"}
        /\ zfallback' = IF zfallback = NoAttempt THEN FirstWith(Replayed, HoldsBanner) ELSE zfallback
    BY <1>16 DEF Replay
  <2>2. DOMAIN Replayed = 1 .. Len(zwave) /\ Len(zwave) \in Nat
    BY <2>1, ReplayedIs
  <2>3. FirstWith(Replayed, HoldsBanner) = NoAttempt \/ FirstWith(Replayed, HoldsBanner).banner # "none"
    BY <2>2, FirstBanner DEF HoldsBanner
  <2>4. (zfallback' = NoAttempt \/ zfallback'.banner # "none") /\ (zfallback.banner # "none" => zfallback' = zfallback)
    BY <1>1, <2>1, <2>3
  <2>5. zleft = <<>> /\ ToSet(<<>>) = {}
    BY <2>1, EmptyElements DEF ServiceKept
  <2> QED
    BY <2>1, <2>4, <2>5 DEF ServiceKept
<1>17. CASE Compose
  <2>1. zphase = "compose" /\ zphase' = "final" /\ UNCHANGED <<zheard, zcut, zfallback, zleft>>
    BY <1>17 DEF Compose
  <2>2. zleft = <<>>
    BY <2>1 DEF ServiceKept
  <2> QED
    BY <2>1, <2>2, EmptyElements DEF ServiceKept
<1>18. CASE NothingToAsk
  <2>1. zphase = "judge" /\ zphase' = "final" /\ zleft = <<>> /\ UNCHANGED <<zheard, zcut, zfallback, zleft>>
    BY <1>18 DEF NothingToAsk
  <2> QED
    BY <2>1, EmptyElements DEF ServiceKept
<1>19. CASE FinishService
  <2>1. zphase' = "done" /\ zfallback' = zfallback
    BY <1>19 DEF FinishService
  <2> QED
    BY <1>1, <2>1 DEF ServiceKept
<1>20. CASE CancelProbe
  <2>1. UNCHANGED <<zfallback, zleft, zheard, zcut, zwinner, zphase>>
    BY <1>20 DEF CancelProbe
  <2> QED
    BY <2>1 DEF ServiceKept
<1>21. CASE TimeRuns
  <2>1. UNCHANGED <<zfallback, zleft, zheard, zcut, zwinner, zphase>>
    BY <1>21 DEF TimeRuns
  <2> QED
    BY <2>1 DEF ServiceKept
<1> QED
  BY <1>2, <1>3, <1>4, <1>5, <1>6, <1>7, <1>8, <1>9, <1>10, <1>11, <1>12, <1>13, <1>14, <1>15, <1>16, <1>17, <1>18, <1>19, <1>20, <1>21 DEF ServiceNext

\* Sockets are counted, and only a cancel or the deadline drops an exchange.
LEMMA SilenceKept ==
  ASSUME ServiceTypes, ServiceSilence, ServiceNext
  PROVE  ServiceSilence'
<1>1. /\ zopened \in Seq(Sockets) /\ zconns \in Nat /\ zgaveup \in BOOLEAN
      /\ zworld \in [cancelled : BOOLEAN, time : {"ample", "low", "over"}]
      /\ (zgaveup => GivesUp) /\ (zgaveup \/ zconns = Len(zopened))
  BY DEF ServiceTypes, ServiceSilence, GivesUp
<1>2. CASE UNCHANGED <<zworld, zgaveup, zconns, zopened>>
  BY <1>2 DEF ServiceSilence
<1>3. CASE UNCHANGED <<zworld, zconns, zopened>> /\ (zgaveup => zgaveup') /\ (zgaveup' => zgaveup \/ GivesUp)
  <2>1. zgaveup' => GivesUp'
    BY <1>1, <1>3 DEF GivesUp
  <2>2. zgaveup' \/ zconns' = Len(zopened')
    BY <1>1, <1>3
  <2> QED
    BY <2>1, <2>2 DEF ServiceSilence, GivesUp
<1>4. CASE zworld' = zworld /\ (\E p : zopened' = Append(zopened, p)) /\ zconns' = zconns + 1 /\ (zgaveup => zgaveup') /\ (zgaveup' => zgaveup \/ GivesUp)
  <2>1. Len(zopened') = Len(zopened) + 1
    BY <1>1, <1>4
  <2>2. zgaveup' => GivesUp'
    BY <1>1, <1>4 DEF GivesUp
  <2>3. zgaveup' \/ zconns' = Len(zopened')
    BY <1>1, <1>4, <2>1
  <2> QED
    BY <2>2, <2>3 DEF ServiceSilence, GivesUp
<1>5. CASE zworld' = zworld /\ GivesUp /\ zgaveup'
  BY <1>5 DEF ServiceSilence, GivesUp
<1>6. CASE CancelProbe
  <2>1. zworld' = [zworld EXCEPT !.cancelled = TRUE] /\ UNCHANGED <<zgaveup, zconns, zopened>>
    BY <1>6 DEF CancelProbe
  <2>2. zworld'.cancelled
    BY <1>1, <2>1
  <2> QED
    BY <1>1, <2>1, <2>2 DEF ServiceSilence
<1>7. CASE TimeRuns
  <2>1. /\ zworld' = [zworld EXCEPT !.time = IF zworld.time = "ample" THEN "low" ELSE "over"]
        /\ UNCHANGED <<zgaveup, zconns, zopened>> /\ zworld.time # "over"
    BY <1>7 DEF TimeRuns
  <2>2. zworld'.cancelled = zworld.cancelled
    BY <1>1, <2>1
  <2> QED
    BY <1>1, <2>1, <2>2 DEF ServiceSilence, GivesUp
<1>8. CASE BeginService \/ AskAlone
  <2>1. zworld' = zworld /\ (UNCHANGED <<zgaveup, zconns, zopened>> \/ \E p : Connects(p))
    BY <1>8 DEF BeginService, AskAlone
  <2>2. CASE \E p : Connects(p)
    <3>1. PICK p : Connects(p)
      BY <2>2
    <3>2. CASE GivesUp
      BY <1>5, <2>1, <3>1, <3>2 DEF Connects
    <3>3. CASE ~GivesUp
      BY <1>4, <2>1, <3>1, <3>3 DEF Connects
    <3> QED
      BY <3>2, <3>3
  <2> QED
    BY <1>2, <2>1, <2>2
<1>9. CASE WaveConnects
  <2>1. zworld' = zworld /\ zconns' = zconns + 1
    BY <1>9 DEF WaveConnects, Connects
  <2>2. \/ GivesUp /\ zgaveup'
        \/ (\E p : zopened' = Append(zopened, p)) /\ (zgaveup => zgaveup') /\ (zgaveup' => zgaveup \/ GivesUp)
    <3>1. PICK p \in ToSet(zwave) :
            IF p = "tls"
            THEN /\ zopened' = IF zworld.cancelled THEN zopened ELSE Append(zopened, p)
                 /\ zgaveup' = (zgaveup \/ zworld.cancelled)
            ELSE Connects(p)
      BY <1>9 DEF WaveConnects
    <3>2. CASE p = "tls"
      <4>1. CASE zworld.cancelled
        BY <3>1, <3>2, <4>1 DEF GivesUp
      <4>2. CASE ~zworld.cancelled
        BY <3>1, <3>2, <4>2
      <4> QED
        BY <4>1, <4>2
    <3>3. CASE p # "tls"
      <4>1. CASE GivesUp
        BY <3>1, <3>3, <4>1 DEF Connects
      <4>2. CASE ~GivesUp
        BY <3>1, <3>3, <4>2 DEF Connects
      <4> QED
        BY <4>1, <4>2
    <3> QED
      BY <3>2, <3>3
  <2> QED
    BY <1>4, <1>5, <2>1, <2>2
<1>10. CASE ObservePassive \/ AloneAnswers \/ MailAnswers \/ Compose
  BY <1>3, <1>10 DEF ObservePassive, AloneAnswers, MailAnswers, Compose, Interrupted
<1>11. CASE WaveAnswers
  <2>1. UNCHANGED <<zworld, zconns, zopened>>
    BY <1>11 DEF WaveAnswers
  <2>2. \E p : zgaveup' = (zgaveup \/ zworld.cancelled \/ (p # "tls" /\ zworld.time = "over"))
    BY <1>11 DEF WaveAnswers
  <2>3. (zgaveup => zgaveup') /\ (zgaveup' => zgaveup \/ GivesUp)
    BY <2>2 DEF GivesUp
  <2> QED
    BY <1>3, <2>1, <2>3
<1>12. CASE RefuseService \/ StopService
  BY <1>2, <1>12, EndedBare
<1> QED
  BY <1>2, <1>6, <1>7, <1>8, <1>9, <1>10, <1>11, <1>12
     DEF ServiceNext, SkipRest, JudgeGreeting, LeaveToWave, StartProbeWave, JoinWave, Replay,
         NothingToAsk, FinishService

LEMMA OutcomeKept ==
  ASSUME ServiceTypes, ServiceKept, ServiceNext
  PROVE  ServiceOutcome'
<1>1. CASE FinishService
  <2>1. PICK result : result = ServiceResult
    OBVIOUS
  <2>2. zout' = [how |-> "done", protocol |-> result.protocol, tls |-> result.tls,
                 banner |-> result.banner, identified |-> Classified(result),
                 matchedBy |-> IF Classified(result) THEN result.probe ELSE "none",
                 executed |-> Len(zmade), connections |-> zconns]
    BY <1>1, <2>1 DEF FinishService, ServiceResult
  <2>3. /\ zphase = "final" /\ ~zworld.cancelled /\ zcut' = (zcut \/ zworld.time = "over")
        /\ UNCHANGED <<zworld, zheard, zleft, zfallback, zwinner, zconns>>
    BY <1>1 DEF FinishService
  <2>4. ServiceResult' = result
    BY <2>1, <2>3 DEF ServiceResult, Classified
  <2>5. ~zcut /\ zheard \notin {"unasked", "silence"} => Classified(zwinner) \/ zfallback.banner # "none"
    BY <2>3, EmptyElements DEF ServiceKept
  <2>6. ~zcut' => ~zcut
    BY <2>3
  <2>7. /\ zout'.protocol = result.protocol /\ zout'.tls = result.tls /\ zout'.banner = result.banner
        /\ zout'.connections = zconns'
    BY <2>2, <2>3
  <2>8. zout'.identified = Classified(result)
    BY <2>2
  <2>9. /\ ~zworld'.cancelled /\ (zworld'.time = "over" => zcut')
        /\ ~zcut' /\ zheard' \notin {"unasked", "silence"} => Classified(zwinner') \/ zfallback'.banner # "none"
    BY <2>3, <2>5, <2>6
  <2> QED
    BY <2>4, <2>7, <2>8, <2>9 DEF ServiceOutcome, Classified
<1>2. CASE RefuseService \/ StopService
  BY <1>2, EndedBare DEF ServiceOutcome
<1>3. ServiceNext => zphase # "done"
  BY SurroundingsStay
<1>4. FinishService \/ RefuseService \/ StopService \/ zphase' # "done"
  BY <1>3 DEF ServiceNext, BeginService, ObservePassive, SkipRest, JudgeGreeting, LooksAt, MayLook, AskAlone, AloneAnswers, MailAnswers,
         LeaveToWave, StartProbeWave, WaveConnects, WaveAnswers, JoinWave, Replay, Compose, NothingToAsk,
         CancelProbe, TimeRuns
<1> QED
  BY <1>1, <1>2, <1>4 DEF ServiceOutcome, ServiceConcluded

LEMMA ServiceStarts == ServiceInit => ServiceInv
<1> SUFFICES ASSUME ServiceInit PROVE ServiceInv
  OBVIOUS
<1>1. /\ zphase = "start" /\ zheard = "unasked" /\ zleft = <<>> /\ zwave = <<>> /\ zthread = <<>>
      /\ zfallback = NoAttempt /\ zwinner = NoAttempt /\ zcut = FALSE
      /\ zconns = 0 /\ zout = NoConclusion /\ zopened = <<>> /\ zgaveup = FALSE
      /\ zworld = [cancelled |-> FALSE, time |-> "ample"]
  BY DEF ServiceInit
<1>2. zout.how = "none" /\ ~ServiceConcluded
  BY <1>1 DEF NoConclusion, ServiceConcluded
<1>3. ToSet(zleft) = {} /\ ToSet(zwave) = {} /\ ToSet(zopened) = {} /\ IsInjective(zleft) /\ IsInjective(zwave) /\ IsInjective(zopened)
  BY <1>1, EmptyElements
<1>4. ServiceTypes
  <2>1. ztask \in [port : Suggestions, level : 1 .. 5, context : BOOLEAN]
    <3>1. PICK task \in ServiceTasks, context \in BOOLEAN :
            ztask = [port |-> task[1], level |-> task[2], context |-> context]
      BY DEF ServiceInit
    <3>2. task[1] \in Suggestions /\ task[2] \in 1 .. 5
      BY ServiceAssumption
    <3> QED
      BY <3>1, <3>2
  <2>2. zserver \in Server
    BY ServiceAssumption DEF ServiceInit
  <2>3. zworld \in [cancelled : BOOLEAN, time : {"ample", "low", "over"}]
    BY <1>1
  <2>4. zphase \in ServicePhases /\ zheard \in Hearings
    BY <1>1 DEF ServicePhases, BeforeWave, Hearings
  <2>5. zleft \in Seq(Probes) /\ zwave \in Seq(WaveProbes) /\ zopened \in Seq(Sockets)
    BY <1>1
  <2>6. zfallback \in Attempts /\ zwinner \in Attempts
    BY <1>1, NoneIs
  <2>7. zcut \in BOOLEAN /\ zgaveup \in BOOLEAN /\ zconns \in Nat
    BY <1>1
  <2> QED
    BY <1>2, <2>1, <2>2, <2>3, <2>4, <2>5, <2>6, <2>7 DEF ServiceTypes
<1>5. ServiceThread
  BY <1>1, <1>2 DEF ServiceThread
<1>6. ServiceRows
  BY <1>1, <1>3 DEF ServiceRows
<1>7. ServiceHeard
  BY <1>1, <1>3 DEF ServiceHeard
<1>8. ServiceBudget
  <2>1. Len(ServicePlan) \in Nat /\ Len(zleft) = 0 /\ Len(zwave) = 0
    BY <1>1, <1>4, PlanIs
  <2> QED
    BY <1>1, <2>1 DEF ServiceBudget
<1>9. ServiceWave
  BY <1>1, <1>2 DEF ServiceWave, PastWave
<1>10. ServiceEvidence
  BY <1>1, NoneIs DEF ServiceEvidence
<1>11. ServiceKept
  BY <1>1 DEF ServiceKept
<1>12. ServiceSilence
  <2>1. Len(zopened) = 0
    BY <1>1
  <2> QED
    BY <1>1, <2>1 DEF ServiceSilence
<1>13. ServiceOutcome
  BY <1>2 DEF ServiceOutcome
<1> QED
  BY <1>4, <1>5, <1>6, <1>7, <1>8, <1>9, <1>10, <1>11, <1>12, <1>13 DEF ServiceInv

LEMMA ServiceStutters == ServiceInv /\ UNCHANGED servicevars => ServiceInv'
<1> SUFFICES ASSUME ServiceInv, UNCHANGED servicevars PROVE ServiceInv'
  OBVIOUS
<1>1. UNCHANGED <<ztask, zscope, zserver, zworld, zphase, zheard, zleft, zwave, zthread, zmade, zfallback, zwinner,
                  zcut, zconns, zout, zopened, zgaveup>>
  BY DEF servicevars
<1>2. ServiceTypes'
  BY <1>1 DEF ServiceInv, ServiceTypes
<1>3. ServiceThread' /\ ServiceRows' /\ ServiceHeard'
  BY <1>1 DEF ServiceInv, ServiceThread, ServiceConcluded, ServiceRows, ServiceHeard
<1>4. ServiceBudget'
  BY <1>1 DEF ServiceInv, ServiceBudget, Unasked, AskedFor, ServicePlan
<1>5. ServiceWave'
  BY <1>1 DEF ServiceInv, ServiceWave, WaveAnswer, Backed, Classified, AllAnswered, PastWave, ServiceConcluded, WinnerStands
<1>6. ServiceEvidence' /\ ServiceKept' /\ ServiceSilence'
  BY <1>1 DEF ServiceInv, ServiceEvidence, Backed, ServiceKept, Classified, ServiceSilence
<1>7. ServiceOutcome'
  BY <1>1 DEF ServiceInv, ServiceOutcome, ServiceConcluded, ServiceResult, Classified
<1> QED
  BY <1>2, <1>3, <1>4, <1>5, <1>6, <1>7 DEF ServiceInv

\* The attempt a conclusion is made from.
LEMMA ResultIs ==
  ASSUME ServiceTypes, ServiceEvidence
  PROVE  ServiceResult \in Attempts /\ Backed(ServiceResult)
BY DEF ServiceTypes, ServiceEvidence, ServiceResult

LEMMA ProofsStand ==
  ASSUME ServiceTypes, ServiceEvidence, ServiceOutcome
  PROVE  ProtocolProved
<1> SUFFICES ASSUME ServiceConcluded
             PROVE  CASE zout.protocol = "unknown" -> ~zout.identified
                      [] zout.protocol \in {"ssh", "mysql"} -> zserver.first = zout.protocol
                      [] zout.protocol = "tls" -> zserver.tls /\ zout.tls
                      [] zout.protocol = "ftp" -> zserver.first = "220" /\ zserver.mail = "ftp"
                      [] zout.protocol = "smtp" ->
                           IF zout.tls THEN zserver.tls /\ zserver.inside = "smtp"
                           ELSE zserver.first = "220" /\ zserver.mail = "smtp"
                      [] zout.protocol = "http" /\ zout.tls -> zserver.tls /\ zserver.inside = "http"
                      [] OTHER -> zout.protocol \in zserver.answers
  BY DEF ProtocolProved
<1>1. PICK r \in Attempts : r = ServiceResult /\ Backed(r)
  BY ResultIs
<1>2. zout.protocol = r.protocol /\ zout.tls = r.tls
  BY <1>1 DEF ServiceOutcome
<1>3. zout.identified = Classified(r)
  BY <1>1 DEF ServiceOutcome
<1>4. r.protocol \in Protocols
  BY DEF Attempts
<1>5. CASE r.protocol = "unknown"
  <2>1. ~zout.identified
    BY <1>3, <1>5 DEF Classified
  <2> QED
    BY <1>2, <1>5, <2>1
<1>6. CASE r.protocol \in {"ssh", "mysql"}
  BY <1>1, <1>2, <1>6 DEF Backed
<1>7. CASE r.protocol = "tls"
  BY <1>1, <1>2, <1>7 DEF Backed
<1>8. CASE r.protocol = "ftp"
  BY <1>1, <1>2, <1>8 DEF Backed
<1>9. CASE r.protocol = "smtp"
  BY <1>1, <1>2, <1>9 DEF Backed
<1>10. CASE r.protocol = "http"
  <2>1. CASE r.tls
    BY <1>1, <1>2, <1>10, <2>1 DEF Backed
  <2>2. CASE ~r.tls
    BY <1>1, <1>2, <1>10, <2>2 DEF Backed
  <2> QED
    BY <2>1, <2>2
<1>11. CASE r.protocol \in {"redis", "postgres", "smb"}
  BY <1>1, <1>2, <1>11 DEF Backed
<1> QED
  BY <1>4, <1>5, <1>6, <1>7, <1>8, <1>9, <1>10, <1>11 DEF Protocols

LEMMA WinnerIsFirst ==
  ASSUME ServiceTypes, ServiceWave, ServiceOutcome
  PROVE  WinnerByPlan
<1> DEFINE F(i) == /\ \E k \in DOMAIN zthread : zthread[k].probe = zwave[i] /\ Classified(zthread[k])
                   /\ \A j \in 1..(i - 1) : \A k \in DOMAIN zthread :
                        zthread[k].probe = zwave[j] => ~Classified(zthread[k])
           first == CHOOSE i \in DOMAIN zwave : F(i)
<1> SUFFICES ASSUME ServiceConcluded, zwave # <<>>, Classified(zwinner), zthread # <<>>
             PROVE  IF zwave[first] = "tls" THEN zwinner.probe \in {"tls", "http", "smtp"} /\ zout.tls
                    ELSE zwinner.probe = zwave[first]
  BY DEF WinnerByPlan
<1>1. WinnerStands
  BY DEF ServiceWave, PastWave
<1>2. PICK i \in DOMAIN zwave :
        /\ F(i)
        /\ IF zwave[i] = "tls" THEN zwinner.probe \in {"tls", "http", "smtp"} /\ zwinner.tls
           ELSE zwinner.probe = zwave[i]
  BY <1>1 DEF WinnerStands
<1>3. first \in DOMAIN zwave /\ F(first)
  BY <1>2
<1>4. DOMAIN zwave = 1 .. Len(zwave) /\ Len(zwave) \in Nat
  BY DEF ServiceTypes
<1>5. ASSUME NEW x \in DOMAIN zwave, NEW y \in DOMAIN zwave, F(x), F(y) PROVE ~(x < y)
  <2> SUFFICES ASSUME x < y PROVE FALSE
    OBVIOUS
  <2>1. x \in 1 .. (y - 1)
    BY <1>4
  <2>2. PICK k \in DOMAIN zthread : zthread[k].probe = zwave[x] /\ Classified(zthread[k])
    BY <1>5
  <2> QED
    BY <1>5, <2>1, <2>2
<1> HIDE DEF F, first
<1>6. first = i
  <2>1. ~(first < i) /\ ~(i < first)
    BY <1>2, <1>3, <1>5
  <2> QED
    BY <1>3, <1>4, <2>1
<1>7. zout.tls = zwinner.tls
  BY DEF ServiceOutcome, ServiceResult
<1> QED
  BY <1>2, <1>6, <1>7

LEMMA ServiceMeans == ServiceInv => ServiceTypeOK /\ ServiceJustified
<1> SUFFICES ASSUME ServiceInv PROVE ServiceTypeOK /\ ServiceJustified
  OBVIOUS
<1>1. /\ ServiceTypes /\ ServiceRows /\ ServiceHeard /\ ServiceBudget
      /\ ServiceWave /\ ServiceEvidence /\ ServiceSilence /\ ServiceOutcome
  BY DEF ServiceInv
<1>2. ServiceTypeOK
  <2>1. zphase \in {"start", "passive", "judge", "alone", "mail", "wave", "replay", "compose", "final", "done"}
    BY <1>1 DEF ServiceTypes, ServicePhases, BeforeWave
  <2>2. zserver \in Server /\ zout.how \in {"none", "failed", "cancelled", "empty", "done"}
    BY <1>1 DEF ServiceTypes
  <2>3. Len(ServicePlan) <= 6 /\ zconns <= Len(ServicePlan) + 1
    BY <1>1, PlanIs DEF ServiceBudget
  <2> QED
    BY <2>1, <2>2, <2>3 DEF ServiceTypeOK
<1>3. ProtocolProved /\ WinnerByPlan
  BY <1>1, ProofsStand, WinnerIsFirst
<1>4. SilenceIsTheServers
  <2> SUFFICES ASSUME ServiceConcluded, ~zcut
               PROVE  ~zgaveup /\ zout.connections = Len(zopened)
    BY DEF SilenceIsTheServers
  <2>1. ~zworld.cancelled /\ zworld.time # "over" /\ zout.connections = zconns
    BY <1>1 DEF ServiceOutcome
  <2>2. ~zgaveup /\ zconns = Len(zopened)
    BY <1>1, <2>1 DEF ServiceSilence
  <2> QED
    BY <2>1, <2>2
<1>5. BannerKept
  <2> SUFFICES ASSUME ServiceConcluded, ~zcut, ~zout.identified, zheard \notin {"unasked", "silence"}
               PROVE  zout.banner # "none"
    BY DEF BannerKept
  <2>1. zout.identified = Classified(ServiceResult) /\ zout.banner = ServiceResult.banner
    BY <1>1 DEF ServiceOutcome
  <2>2. Classified(zwinner) \/ zfallback.banner # "none"
    BY <1>1 DEF ServiceOutcome
  <2>3. ~Classified(zwinner)
    BY <2>1 DEF ServiceResult
  <2> QED
    BY <2>1, <2>2, <2>3 DEF ServiceResult
<1>6. NoReconnect
  <2>1. \A i, k \in DOMAIN zopened : zopened[i] = zopened[k] => i = k
    BY <1>1 DEF ServiceRows, IsInjective
  <2>2. \A p : Contains(zopened, p) => p \in ToSet(zopened)
    BY DEF Contains, ToSet
  <2>3. zheard # "unasked" => ~Contains(zopened, "ssh") /\ ~Contains(zopened, "mysql")
    BY <1>1, <2>2 DEF ServiceHeard, AloneProbes
  <2>4. zheard \in {"line", "silence"} => ~Contains(zopened, "smtp") /\ ~Contains(zopened, "ftp")
    BY <1>1, <2>2 DEF ServiceHeard, MailProbes
  <2> QED
    BY <2>1, <2>3, <2>4 DEF NoReconnect
<1> QED
  BY <1>2, <1>3, <1>4, <1>5, <1>6 DEF ServiceJustified

\* A service task concludes what the server proved and the plan put first, says
\* what it dropped, keeps a banner it heard, and asks nothing twice.
THEOREM ServiceIsSound == ServiceSpec => [](ServiceTypeOK /\ ServiceJustified)
<1>1. ServiceInv /\ [ServiceNext]_servicevars => ServiceInv'
  <2> SUFFICES ASSUME ServiceInv, [ServiceNext]_servicevars PROVE ServiceInv'
    OBVIOUS
  <2>1. CASE UNCHANGED servicevars
    BY <2>1, ServiceStutters
  <2>2. CASE ServiceNext
    <3>1. /\ ServiceTypes /\ ServiceThread /\ ServiceRows /\ ServiceHeard /\ ServiceBudget
          /\ ServiceWave /\ ServiceEvidence /\ ServiceKept /\ ServiceSilence /\ ServiceOutcome
      BY DEF ServiceInv
    <3>2. ServiceTypes' /\ ServiceThread' /\ ServiceRows' /\ ServiceHeard' /\ ServiceBudget'
      BY <2>2, <3>1, TypesKept, ThreadKept, RowsKept, HeardKept, BudgetKept
    <3>3. ServiceWave' /\ ServiceEvidence' /\ ServiceKept' /\ ServiceSilence' /\ ServiceOutcome'
      BY <2>2, <3>1, WaveKept, EvidenceKept, KeptKept, SilenceKept, OutcomeKept
    <3> QED
      BY <3>2, <3>3 DEF ServiceInv
  <2> QED
    BY <2>1, <2>2
<1>2. ServiceInv => ServiceTypeOK /\ ServiceJustified
  BY ServiceMeans
<1> QED
  BY <1>1, <1>2, ServiceStarts, PTL DEF ServiceSpec

-----------------------------------------------------------------------------
(* What is said of an operating system.                                      *)

\* The least of three numbers.
LEMMA LeastOfThree ==
  ASSUME NEW a \in Nat, NEW b \in Nat, NEW c \in Nat
  PROVE  Min({a, b, c}) = IF a <= b /\ a <= c THEN a ELSE IF b <= c THEN b ELSE c
<1> DEFINE S == {a, b, c}
           m == IF a <= b /\ a <= c THEN a ELSE IF b <= c THEN b ELSE c
<1>1. m \in S /\ \A y \in S : m <= y
  OBVIOUS
<1>2. ASSUME NEW x \in S, \A y \in S : x <= y PROVE x = m
  BY <1>2
<1> HIDE DEF m
<1>3. Min(S) = m
  BY <1>1, <1>2 DEF Min
<1> QED
  BY <1>3 DEF m

LEMMA ConfidenceIs ==
  ASSUME NEW kinds \in Nat, NEW weight \in Nat, NEW ceiling \in Nat, NEW cap \in Nat
  PROVE  /\ Confidence(kinds, weight, ceiling, cap) \in 0 .. 95
         /\ Confidence(kinds, weight, ceiling, cap) <= cap
         /\ Confidence(kinds, weight, ceiling, cap) > ceiling => kinds >= 2
<1> DEFINE raised == 30 + 15 * kinds + Min({weight, 25})
           bounded == IF kinds < 2 THEN Min({raised, ceiling}) ELSE raised
<1>1. raised \in Nat
  BY LesserOfTwo
<1>2. Confidence(kinds, weight, ceiling, cap) = Min({bounded, cap, 95})
  BY DEF Confidence
<1> HIDE DEF raised
<1>3. bounded \in Nat /\ (kinds < 2 => bounded <= ceiling)
  BY <1>1, LesserOfTwo
<1> HIDE DEF bounded
<1>4. Min({bounded, cap, 95}) = IF bounded <= cap /\ bounded <= 95 THEN bounded ELSE IF cap <= 95 THEN cap ELSE 95
  BY <1>3, LeastOfThree
<1> QED
  BY <1>2, <1>3, <1>4

\* More kinds of evidence and more weight never make less of it.
LEMMA ConfidenceGrows ==
  ASSUME NEW k \in Nat, NEW l \in Nat, k <= l, NEW v \in Nat, NEW w \in Nat, v <= w, NEW cap \in Nat
  PROVE  Confidence(k, v, 65, cap) <= Confidence(l, w, 65, cap)
<1> DEFINE raised(n, x) == 30 + 15 * n + Min({x, 25})
           bounded(n, x) == IF n < 2 THEN Min({raised(n, x), 65}) ELSE raised(n, x)
<1>1. Min({v, 25}) \in Nat /\ Min({w, 25}) \in Nat /\ Min({v, 25}) <= Min({w, 25})
  BY LesserOfTwo
<1>2. PICK p \in Nat, q \in Nat : p = Min({v, 25}) /\ q = Min({w, 25}) /\ p <= q
  BY <1>1
<1>3. PICK a \in Nat, b \in Nat : a = raised(k, v) /\ b = raised(l, w)
  BY <1>2
<1>4. a = 30 + 15 * k + p /\ b = 30 + 15 * l + q
  BY <1>2, <1>3
<1>5. Min({a, 65}) = (IF a <= 65 THEN a ELSE 65) /\ Min({b, 65}) = (IF b <= 65 THEN b ELSE 65)
  BY LesserOfTwo
<1>6. PICK c \in Nat, d \in Nat : c = bounded(k, v) /\ d = bounded(l, w)
  BY <1>3, <1>5
<1>7. c = (IF k < 2 THEN (IF a <= 65 THEN a ELSE 65) ELSE a) /\ d = (IF l < 2 THEN (IF b <= 65 THEN b ELSE 65) ELSE b)
  BY <1>3, <1>5, <1>6
<1>8. c <= d
  BY <1>2, <1>4, <1>7
<1>9. Confidence(k, v, 65, cap) = Min({c, cap, 95}) /\ Confidence(l, w, 65, cap) = Min({d, cap, 95})
  BY <1>6 DEF Confidence
<1> HIDE DEF raised, bounded
<1> QED
  BY <1>8, <1>9, LeastOfThree

\* What features weigh together.
LEMMA WeightIs ==
  ASSUME NEW F, IsFiniteSet(F), \A f \in F : f.weight \in 1 .. 50
  PROVE  Weight(F) \in Nat /\ \A G \in SUBSET F : Weight(G) \in Nat /\ Weight(G) <= Weight(F)
<1> DEFINE p == [f \in F |-> {f} \X (1 .. f.weight)]
           Pieces == {p[f] : f \in F}
           Counted(G) == UNION {{f} \X (1 .. f.weight) : f \in G}
<1>1. IsFiniteSet(Pieces)
  <2>1. DOMAIN p = F /\ p = [f \in F |-> p[f]]
    OBVIOUS
  <2> HIDE DEF p
  <2> QED
    BY <2>1, FiniteImage
<1>2. ASSUME NEW f \in F PROVE IsFiniteSet(p[f])
  <2>1. 1 \in Int /\ f.weight \in Int
    OBVIOUS
  <2>2. IsFiniteSet({f}) /\ IsFiniteSet(1 .. f.weight)
    BY <2>1, FS_Singleton, FS_Interval
  <2>3. IsFiniteSet({f} \X (1 .. f.weight))
    BY <2>2, FS_Product
  <2> QED
    BY <2>3
<1>3. Counted(F) = UNION Pieces
  OBVIOUS
<1> HIDE DEF p
<1>4. \A T \in Pieces : IsFiniteSet(T)
  BY <1>2
<1> HIDE DEF Pieces
<1>5. IsFiniteSet(Counted(F))
  BY <1>1, <1>3, <1>4, FS_UNION
<1>6. \A G \in SUBSET F : Counted(G) \in SUBSET Counted(F)
  OBVIOUS
<1>7. Weight(F) = Cardinality(Counted(F)) /\ \A G \in SUBSET F : Weight(G) = Cardinality(Counted(G))
  BY DEF Weight
<1> HIDE DEF Counted
<1>8. \A G \in SUBSET F : IsFiniteSet(Counted(G)) /\ Cardinality(Counted(G)) <= Cardinality(Counted(F))
  BY <1>5, <1>6, FS_Subset
<1> QED
  BY <1>5, <1>7, <1>8, FS_CardinalityType

\* The kinds of the features a host has.
LEMMA KindsIs ==
  ASSUME NEW F, IsFiniteSet(F)
  PROVE  /\ IsFiniteSet(Classes(F)) /\ Cardinality(Classes(F)) \in Nat
         /\ \A G \in SUBSET F : Cardinality(Classes(G)) \in Nat /\ Cardinality(Classes(G)) <= Cardinality(Classes(F))
         /\ IsFiniteSet(SignalKinds(F)) /\ Cardinality(SignalKinds(F)) \in Nat
<1> DEFINE c == [f \in F |-> ClassOf(f.shows[1])]
           s == [f \in F |-> f.shows[1]]
<1>1. IsFiniteSet({c[f] : f \in F}) /\ IsFiniteSet({s[f] : f \in F})
  BY FiniteImage
<1>2. Classes(F) = {c[f] : f \in F} /\ SignalKinds(F) = {s[f] : f \in F}
  BY DEF Classes, SignalKinds
<1>3. IsFiniteSet(Classes(F)) /\ IsFiniteSet(SignalKinds(F))
  BY <1>1, <1>2
<1>4. \A G \in SUBSET F : Classes(G) \in SUBSET Classes(F)
  BY DEF Classes
<1>5. \A G \in SUBSET F : IsFiniteSet(Classes(G)) /\ Cardinality(Classes(G)) <= Cardinality(Classes(F))
  BY <1>3, <1>4, FS_Subset
<1> QED
  BY <1>3, <1>5, FS_CardinalityType

\* Of what is scored and numbered there is a best, the first of the best score.
LEMMA BestOf ==
  ASSUME NEW S, S # {}, NEW c, NEW d, \A x \in S : c[x] \in 0 .. 95 /\ d[x] \in Nat
  PROVE  \E v \in S : \A w \in S : c[v] > c[w] \/ (c[v] = c[w] /\ d[v] <= d[w])
<1> DEFINE T == {95 - c[x] : x \in S}
<1>1. T \subseteq Nat /\ T # {}
  OBVIOUS
<1>2. PICK m \in T : \A n \in T : m <= n
  BY <1>1, Smallest
<1>3. PICK x \in S : m = 95 - c[x]
  BY <1>2
<1>4. ASSUME NEW w \in S PROVE c[w] <= c[x]
  <2>1. m <= 95 - c[w] /\ c[w] \in 0 .. 95 /\ c[x] \in 0 .. 95
    BY <1>2
  <2> QED
    BY <1>3, <2>1
<1> DEFINE U == {d[w] : w \in {y \in S : c[y] = c[x]}}
<1>5. U \subseteq Nat /\ U # {}
  OBVIOUS
<1>6. PICK k \in U : \A n \in U : k <= n
  BY <1>5, Smallest
<1>7. PICK v \in S : c[v] = c[x] /\ d[v] = k
  BY <1>6
<1>8. \A w \in S : c[w] = c[x] => d[v] <= d[w]
  BY <1>6, <1>7
<1>9. ASSUME NEW w \in S PROVE c[v] > c[w] \/ (c[v] = c[w] /\ d[v] <= d[w])
  BY <1>4, <1>7, <1>8
<1> QED
  BY <1>9

LEMMA VerdictsAre ==
  ASSUME NEW rules, Validated(rules), NEW evidence, NEW v \in Verdicts(rules, evidence)
  PROVE  /\ v.rule \in rules /\ v.hits = Hits(v.rule.features, evidence) /\ v.hits # {}
         /\ VetoedBy(v.rule, evidence) = {}
         /\ OsConfidence(v) \in 0 .. 95 /\ OsConfidence(v) <= v.rule.cap
         /\ OsConfidence(v) > 65 => Cardinality(Classes(v.hits)) >= 2
<1>1. PICK r \in rules : /\ v = [rule |-> r, hits |-> Hits(r.features, evidence)]
                         /\ VetoedBy(r, evidence) = {} /\ Hits(r.features, evidence) # {}
  BY DEF Verdicts
<1>2. v.rule = r /\ v.hits = Hits(r.features, evidence)
  BY <1>1
<1>3. r.cap \in Nat /\ IsFiniteSet(r.features) /\ \A f \in r.features : f.weight \in 1 .. 50
  BY DEF Validated
<1>4. v.hits \in SUBSET r.features
  BY <1>2 DEF Hits
<1>5. IsFiniteSet(v.hits) /\ \A f \in v.hits : f.weight \in 1 .. 50
  BY <1>3, <1>4, FS_Subset
<1>6. Cardinality(Classes(v.hits)) \in Nat /\ Weight(v.hits) \in Nat
  BY <1>5, WeightIs, KindsIs
<1>7. OsConfidence(v) = Confidence(Cardinality(Classes(v.hits)), Weight(v.hits), 65, r.cap)
  BY <1>2 DEF OsConfidence
<1>8. /\ OsConfidence(v) \in 0 .. 95 /\ OsConfidence(v) <= r.cap
      /\ OsConfidence(v) > 65 => Cardinality(Classes(v.hits)) >= 2
  BY <1>3, <1>6, <1>7, ConfidenceIs
<1> QED
  BY <1>1, <1>2, <1>8

\* The verdicts for a family, and the strongest that speaks for it.
Voices(family, rules, evidence) == {v \in Verdicts(rules, evidence) : v.rule.family = family}
SpokenBy(f, best, rules, evidence) ==
  /\ best \in Voices(f.family, rules, evidence)
  /\ \A w \in Voices(f.family, rules, evidence) : OsConfidence(w) <= OsConfidence(best)
  /\ f.confidence = OsConfidence(best) /\ f.matched = {g.shows : g \in best.hits}
  /\ f.rules = {v.rule.id : v \in {v \in Voices(f.family, rules, evidence) : OsConfidence(v) = OsConfidence(best)}}
  /\ f.conflicts = UNION {VetoedBy(r, evidence) : r \in {r \in rules : r.family = f.family}}

LEMMA BestVerdict ==
  ASSUME NEW rules, Validated(rules), NEW evidence, NEW u \in Verdicts(rules, evidence)
  PROVE  LET f == FamilyOf(u.rule.family, Verdicts(rules, evidence), rules, evidence)
         IN  f.family = u.rule.family /\ \E best : SpokenBy(f, best, rules, evidence)
<1> DEFINE family == u.rule.family
           own == {v \in Verdicts(rules, evidence) : v.rule.family = family}
           Best(v) == \A w \in own : \/ OsConfidence(v) > OsConfidence(w)
                                     \/ OsConfidence(v) = OsConfidence(w) /\ v.rule.id <= w.rule.id
           best == CHOOSE v \in own : Best(v)
           c == [v \in own |-> OsConfidence(v)]
           d == [v \in own |-> v.rule.id]
<1>1. \A v \in own : OsConfidence(v) \in 0 .. 95 /\ v.rule.id \in Nat
  BY VerdictsAre DEF Validated
<1>2. u \in own
  OBVIOUS
<1> HIDE DEF own
<1>3. \E v \in own : \A w \in own : c[v] > c[w] \/ (c[v] = c[w] /\ d[v] <= d[w])
  <2>1. \A x \in own : c[x] \in 0 .. 95 /\ d[x] \in Nat
    BY <1>1
  <2> HIDE DEF c, d
  <2> QED
    BY <1>2, <2>1, BestOf
<1>4. \E v \in own : Best(v)
  BY <1>3
<1>5. best \in own /\ Best(best)
  BY <1>4
<1>6. PICK f : f = FamilyOf(family, Verdicts(rules, evidence), rules, evidence)
  OBVIOUS
<1>7. f = [family |-> family, confidence |-> OsConfidence(best), matched |-> {g.shows : g \in best.hits},
           rules |-> {v.rule.id : v \in {v \in own : OsConfidence(v) = OsConfidence(best)}},
           conflicts |-> UNION {VetoedBy(r, evidence) : r \in {r \in rules : r.family = family}}]
  BY <1>6 DEF FamilyOf, own
<1> HIDE DEF best
<1>8. \A w \in own : OsConfidence(w) <= OsConfidence(best)
  BY <1>1, <1>5
<1>9. /\ f.family = family /\ f.confidence = OsConfidence(best) /\ f.matched = {g.shows : g \in best.hits}
      /\ f.rules = {v.rule.id : v \in {v \in own : OsConfidence(v) = OsConfidence(best)}}
      /\ f.conflicts = UNION {VetoedBy(r, evidence) : r \in {r \in rules : r.family = family}}
  BY <1>7
<1>10. Voices(family, rules, evidence) = own
  BY DEF Voices, own
<1>11. SpokenBy(f, best, rules, evidence)
  BY <1>5, <1>8, <1>9, <1>10 DEF SpokenBy
<1> HIDE DEF family
<1> QED
  BY <1>6, <1>9, <1>11 DEF family

LEMMA FamiliesSpeak ==
  ASSUME NEW rules, Validated(rules), NEW evidence
  PROVE  /\ \A f \in Families(rules, evidence) : \E best : SpokenBy(f, best, rules, evidence)
         /\ \A u \in Verdicts(rules, evidence) : \E f \in Families(rules, evidence) :
              f.family = u.rule.family /\ \E best : SpokenBy(f, best, rules, evidence)
<1>1. \A f \in Families(rules, evidence) : \E u \in Verdicts(rules, evidence) :
        f = FamilyOf(u.rule.family, Verdicts(rules, evidence), rules, evidence)
  BY DEF Families
<1>2. \A u \in Verdicts(rules, evidence) :
        FamilyOf(u.rule.family, Verdicts(rules, evidence), rules, evidence) \in Families(rules, evidence)
  BY DEF Families
<1> QED
  BY <1>1, <1>2, BestVerdict

\* The rules of packs that share no id are as good as one pack's.
LEMMA OsDbIs ==
  ASSUME NEW world \in OsWorlds
  PROVE  Validated(OsDb(world.packs)) /\ \A r \in DeviceDb(world.devices) : \E pack : Validated(pack) /\ r \in pack
<1>1. \A packs \in {world.packs, world.devices} :
        packs \in Seq(ToSet(packs)) /\ \A pack \in ToSet(packs) : Validated(pack)
  BY OsAssumption
<1>2. PICK packs : packs = world.packs
  OBVIOUS
<1>3. packs \in Seq(ToSet(packs)) /\ \A pack \in ToSet(packs) : Validated(pack)
  BY <1>1, <1>2
<1>4. DOMAIN packs = 1 .. Len(packs) /\ Len(packs) \in Nat
  BY <1>3
<1>5. ASSUME \E i, k \in DOMAIN packs : i < k /\ \E r \in packs[i], s \in packs[k] : r.id = s.id
      PROVE  Validated(OsDb(packs))
  <2>1. OsDb(packs) = {}
    BY <1>5 DEF OsDb
  <2> QED
    BY <2>1 DEF Validated
<1>6. ASSUME ~\E i, k \in DOMAIN packs : i < k /\ \E r \in packs[i], s \in packs[k] : r.id = s.id
      PROVE  Validated(OsDb(packs))
  <2>1. OsDb(packs) = UNION {packs[i] : i \in DOMAIN packs}
    BY <1>6 DEF OsDb, Flat, ToSet
  <2>2. \A i \in DOMAIN packs : Validated(packs[i])
    BY <1>3 DEF ToSet
  <2>3. ASSUME NEW r \in OsDb(packs), NEW s \in OsDb(packs), r.id = s.id PROVE r = s
    <3>1. PICK i \in DOMAIN packs, k \in DOMAIN packs : r \in packs[i] /\ s \in packs[k]
      BY <2>1
    <3>2. ~(i < k) /\ ~(k < i)
      BY <1>6, <2>3, <3>1
    <3>3. i = k
      BY <1>4, <3>2
    <3> QED
      BY <2>2, <2>3, <3>1, <3>3 DEF Validated
  <2>4. ASSUME NEW r \in OsDb(packs) PROVE \E i \in DOMAIN packs : r \in packs[i]
    BY <2>1
  <2> QED
    BY <2>2, <2>3, <2>4 DEF Validated
<1>7. ASSUME NEW r \in DeviceDb(world.devices) PROVE \E pack : Validated(pack) /\ r \in pack
  <2>1. PICK pack \in ToSet(world.devices) : r \in pack
    BY DEF DeviceDb, Flat
  <2> QED
    BY <1>1, <2>1
<1> QED
  BY <1>2, <1>5, <1>6, <1>7

\* A family's confidence is borne by its kinds of evidence, its rules are not
\* vetoed and their caps hold, and what vetoed others of the family is shown.
LEMMA FamiliesJustified ==
  ASSUME NEW rules, Validated(rules), NEW evidence, NEW f \in Families(rules, evidence)
  PROVE  LET backing == {r \in rules : r.id \in f.rules}
             vetoed == {r \in rules : r.family = f.family /\ VetoedBy(r, evidence) # {}}
         IN  /\ f.confidence > 65 => Cardinality({ClassOf(e[1]) : e \in f.matched}) >= 2
             /\ \A r \in backing : f.confidence <= r.cap
             /\ backing # {} /\ backing \cap vetoed = {}
             /\ \A r \in vetoed : VetoedBy(r, evidence) \subseteq f.conflicts
<1> DEFINE backing == {r \in rules : r.id \in f.rules}
           vetoed == {r \in rules : r.family = f.family /\ VetoedBy(r, evidence) # {}}
           own == Voices(f.family, rules, evidence)
<1>1. PICK best : SpokenBy(f, best, rules, evidence)
  BY FamiliesSpeak
<1>2. best \in own /\ \A w \in own : OsConfidence(w) <= OsConfidence(best)
  BY <1>1 DEF SpokenBy
<1>3. /\ f.confidence = OsConfidence(best) /\ f.matched = {g.shows : g \in best.hits}
      /\ f.rules = {v.rule.id : v \in {v \in own : OsConfidence(v) = OsConfidence(best)}}
      /\ f.conflicts = UNION {VetoedBy(r, evidence) : r \in {r \in rules : r.family = f.family}}
  BY <1>1 DEF SpokenBy
<1>4. \A v \in own : /\ v.rule \in rules /\ VetoedBy(v.rule, evidence) = {}
                     /\ OsConfidence(v) \in 0 .. 95 /\ OsConfidence(v) <= v.rule.cap
                     /\ OsConfidence(v) > 65 => Cardinality(Classes(v.hits)) >= 2
  BY VerdictsAre DEF Voices
<1> HIDE DEF own
<1>5. f.confidence > 65 => Cardinality({ClassOf(e[1]) : e \in f.matched}) >= 2
  <2>1. {ClassOf(e[1]) : e \in f.matched} = Classes(best.hits)
    BY <1>3 DEF Classes
  <2> QED
    BY <1>2, <1>3, <1>4, <2>1
<1>6. ASSUME NEW r \in backing
      PROVE  f.confidence <= r.cap /\ VetoedBy(r, evidence) = {}
  <2>1. PICK v \in own : OsConfidence(v) = OsConfidence(best) /\ r.id = v.rule.id
    BY <1>3
  <2>2. r = v.rule
    BY <1>4, <2>1 DEF Validated
  <2> QED
    BY <1>3, <1>4, <2>1, <2>2
<1>7. best.rule \in backing
  BY <1>2, <1>3, <1>4
<1>8. \A r \in vetoed : VetoedBy(r, evidence) \subseteq f.conflicts
  BY <1>3
<1> QED
  BY <1>5, <1>6, <1>7, <1>8

\* More evidence keeps a family as sure as it was, or contradicts a rule of it.
LEMMA FamiliesGrow ==
  ASSUME NEW rules, Validated(rules), NEW passive, NEW heard, NEW f \in Families(rules, passive)
  PROVE  \/ \E g \in Families(rules, passive \cup heard) : g.family = f.family /\ g.confidence >= f.confidence
         \/ \E r \in rules : r.family = f.family /\ VetoedBy(r, heard) # {}
<1> DEFINE all == passive \cup heard
<1>1. PICK v : SpokenBy(f, v, rules, passive)
  BY FamiliesSpeak
<1>2. v \in Verdicts(rules, passive) /\ v.rule.family = f.family /\ f.confidence = OsConfidence(v)
  BY <1>1 DEF SpokenBy, Voices
<1>3. PICK r \in rules : r = v.rule /\ v.hits = Hits(r.features, passive) /\ v.hits # {} /\ VetoedBy(r, passive) = {}
  BY <1>2, VerdictsAre
<1>4. CASE VetoedBy(r, heard) # {}
  BY <1>2, <1>3, <1>4
<1>5. CASE VetoedBy(r, heard) = {}
  <2>1. PICK w : w = [rule |-> r, hits |-> Hits(r.features, all)]
    OBVIOUS
  <2>2. w.rule = r /\ w.hits = Hits(r.features, all)
    BY <2>1
  <2>3. v.hits \subseteq w.hits /\ w.hits \subseteq r.features
    BY <1>3, <2>2 DEF Hits
  <2>4. VetoedBy(r, all) = {}
    BY <1>3, <1>5 DEF VetoedBy
  <2>5. w \in Verdicts(rules, all)
    BY <1>3, <2>1, <2>2, <2>3, <2>4 DEF Verdicts
  <2>6. OsConfidence(v) <= OsConfidence(w)
    <3>1. r.cap \in Nat /\ IsFiniteSet(r.features) /\ \A g \in r.features : g.weight \in 1 .. 50
      BY DEF Validated
    <3>2. IsFiniteSet(w.hits) /\ \A g \in w.hits : g.weight \in 1 .. 50
      BY <2>3, <3>1, FS_Subset
    <3>3. /\ Weight(v.hits) \in Nat /\ Weight(w.hits) \in Nat /\ Weight(v.hits) <= Weight(w.hits)
          /\ Cardinality(Classes(v.hits)) \in Nat /\ Cardinality(Classes(w.hits)) \in Nat
          /\ Cardinality(Classes(v.hits)) <= Cardinality(Classes(w.hits))
      BY <2>3, <3>2, WeightIs, KindsIs
    <3>4. /\ OsConfidence(v) = Confidence(Cardinality(Classes(v.hits)), Weight(v.hits), 65, r.cap)
          /\ OsConfidence(w) = Confidence(Cardinality(Classes(w.hits)), Weight(w.hits), 65, r.cap)
      BY <1>3, <2>2 DEF OsConfidence
    <3> QED
      BY <3>1, <3>3, <3>4, ConfidenceGrows
  <2>7. PICK g \in Families(rules, all) : g.family = w.rule.family /\ \E best : SpokenBy(g, best, rules, all)
    BY <2>5, FamiliesSpeak
  <2>8. PICK best : SpokenBy(g, best, rules, all)
    BY <2>7
  <2>9. best \in Verdicts(rules, all) /\ g.confidence = OsConfidence(best)
    BY <2>8 DEF SpokenBy, Voices
  <2>11. OsConfidence(w) <= OsConfidence(best)
    BY <2>5, <2>7, <2>8 DEF SpokenBy, Voices
  <2>12. OsConfidence(v) \in 0 .. 95 /\ OsConfidence(w) \in 0 .. 95 /\ OsConfidence(best) \in 0 .. 95
    BY <1>2, <2>5, <2>9, VerdictsAre
  <2>13. g.family = f.family /\ g.confidence >= f.confidence
    BY <1>2, <1>3, <2>2, <2>6, <2>7, <2>9, <2>11, <2>12
  <2> QED
    BY <2>7, <2>13
<1> QED
  BY <1>4, <1>5

\* Each role is named once, by its strongest rule.
LEMMA RolesAre ==
  ASSUME NEW signals, \A r \in DeviceDb(osworld.devices) : \E pack : Validated(pack) /\ r \in pack,
         NEW c \in RolesOf(signals), NEW d \in RolesOf(signals)
  PROVE  /\ c.confidence > 55 => Cardinality(c.kinds) >= 2
         /\ c.role = d.role => c = d
<1> DEFINE able == {r \in DeviceDb(osworld.devices) : VetoedBy(r, signals) = {} /\ Hits(r.features, signals) # {}}
           all == {RoleBy(r, Hits(r.features, signals)) : r \in able}
           Best(x, role) == x.role = role /\ \A y \in {y \in all : y.role = role} : Surer(x, y, x.rule, y.rule)
           chosen(role) == CHOOSE x \in all : Best(x, role)
<1>1. ASSUME NEW x \in all
      PROVE  /\ x.confidence \in 0 .. 95 /\ x.rule \in Nat
             /\ x.confidence > 55 => Cardinality(x.kinds) >= 2
  <2>1. PICK r \in able : x = RoleBy(r, Hits(r.features, signals))
    BY <1>1
  <2>2. r.id \in Nat /\ r.cap \in Nat /\ IsFiniteSet(r.features) /\ \A f \in r.features : f.weight \in 1 .. 50
    BY DEF Validated
  <2>3. PICK hits : hits = Hits(r.features, signals)
    OBVIOUS
  <2>4. hits \in SUBSET r.features
    BY <2>3 DEF Hits
  <2>5. IsFiniteSet(hits) /\ \A f \in hits : f.weight \in 1 .. 50
    BY <2>2, <2>4, FS_Subset
  <2>6. Cardinality(SignalKinds(hits)) \in Nat /\ Weight(hits) \in Nat
    BY <2>5, WeightIs, KindsIs
  <2>7. /\ x.rule = r.id /\ x.kinds = SignalKinds(hits)
        /\ x.confidence = Confidence(Cardinality(SignalKinds(hits)), Weight(hits), 55, r.cap)
    BY <2>1, <2>3 DEF RoleBy
  <2>8. PICK k \in Nat, w \in Nat, cap \in Nat : k = Cardinality(SignalKinds(hits)) /\ w = Weight(hits) /\ cap = r.cap
    BY <2>2, <2>6
  <2>9. Confidence(k, w, 55, cap) \in 0 .. 95 /\ (Confidence(k, w, 55, cap) > 55 => k >= 2)
    BY ConfidenceIs
  <2> QED
    BY <2>2, <2>7, <2>8, <2>9
<1> HIDE DEF able
<1>2. RolesOf(signals) = {chosen(role) : role \in {x.role : x \in all}}
  BY DEF RolesOf, able
<1> HIDE DEF all
<1>3. ASSUME NEW x \in all PROVE \E v \in all : Best(v, x.role)
  <2> DEFINE own == {y \in all : y.role = x.role}
             e == [y \in own |-> y.confidence]
             n == [y \in own |-> y.rule]
  <2>1. own # {} /\ \A y \in own : e[y] \in 0 .. 95 /\ n[y] \in Nat
    BY <1>1
  <2>2. \A y \in own : e[y] = y.confidence /\ n[y] = y.rule
    OBVIOUS
  <2>3. \A y \in own : y \in all /\ y.role = x.role
    OBVIOUS
  <2> HIDE DEF e, n
  <2>4. PICK v \in own : \A w \in own : e[v] > e[w] \/ (e[v] = e[w] /\ n[v] <= n[w])
    <3> HIDE DEF own
    <3> QED
      BY <2>1, BestOf
  <2>5. \A y \in own : Surer(v, y, v.rule, y.rule)
    BY <2>2, <2>4 DEF Surer
  <2> QED
    BY <2>3, <2>5
<1>4. \A x \in all : chosen(x.role) \in all /\ chosen(x.role).role = x.role
  <2> SUFFICES ASSUME NEW x \in all PROVE chosen(x.role) \in all /\ chosen(x.role).role = x.role
    OBVIOUS
  <2>1. chosen(x.role) \in all /\ Best(chosen(x.role), x.role)
    BY <1>3
  <2> QED
    BY <2>1
<1> HIDE DEF Best, chosen
<1>5. PICK x \in all, y \in all : c = chosen(x.role) /\ d = chosen(y.role)
  BY <1>2
<1>6. c \in all /\ c.role = x.role /\ d.role = y.role
  BY <1>4, <1>5
<1> QED
  BY <1>1, <1>5, <1>6

-----------------------------------------------------------------------------
(* The probes of --os.                                                       *)

OsPorts == {80, 443, 22}
OsNotes == {"none", "cancelled", "exhausted", "hostname", "outside", "unavailable", "planned"}
MayProbe(host) == /\ osworld.requested /\ osworld.raw
                  /\ osworld.hosts[host].literal /\ osworld.hosts[host].scoped

OsShape ==
  /\ osworld \in OsWorlds /\ osqueue \subseteq HostsOf(osworld)
  /\ osprobed \in [HostsOf(osworld) -> SUBSET OsPorts]
  /\ osheard = [h \in HostsOf(osworld) |-> osheard[h]]
  /\ osnotes \in [HostsOf(osworld) -> OsNotes]
  /\ osnow # NoHost => /\ osnow \in [host : osqueue, ports : Seq(OsPorts)]
                       /\ \A other \in osqueue : osnow.host <= other

\* What a host was asked and what it may still be asked.
OsBudget ==
  /\ \A h \in HostsOf(osworld) : Cardinality(osprobed[h]) <= OsMaxProbes
  /\ osnow # NoHost => Cardinality(osprobed[osnow.host]) + Len(osnow.ports) <= OsMaxProbes
  /\ \A h \in osqueue : osprobed[h] # {} => osnow # NoHost /\ osnow.host = h

OsAllowed ==
  /\ \A h \in HostsOf(osworld) : osprobed[h] # {} => MayProbe(h)
  /\ osnow # NoHost => MayProbe(osnow.host)
  /\ osqueue # {} => osworld.requested

\* What was heard of a host was noted, or will be; and so is what was heard
\* anyway, unless the process was asked to stop.
OsNoted ==
  /\ \A h \in HostsOf(osworld) : osheard[h] # {} => osnotes[h] # "none" \/ (osnow # NoHost /\ osnow.host = h)
  /\ osworld.requested /\ ~oscancel =>
       \A h \in HostsOf(osworld) : PassiveOf(osworld.hosts[h]) # {} => h \in osqueue \/ osnotes[h] # "none"

\* The reports are about all that was heard.
OsReported ==
  osreports = NotInferred \/
    (osqueue = {} /\ osnow = NoHost /\ osreports = [h \in HostsOf(osworld) |-> OsReport(h)])

OsInv == OsShape /\ OsBudget /\ OsAllowed /\ OsNoted /\ OsReported /\ RolesJustified

LEMMA ProbePortsFit == ProbePorts \in Seq(OsPorts) /\ Len(ProbePorts) <= OsMaxProbes
<1>1. OsMaxProbes \in Nat /\ FallbackPorts \in Seq(OsPorts) /\ Len(FallbackPorts) = 3
  BY OsAssumption DEF FallbackPorts, OsPorts
<1>2. PICK n \in Nat : n = Min({OsMaxProbes, Len(FallbackPorts)}) /\ n <= 3 /\ n <= OsMaxProbes
  <2>1. PICK l \in Nat : l = Len(FallbackPorts) /\ l = 3
    BY <1>1
  <2>2. Min({OsMaxProbes, l}) \in Nat /\ Min({OsMaxProbes, l}) <= 3 /\ Min({OsMaxProbes, l}) <= OsMaxProbes
    BY <1>1, <2>1, LesserOfTwo
  <2> QED
    BY <2>1, <2>2
<1>3. PICK s \in Seq(OsPorts) : s = FallbackPorts /\ Len(s) = 3
  BY <1>1
<1>4. \A i \in 1 .. n : s[i] \in OsPorts
  <2>1. \A i \in 1 .. 3 : s[i] \in OsPorts
    BY <1>3 DEF FallbackPorts, OsPorts
  <2> QED
    BY <1>2, <2>1
<1>5. 1 \in Int /\ n \in Int
  OBVIOUS
<1>6. SubSeq(s, 1, n) \in Seq(OsPorts) /\ Len(SubSeq(s, 1, n)) = IF 1 <= n THEN n - 1 + 1 ELSE 0
  BY <1>4, <1>5, SubSeqProperties
<1>7. Len(SubSeq(s, 1, n)) = n
  BY <1>6
<1> QED
  BY <1>2, <1>3, <1>6, <1>7 DEF ProbePorts

LEMMA HostIsNotNone ==
  ASSUME OsShape
  PROVE  /\ \A h \in HostsOf(osworld) : h \in Nat /\ h # 0 /\ \A ports : [host |-> h, ports |-> ports] # NoHost
         /\ NoHost.host = 0 /\ NoHost.ports = <<>>
<1>1. HostsOf(osworld) \subseteq Nat \ {0}
  BY OsAssumption DEF OsShape
<1>2. NoHost.host = 0 /\ NoHost.ports = <<>>
  BY DEF NoHost
<1>3. \A h, ports : [host |-> h, ports |-> ports].host = h
  OBVIOUS
<1> QED
  BY <1>1, <1>2, <1>3

\* Steps that look at no host.
OsQuiet == UNCHANGED <<osworld, osqueue, osnow, osprobed, osheard, osnotes>>
LEMMA OsQuietKeeps ==
  ASSUME OsShape, OsBudget, OsAllowed, OsNoted, OsQuiet, oscancel => oscancel'
  PROVE  OsShape' /\ OsBudget' /\ OsAllowed' /\ OsNoted'
<1>1. UNCHANGED <<osworld, osqueue, osnow, osprobed, osheard, osnotes>>
  BY DEF OsQuiet
<1>2. OsShape'
  BY <1>1 DEF OsShape, HostsOf
<1>3. OsBudget'
  BY <1>1 DEF OsBudget, HostsOf
<1>4. OsAllowed'
  BY <1>1 DEF OsAllowed, MayProbe, HostsOf
<1>5. OsNoted'
  BY <1>1 DEF OsNoted, HostsOf
<1> QED
  BY <1>2, <1>3, <1>4, <1>5

LEMMA OsStops ==
  ASSUME OsInv, NEW host \in HostsOf(osworld), StopOsPhase(host)
  PROVE  OsShape' /\ OsBudget' /\ OsAllowed' /\ OsNoted'
<1>1. OsShape /\ OsBudget /\ OsAllowed /\ OsNoted
  BY DEF OsInv
<1>2. /\ osqueue' = {} /\ osnotes' = [osnotes EXCEPT ![host] = "cancelled"] /\ osnow = NoHost /\ oscancel
      /\ UNCHANGED <<osworld, oscancel, osnow, osprobed, osheard>>
  BY DEF StopOsPhase, OsReadyFor
<1>3. osnotes' \in [HostsOf(osworld) -> OsNotes] /\ \A h \in HostsOf(osworld) : osnotes[h] # "none" => osnotes'[h] # "none"
  BY <1>1, <1>2 DEF OsShape, OsNotes
<1>4. OsShape'
  BY <1>1, <1>2, <1>3 DEF OsShape, HostsOf
<1>5. OsBudget' /\ OsAllowed'
  BY <1>1, <1>2 DEF OsBudget, OsAllowed, MayProbe, HostsOf
<1>6. OsNoted'
  BY <1>1, <1>2, <1>3 DEF OsNoted, HostsOf
<1> QED
  BY <1>4, <1>5, <1>6

LEMMA OsSkips ==
  ASSUME OsInv, NEW host \in HostsOf(osworld), SkipHost(host)
  PROVE  OsShape' /\ OsBudget' /\ OsAllowed' /\ OsNoted'
<1>1. OsShape /\ OsBudget /\ OsAllowed /\ OsNoted
  BY DEF OsInv
<1>2. PICK note : note = Unprobed(host)
  OBVIOUS
<1>3. /\ osqueue' = osqueue \ {host} /\ osnotes' = [osnotes EXCEPT ![host] = note] /\ osnow = NoHost /\ note # "none"
      /\ UNCHANGED <<osworld, oscancel, osnow, osprobed, osheard>>
  BY <1>2 DEF SkipHost, OsReadyFor
<1>4. note \in OsNotes
  BY <1>2 DEF Unprobed, OsNotes
<1>5. /\ osnotes' \in [HostsOf(osworld) -> OsNotes] /\ osnotes'[host] # "none"
      /\ \A h \in HostsOf(osworld) : osnotes[h] # "none" => osnotes'[h] # "none"
  BY <1>1, <1>3, <1>4 DEF OsShape
<1>6. OsShape'
  BY <1>1, <1>3, <1>5 DEF OsShape, HostsOf
<1>7. OsBudget' /\ OsAllowed'
  BY <1>1, <1>3 DEF OsBudget, OsAllowed, MayProbe, HostsOf
<1>8. OsNoted'
  BY <1>1, <1>3, <1>5 DEF OsNoted, HostsOf
<1> QED
  BY <1>6, <1>7, <1>8

LEMMA OsBegins ==
  ASSUME OsInv, NEW host \in HostsOf(osworld), BeginHost(host)
  PROVE  OsShape' /\ OsBudget' /\ OsAllowed' /\ OsNoted'
<1>1. OsShape /\ OsBudget /\ OsAllowed /\ OsNoted
  BY DEF OsInv
<1>2. PICK ports \in Seq(OsPorts) : ports = ProbePorts /\ Len(ports) <= OsMaxProbes
  BY ProbePortsFit
<1>3. /\ osnow' = [host |-> host, ports |-> ports] /\ osnow = NoHost /\ Unprobed(host) = "none"
      /\ host \in osqueue /\ \A other \in osqueue : host <= other
      /\ UNCHANGED <<osworld, oscancel, osqueue, osprobed, osheard, osnotes>>
  BY <1>2 DEF BeginHost, OsReadyFor
<1>4. osnow' # NoHost /\ osnow'.host = host /\ osnow'.ports = ports
  BY <1>1, <1>3, HostIsNotNone
<1>5. MayProbe(host)
  <2>1. osworld.raw /\ osworld.hosts[host].literal /\ osworld.hosts[host].scoped
    <3>1. ~oslate /\ osworld.hosts[host].literal
      BY <1>3 DEF Unprobed
    <3>2. osworld.hosts[host].scoped
      BY <1>3, <3>1 DEF Unprobed
    <3> QED
      BY <1>3, <3>1, <3>2 DEF Unprobed
  <2> QED
    BY <1>1, <1>3, <2>1 DEF MayProbe, OsAllowed
<1>6. OsShape'
  <2>1. osnow' \in [host : osqueue', ports : Seq(OsPorts)]
    BY <1>3
  <2> QED
    BY <1>1, <1>3, <1>4, <2>1 DEF OsShape, HostsOf
<1>7. OsBudget'
  <2>1. osprobed[host] = {}
    BY <1>1, <1>3 DEF OsBudget
  <2>2. Cardinality(osprobed[host]) = 0
    BY <2>1, FS_EmptySet
  <2>3. Len(ports) \in Nat /\ Cardinality(osprobed'[osnow'.host]) + Len(osnow'.ports) <= OsMaxProbes
    BY <1>2, <1>3, <1>4, <2>2
  <2>4. \A h \in osqueue : osprobed[h] = {}
    BY <1>1, <1>3 DEF OsBudget
  <2> QED
    BY <1>1, <1>3, <1>4, <2>3, <2>4 DEF OsBudget, HostsOf
<1>8. OsAllowed'
  BY <1>1, <1>3, <1>4, <1>5 DEF OsAllowed, MayProbe, HostsOf
<1>9. OsNoted'
  BY <1>1, <1>3 DEF OsNoted, HostsOf
<1> QED
  BY <1>6, <1>7, <1>8, <1>9

LEMMA OsProbes ==
  ASSUME OsInv, NEW reply, ProbePort(reply)
  PROVE  OsShape' /\ OsBudget' /\ OsAllowed' /\ OsNoted'
<1>1. OsShape /\ OsBudget /\ OsAllowed /\ OsNoted
  BY DEF OsInv
<1>2. osnow # NoHost /\ osnow.ports # <<>>
  BY <1>1, HostIsNotNone DEF ProbePort
<1>3. PICK host \in osqueue, ports \in Seq(OsPorts) : osnow = [host |-> host, ports |-> ports]
  BY <1>1, <1>2 DEF OsShape
<1>4. osnow.host = host /\ osnow.ports = ports /\ ports # <<>> /\ host \in HostsOf(osworld) /\ \A other \in osqueue : host <= other
  BY <1>1, <1>2, <1>3 DEF OsShape
<1>5. PICK p, shown : p = Head(ports) /\ shown = Shows(reply)
  OBVIOUS
<1>6. /\ osprobed' = [osprobed EXCEPT ![host] = @ \cup {p}] /\ osheard' = [osheard EXCEPT ![host] = @ \cup shown]
      /\ osnow' = [host |-> host, ports |-> Tail(ports)]
      /\ UNCHANGED <<osworld, oscancel, osqueue, osnotes>>
  BY <1>3, <1>4, <1>5 DEF ProbePort
<1>7. p \in OsPorts /\ Tail(ports) \in Seq(OsPorts) /\ Len(Tail(ports)) = Len(ports) - 1 /\ Len(ports) \in Nat /\ Len(Tail(ports)) \in Nat
  BY <1>4, <1>5
<1>8. osnow' # NoHost /\ osnow'.host = host /\ osnow'.ports = Tail(ports)
  BY <1>1, <1>4, <1>6, HostIsNotNone
<1>9. /\ osprobed' \in [HostsOf(osworld) -> SUBSET OsPorts] /\ osheard' = [h \in HostsOf(osworld) |-> osheard'[h]]
      /\ osprobed'[host] = osprobed[host] \cup {p} /\ \A h \in HostsOf(osworld) \ {host} : osprobed'[h] = osprobed[h]
      /\ \A h \in HostsOf(osworld) \ {host} : osheard'[h] = osheard[h]
  BY <1>1, <1>4, <1>6, <1>7 DEF OsShape
<1>10. OsShape'
  <2>1. osnow' \in [host : osqueue', ports : Seq(OsPorts)]
    BY <1>6, <1>7
  <2> QED
    BY <1>1, <1>4, <1>6, <1>8, <1>9, <2>1 DEF OsShape, HostsOf
<1>11. OsBudget'
  <2>1. IsFiniteSet(osprobed[host])
    <3>1. IsFiniteSet(22 .. 443)
      <4>1. 22 \in Int /\ 443 \in Int
        OBVIOUS
      <4> QED
        BY <4>1, FS_Interval
    <3>2. OsPorts \subseteq 22 .. 443
      BY DEF OsPorts
    <3>3. osprobed[host] \subseteq OsPorts
      BY <1>1, <1>4 DEF OsShape
    <3>4. osprobed[host] \subseteq 22 .. 443
      BY <3>2, <3>3
    <3> QED
      BY <3>1, <3>4, FS_Subset
  <2>2. Cardinality(osprobed[host] \cup {p}) <= Cardinality(osprobed[host]) + 1
        /\ Cardinality(osprobed[host]) \in Nat /\ Cardinality(osprobed[host] \cup {p}) \in Nat
    <3>1. PICK seen : seen = osprobed[host]
      OBVIOUS
    <3>2. IsFiniteSet(seen)
      BY <2>1, <3>1
    <3>3. Cardinality(seen) \in Nat
      BY <3>2, FS_CardinalityType
    <3>4. Cardinality(seen \cup {p}) = IF p \in seen THEN Cardinality(seen) ELSE Cardinality(seen) + 1
      BY <3>2, FS_AddElement
    <3> QED
      BY <3>1, <3>3, <3>4
  <2>3. Cardinality(osprobed[host]) + Len(ports) <= OsMaxProbes
    BY <1>1, <1>2, <1>4 DEF OsBudget
  <2>4. OsMaxProbes \in Nat
    BY OsAssumption
  <2>5. /\ Cardinality(osprobed'[host]) + Len(Tail(ports)) <= OsMaxProbes
        /\ Cardinality(osprobed'[host]) <= OsMaxProbes
    BY <1>7, <1>9, <2>2, <2>3, <2>4
  <2>6. \A h \in HostsOf(osworld) : Cardinality(osprobed'[h]) <= OsMaxProbes
    BY <1>1, <1>9, <2>5 DEF OsBudget
  <2>7. \A h \in osqueue : osprobed'[h] # {} => h = host
    BY <1>1, <1>4, <1>9 DEF OsBudget, OsShape
  <2> QED
    BY <1>6, <1>8, <2>5, <2>6, <2>7 DEF OsBudget, HostsOf
<1>12. OsAllowed'
  <2>1. MayProbe(host)
    BY <1>1, <1>2, <1>4 DEF OsAllowed
  <2>2. \A h \in HostsOf(osworld) : osprobed'[h] # {} => MayProbe(h)
    BY <1>1, <1>9, <2>1 DEF OsAllowed
  <2> QED
    BY <1>1, <1>6, <1>8, <2>1, <2>2 DEF OsAllowed, MayProbe, HostsOf
<1>13. OsNoted'
  <2>1. \A h \in HostsOf(osworld) : osheard'[h] # {} => osnotes[h] # "none" \/ h = host
    BY <1>1, <1>4, <1>9 DEF OsNoted
  <2> QED
    BY <1>1, <1>6, <1>8, <2>1 DEF OsNoted, HostsOf
<1> QED
  BY <1>10, <1>11, <1>12, <1>13

LEMMA OsEnds ==
  ASSUME OsInv, EndHost
  PROVE  OsShape' /\ OsBudget' /\ OsAllowed' /\ OsNoted'
<1>1. OsShape /\ OsBudget /\ OsAllowed /\ OsNoted
  BY DEF OsInv
<1>2. PICK host \in osqueue : osnow.host = host /\ host \in HostsOf(osworld) /\ osnow # NoHost
  BY <1>1 DEF OsShape, EndHost
<1>3. /\ osqueue' = osqueue \ {host} /\ osnotes' = [osnotes EXCEPT ![host] = "planned"] /\ osnow' = NoHost
      /\ UNCHANGED <<osworld, oscancel, osprobed, osheard>>
  BY <1>2 DEF EndHost
<1>4. /\ osnotes' \in [HostsOf(osworld) -> OsNotes] /\ osnotes'[host] # "none"
      /\ \A h \in HostsOf(osworld) : osnotes[h] # "none" => osnotes'[h] # "none"
  BY <1>1, <1>2, <1>3 DEF OsShape, OsNotes
<1>5. OsShape'
  BY <1>1, <1>3, <1>4 DEF OsShape, HostsOf
<1>6. OsBudget' /\ OsAllowed'
  BY <1>1, <1>2, <1>3 DEF OsBudget, OsAllowed, MayProbe, HostsOf
<1>7. OsNoted'
  BY <1>1, <1>2, <1>3, <1>4 DEF OsNoted, HostsOf
<1> QED
  BY <1>5, <1>6, <1>7

\* The reports are made of all that was heard, and stay so.
LEMMA ReportsKept ==
  ASSUME OsInv, OsNext
  PROVE  OsReported'
<1>1. OsShape /\ OsReported
  BY DEF OsInv
<1>2. CASE ClassifyOs
  <2>1. /\ osqueue = {} /\ osnow = NoHost /\ osreports' = [h \in HostsOf(osworld) |-> OsReport(h)]
        /\ UNCHANGED <<osworld, osqueue, osnow, osheard, osnotes>>
    BY <1>2 DEF ClassifyOs
  <2>2. HostsOf(osworld)' = HostsOf(osworld) /\ \A h : OsReport(h)' = OsReport(h)
    BY <2>1 DEF HostsOf, OsReport, EvidenceOf
  <2> QED
    BY <2>1, <2>2 DEF OsReported
<1>3. CASE OsCancel \/ OsTimePasses \/ ClassifyDevices
  <2>1. UNCHANGED <<osworld, osqueue, osnow, osheard, osnotes, osreports>>
    BY <1>3 DEF OsCancel, OsTimePasses, ClassifyDevices
  <2>2. HostsOf(osworld)' = HostsOf(osworld) /\ \A h : OsReport(h)' = OsReport(h)
    BY <2>1 DEF HostsOf, OsReport, EvidenceOf
  <2> QED
    BY <1>1, <2>1, <2>2 DEF OsReported
<1>4. CASE EndHost
  BY <1>1, <1>4 DEF OsReported, EndHost
<1>5. ASSUME NEW h \in HostsOf(osworld), StopOsPhase(h) \/ SkipHost(h) \/ BeginHost(h) PROVE OsReported'
  <2>1. osqueue # {} /\ osreports' = osreports
    BY <1>5 DEF StopOsPhase, SkipHost, BeginHost, OsReadyFor
  <2> QED
    BY <1>1, <2>1 DEF OsReported
<1>6. ASSUME NEW reply, ProbePort(reply) PROVE OsReported'
  <2>1. osnow # NoHost /\ osreports' = osreports
    BY <1>1, <1>6, HostIsNotNone DEF ProbePort
  <2> QED
    BY <1>1, <2>1 DEF OsReported
<1> QED
  BY <1>2, <1>3, <1>4, <1>5, <1>6 DEF OsNext

\* The roles are each named once.
LEMMA RolesKept ==
  ASSUME OsInv, OsNext
  PROVE  RolesJustified'
<1>1. RolesJustified /\ osworld \in OsWorlds
  BY DEF OsInv, OsShape
<1>2. CASE ClassifyDevices
  <2>1. PICK signals : signals = [h \in HostsOf(osworld) |-> SignalsOf(h)]
    OBVIOUS
  <2>2. osroles' = [h \in HostsOf(osworld) |-> RolesOf(signals[h])] /\ osworld' = osworld
    BY <1>2, <2>1 DEF ClassifyDevices
  <2>3. \A r \in DeviceDb(osworld.devices) : \E pack : Validated(pack) /\ r \in pack
    BY <1>1, OsDbIs
  <2>4. ASSUME NEW h \in HostsOf(osworld), NEW c \in osroles'[h], NEW d \in osroles'[h]
        PROVE  (c.confidence > 55 => Cardinality(c.kinds) >= 2) /\ (c.role = d.role => c = d)
    <3>1. c \in RolesOf(signals[h]) /\ d \in RolesOf(signals[h])
      BY <2>2
    <3> QED
      BY <2>3, <3>1, RolesAre
  <2> QED
    BY <2>2, <2>4 DEF RolesJustified, HostsOf
<1>3. CASE UNCHANGED <<osworld, osroles>>
  BY <1>1, <1>3 DEF RolesJustified, HostsOf
<1>4. OsNext => ClassifyDevices \/ UNCHANGED <<osworld, osroles>>
  <2>1. OsCancel \/ OsTimePasses \/ EndHost \/ ClassifyOs => UNCHANGED <<osworld, osroles>>
    BY DEF OsCancel, OsTimePasses, EndHost, ClassifyOs
  <2>2. ASSUME NEW h, StopOsPhase(h) \/ SkipHost(h) \/ BeginHost(h) PROVE UNCHANGED <<osworld, osroles>>
    BY <2>2 DEF StopOsPhase, SkipHost, BeginHost
  <2>3. ASSUME NEW reply, ProbePort(reply) PROVE UNCHANGED <<osworld, osroles>>
    BY <2>3 DEF ProbePort
  <2> QED
    BY <2>1, <2>2, <2>3 DEF OsNext
<1> QED
  BY <1>2, <1>3, <1>4

LEMMA OsStarts == OsInit => OsInv
<1> SUFFICES ASSUME OsInit PROVE OsInv
  OBVIOUS
<1>1. /\ osworld \in OsWorlds /\ osnow = NoHost /\ oscancel = FALSE
      /\ osqueue = {h \in HostsOf(osworld) :
                      osworld.requested /\ (osworld.hosts[h].ports \/ PassiveOf(osworld.hosts[h]) # {})}
      /\ osprobed = [h \in HostsOf(osworld) |-> {}] /\ osheard = [h \in HostsOf(osworld) |-> {}]
      /\ osnotes = [h \in HostsOf(osworld) |-> "none"]
      /\ osreports = NotInferred /\ osroles = NotInferred
  BY DEF OsInit
<1> HIDE DEF OsInit
<1>2. OsShape
  BY <1>1 DEF OsShape, OsNotes
<1>3. OsBudget
  <2>1. OsMaxProbes \in Nat
    BY OsAssumption
  <2>2. \A h \in HostsOf(osworld) : osprobed[h] = {}
    BY <1>1
  <2>3. \A h \in HostsOf(osworld) : Cardinality(osprobed[h]) = 0
    BY <2>2, FS_EmptySet
  <2>4. osqueue \subseteq HostsOf(osworld)
    BY <1>1
  <2> QED
    BY <1>1, <2>1, <2>2, <2>3, <2>4 DEF OsBudget
<1>4. OsAllowed
  BY <1>1 DEF OsAllowed
<1>5. OsNoted
  <2>1. \A h \in HostsOf(osworld) : osheard[h] = {}
    BY <1>1
  <2>2. osworld.requested => \A h \in HostsOf(osworld) : PassiveOf(osworld.hosts[h]) # {} => h \in osqueue
    BY <1>1
  <2> QED
    BY <2>1, <2>2 DEF OsNoted
<1>6. OsReported /\ RolesJustified
  BY <1>1 DEF OsReported, RolesJustified
<1> QED
  BY <1>2, <1>3, <1>4, <1>5, <1>6 DEF OsInv

LEMMA OsSteps == OsInv /\ [OsNext]_osvars => OsInv'
<1> SUFFICES ASSUME OsInv, [OsNext]_osvars PROVE OsInv'
  OBVIOUS
<1>1. OsShape /\ OsBudget /\ OsAllowed /\ OsNoted /\ OsReported /\ RolesJustified
  BY DEF OsInv
<1>2. CASE OsNext
  <2>1. OsReported' /\ RolesJustified'
    BY <1>2, ReportsKept, RolesKept
  <2>2. CASE OsCancel \/ OsTimePasses \/ ClassifyOs \/ ClassifyDevices
    <3>1. OsQuiet /\ (oscancel => oscancel')
      BY <2>2 DEF OsQuiet, OsCancel, OsTimePasses, ClassifyOs, ClassifyDevices
    <3>2. OsShape' /\ OsBudget' /\ OsAllowed' /\ OsNoted'
      BY <1>1, <3>1, OsQuietKeeps
    <3> QED
      BY <2>1, <3>2 DEF OsInv
  <2>3. CASE EndHost
    BY <2>1, <2>3, OsEnds DEF OsInv
  <2>4. ASSUME NEW h \in HostsOf(osworld), StopOsPhase(h) \/ SkipHost(h) \/ BeginHost(h) PROVE OsInv'
    <3>1. OsShape' /\ OsBudget' /\ OsAllowed' /\ OsNoted'
      BY <2>4, OsStops, OsSkips, OsBegins
    <3> QED
      BY <2>1, <3>1 DEF OsInv
  <2>5. ASSUME NEW reply, ProbePort(reply) PROVE OsInv'
    BY <2>1, <2>5, OsProbes DEF OsInv
  <2> QED
    BY <1>2, <2>2, <2>3, <2>4, <2>5 DEF OsNext
<1>3. CASE UNCHANGED osvars
  <2>1. UNCHANGED <<osworld, oscancel, osqueue, osnow, osprobed, osheard, osnotes, osreports, osroles>>
    BY <1>3 DEF osvars
  <2>2. OsShape' /\ OsBudget' /\ OsAllowed' /\ OsNoted'
    BY <1>1, <2>1, OsQuietKeeps DEF OsQuiet
  <2>3. HostsOf(osworld)' = HostsOf(osworld) /\ \A h : OsReport(h)' = OsReport(h)
    BY <2>1 DEF HostsOf, OsReport, EvidenceOf
  <2>4. OsReported'
    BY <1>1, <2>1, <2>3 DEF OsReported
  <2>5. RolesJustified'
    BY <1>1, <2>1 DEF RolesJustified, HostsOf
  <2> QED
    BY <2>2, <2>4, <2>5 DEF OsInv
<1> QED
  BY <1>2, <1>3

LEMMA OsMeans == OsInv => OsTypeOK /\ OsSound
<1> SUFFICES ASSUME OsInv PROVE OsTypeOK /\ OsSound
  OBVIOUS
<1>1. OsShape /\ OsBudget /\ OsAllowed /\ OsNoted /\ OsReported /\ RolesJustified
  BY DEF OsInv
<1>2. OsTypeOK
  <2>1. \A h \in HostsOf(osworld) : osnotes[h] \in OsNotes
    BY <1>1 DEF OsShape
  <2>2. osnow # NoHost => osnow.host \in osqueue /\ \A other \in osqueue : osnow.host <= other
    BY <1>1 DEF OsShape
  <2> QED
    BY <1>1, <2>1, <2>2 DEF OsTypeOK, OsBudget, OsNotes
<1>3. CASE osreports = NotInferred
  <2>1. ProbesAllowed
    BY <1>1, <1>3 DEF ProbesAllowed, OsAllowed, MayProbe
  <2>2. OsJustified /\ ProbingAdds
    BY <1>3 DEF OsJustified, ProbingAdds
  <2> QED
    BY <1>1, <1>2, <2>1, <2>2 DEF OsSound
<1>4. CASE osreports # NotInferred
  <2>1. osqueue = {} /\ osnow = NoHost /\ osreports = [h \in HostsOf(osworld) |-> OsReport(h)]
    BY <1>1, <1>4 DEF OsReported
  <2>2. PICK rules : rules = OsDb(osworld.packs)
    OBVIOUS
  <2>3. Validated(rules)
    BY <1>1, <2>2, OsDbIs DEF OsShape
  <2>4. ASSUME NEW h \in HostsOf(osworld)
        PROVE  /\ osreports[h].families = Families(rules, EvidenceOf(h))
               /\ osreports[h].reported => EvidenceOf(h) # {}
    BY <2>1, <2>2 DEF OsReport
  <2>5. ProbesAllowed
    <3>1. ASSUME NEW h \in HostsOf(osworld), osworld.requested, osreports[h].reported, ~oscancel
          PROVE  osnotes[h] # "none"
      <4>1. PassiveOf(osworld.hosts[h]) # {} \/ osheard[h] # {}
        BY <2>4, <3>1 DEF EvidenceOf
      <4> QED
        BY <1>1, <2>1, <3>1, <4>1 DEF OsNoted
    <3>2. \A h \in HostsOf(osworld) : osprobed[h] # {} => MayProbe(h)
      BY <1>1 DEF OsAllowed
    <3> QED
      BY <3>1, <3>2 DEF ProbesAllowed, MayProbe
  <2>6. OsJustified
    <3>1. ASSUME NEW h \in HostsOf(osworld), NEW f \in osreports[h].families
          PROVE  LET backing == {r \in rules : r.id \in f.rules}
                     vetoed == {r \in rules : r.family = f.family /\ VetoedBy(r, EvidenceOf(h)) # {}}
                 IN  /\ f.confidence > 65 => Cardinality({ClassOf(e[1]) : e \in f.matched}) >= 2
                     /\ \A r \in backing : f.confidence <= r.cap
                     /\ backing # {} /\ backing \cap vetoed = {}
                     /\ \A r \in vetoed : VetoedBy(r, EvidenceOf(h)) \subseteq f.conflicts
      <4>1. PICK evidence : evidence = EvidenceOf(h)
        OBVIOUS
      <4>2. f \in Families(rules, evidence)
        BY <2>4, <4>1
      <4> QED
        BY <2>3, <4>1, <4>2, FamiliesJustified
    <3> QED
      BY <2>2, <3>1 DEF OsJustified
  <2>7. ProbingAdds
    <3>0. \A passive, heard : \A f \in Families(rules, passive) :
            \/ \E g \in Families(rules, passive \cup heard) : g.family = f.family /\ g.confidence >= f.confidence
            \/ \E r \in rules : r.family = f.family /\ VetoedBy(r, heard) # {}
      BY <2>3, FamiliesGrow
    <3>1. ASSUME NEW h \in HostsOf(osworld), NEW f \in Families(rules, PassiveOf(osworld.hosts[h]))
          PROVE  \/ \E g \in osreports[h].families : g.family = f.family /\ g.confidence >= f.confidence
                 \/ \E r \in rules : r.family = f.family /\ VetoedBy(r, osheard[h]) # {}
      <4>1. PICK passive, heard : passive = PassiveOf(osworld.hosts[h]) /\ heard = osheard[h]
        OBVIOUS
      <4>2. osreports[h].families = Families(rules, passive \cup heard)
        BY <2>4, <4>1 DEF EvidenceOf
      <4>3. f \in Families(rules, passive)
        BY <4>1
      <4>4. \/ \E g \in Families(rules, passive \cup heard) : g.family = f.family /\ g.confidence >= f.confidence
            \/ \E r \in rules : r.family = f.family /\ VetoedBy(r, heard) # {}
        BY <3>0, <4>3
      <4> QED
        BY <4>1, <4>2, <4>4
    <3> QED
      BY <2>2, <3>1 DEF ProbingAdds
  <2> QED
    BY <1>1, <1>2, <2>5, <2>6, <2>7 DEF OsSound
<1> QED
  BY <1>3, <1>4

\* What is sent with --os was asked for and allowed, hosts left out are told
\* why, and no family or role is named without what its rules ask for.
THEOREM OsIsSound == OsSpec => [](OsTypeOK /\ OsSound)
<1>1. OsInit => OsInv
  BY OsStarts
<1>2. OsInv /\ [OsNext]_osvars => OsInv'
  BY OsSteps
<1>3. OsInv => OsTypeOK /\ OsSound
  BY OsMeans
<1> QED
  BY <1>1, <1>2, <1>3, PTL DEF OsSpec


-----------------------------------------------------------------------------
(* The first few in an order.                                                *)

Linear(S, before) ==
  /\ \A x \in S : <<x, x>> \notin before
  /\ \A x, y, z \in S : <<x, y>> \in before /\ <<y, z>> \in before => <<x, z>> \in before
  /\ \A x, y \in S : x # y => <<x, y>> \in before \/ <<y, x>> \in before

LEMMA LeadingFew ==
  ASSUME NEW S, IsFiniteSet(S), NEW before, Linear(S, before), NEW n \in Nat
  PROVE  /\ Leading(S, before, n) \subseteq S /\ IsFiniteSet(Leading(S, before, n))
         /\ Cardinality(Leading(S, before, n)) <= n
         /\ Cardinality(Leading(S, before, n)) < n => Leading(S, before, n) = S
<1> DEFINE Prior(x) == {s \in S : <<s, x>> \in before}
           r == [x \in S |-> Cardinality(Prior(x))]
           L == {x \in S : r[x] < n}
<1>1. \A x \in S : IsFiniteSet(Prior(x)) /\ Cardinality(Prior(x)) \in Nat
  <2> SUFFICES ASSUME NEW x \in S PROVE IsFiniteSet(Prior(x)) /\ Cardinality(Prior(x)) \in Nat
    OBVIOUS
  <2>1. Prior(x) \in SUBSET S
    OBVIOUS
  <2>2. IsFiniteSet(Prior(x))
    BY <2>1, FS_Subset
  <2> QED
    BY <2>2, FS_CardinalityType
<1>2. ASSUME NEW x \in S, NEW y \in S, <<x, y>> \in before PROVE r[x] < r[y]
  <2>1. PICK P, Q : P = Prior(x) /\ Q = Prior(y)
    OBVIOUS
  <2>2. x \notin P /\ P \cup {x} \in SUBSET Q
    BY <1>2, <2>1 DEF Linear
  <2>3. IsFiniteSet(P) /\ IsFiniteSet(Q) /\ Cardinality(P) \in Nat /\ Cardinality(Q) \in Nat
    BY <1>1, <2>1
  <2>4. Cardinality(P \cup {x}) = Cardinality(P) + 1
    BY <2>2, <2>3, FS_AddElement
  <2>5. Cardinality(P \cup {x}) <= Cardinality(Q)
    BY <2>2, <2>3, FS_Subset
  <2>6. Cardinality(P) < Cardinality(Q)
    BY <2>3, <2>4, <2>5
  <2> QED
    BY <2>1, <2>6
<1>3. r \in [S -> Nat]
  BY <1>1
<1>4. Leading(S, before, n) = L
  BY DEF Leading
<1> HIDE DEF r, Prior
<1>5. L \in SUBSET S /\ IsFiniteSet(L) /\ Cardinality(L) \in Nat
  <2>1. L \in SUBSET S
    OBVIOUS
  <2>2. IsFiniteSet(L)
    BY <2>1, FS_Subset
  <2> QED
    BY <2>1, <2>2, FS_CardinalityType
<1>6. Cardinality(L) <= n
  <2>0. \A x, y \in S : x # y => r[x] # r[y]
    <3> SUFFICES ASSUME NEW x \in S, NEW y \in S, x # y PROVE r[x] # r[y]
      OBVIOUS
    <3>1. r[x] \in Nat /\ r[y] \in Nat
      BY <1>3
    <3>2. CASE <<x, y>> \in before
      BY <1>2, <3>1, <3>2
    <3>3. CASE <<y, x>> \in before
      BY <1>2, <3>1, <3>3
    <3> QED
      BY <3>2, <3>3 DEF Linear
  <2> DEFINE N == 0 .. n - 1
  <2>00. PICK f : f = [x \in L |-> r[x]]
    OBVIOUS
  <2>1. \A x, y \in L : f[x] = f[y] => x = y
    BY <2>0, <2>00
  <2>2. f \in [L -> N]
    BY <1>3, <2>00
  <2>3. f \in Injection(L, N)
    <3> HIDE DEF L, N
    <3> QED
      BY <2>1, <2>2 DEF Injection, IsInjective
  <2>4. 0 \in Int /\ n - 1 \in Int
    OBVIOUS
  <2>5. IsFiniteSet(N) /\ Cardinality(N) = IF 0 > n - 1 THEN 0 ELSE n - 1 - 0 + 1
    BY <2>4, FS_Interval
  <2> HIDE DEF N
  <2>6. Cardinality(L) <= Cardinality(N)
    BY <2>3, <2>5, FS_Injection
  <2> QED
    BY <2>5, <2>6
<1>7. ASSUME Cardinality(L) < n, L # S PROVE FALSE
  <2> DEFINE T == {r[x] : x \in S \ L}
  <2>1. T \subseteq Nat /\ T # {}
    BY <1>3, <1>7
  <2>2. PICK m \in T : \A k \in T : m <= k
    BY <2>1, Smallest
  <2>3. PICK y \in S \ L : m = r[y]
    BY <2>2
  <2>4. \A x \in Prior(y) : x \in L
    <3> SUFFICES ASSUME NEW x \in Prior(y), x \notin L PROVE FALSE
      OBVIOUS
    <3>1. x \in S /\ <<x, y>> \in before
      BY DEF Prior
    <3>2. r[x] < r[y] /\ r[y] <= r[x]
      BY <1>2, <2>2, <2>3, <3>1
    <3> QED
      BY <1>3, <3>1, <3>2
  <2>5. PICK P : P = Prior(y)
    OBVIOUS
  <2>6. P \in SUBSET L /\ Cardinality(P) \in Nat
    BY <1>1, <2>4, <2>5
  <2> HIDE DEF L
  <2>7. Cardinality(P) <= Cardinality(L)
    BY <1>5, <2>6, FS_Subset
  <2>8. r[y] < n
    BY <1>5, <1>7, <2>5, <2>6, <2>7 DEF r
  <2> QED
    BY <2>3, <2>8 DEF L
<1> HIDE DEF L
<1> QED
  BY <1>4, <1>5, <1>6, <1>7

-----------------------------------------------------------------------------
(* The merging of fingerprint rules.                                         *)

\* Rules of which each id is there once.
RuleSet(R) == IsFiniteSet(R) /\ R \subseteq Rule /\ \A r, s \in R : r.id = s.id => r = s

LEMMA RulesOrdered ==
  ASSUME RuleSet(frules.rules), NEW S \in SUBSET frules.rules
  PROVE  IsFiniteSet(S) /\ Linear(S, ById) /\ Linear(S, ByStrength)
<1>1. \A r \in S : r \in frules.rules /\ r.id \in Nat /\ r.confidence \in 1 .. 95
  BY DEF RuleSet, Rule
<1>2. \A r, s \in S : r.id = s.id => r = s
  BY DEF RuleSet
<1>3. \A r, s \in S : <<r, s>> \in ById <=> r.id < s.id
  BY <1>1 DEF ById
<1>4. \A r, s \in S : <<r, s>> \in ByStrength <=> Stronger(r, s)
  BY <1>1 DEF ByStrength
<1>5. Linear(S, ById)
  BY <1>1, <1>2, <1>3 DEF Linear
<1>6. Linear(S, ByStrength)
  <2>1. \A r \in S : ~Stronger(r, r)
    BY <1>1 DEF Stronger
  <2>2. \A r, s \in S : r # s => Stronger(r, s) \/ Stronger(s, r)
    <3> SUFFICES ASSUME NEW r \in S, NEW s \in S, r # s PROVE Stronger(r, s) \/ Stronger(s, r)
      OBVIOUS
    <3>1. r.id # s.id /\ r.id \in Nat /\ s.id \in Nat
      BY <1>1, <1>2
    <3>2. r.confidence \in 1 .. 95 /\ s.confidence \in 1 .. 95
      BY <1>1
    <3> QED
      BY <3>1, <3>2 DEF Stronger
  <2>3. \A r, s, t \in S : Stronger(r, s) /\ Stronger(s, t) => Stronger(r, t)
    <3> SUFFICES ASSUME NEW r \in S, NEW s \in S, NEW t \in S, Stronger(r, s), Stronger(s, t) PROVE Stronger(r, t)
      OBVIOUS
    <3>1. r.id \in Nat /\ s.id \in Nat /\ t.id \in Nat
      BY <1>1
    <3>2. r.confidence \in 1 .. 95 /\ s.confidence \in 1 .. 95 /\ t.confidence \in 1 .. 95
      BY <1>1
    <3>3. \A a, b, c, i, j, k \in Nat :
            (a > b \/ (a = b /\ i < j)) /\ (b > c \/ (b = c /\ j < k)) => a > c \/ (a = c /\ i < k)
      OBVIOUS
    <3>4. r.confidence \in Nat /\ s.confidence \in Nat /\ t.confidence \in Nat
      BY <3>2
    <3>5. PICK a \in Nat, b \in Nat, c \in Nat, i \in Nat, j \in Nat, k \in Nat :
            a = r.confidence /\ b = s.confidence /\ c = t.confidence /\ i = r.id /\ j = s.id /\ k = t.id
      BY <3>1, <3>4
    <3>6. (a > b \/ (a = b /\ i < j)) /\ (b > c \/ (b = c /\ j < k))
      BY <3>5 DEF Stronger
    <3>7. a > c \/ (a = c /\ i < k)
      BY <3>3, <3>6
    <3> QED
      BY <3>5, <3>7 DEF Stronger
  <2> QED
    BY <1>4, <2>1, <2>2, <2>3 DEF Linear
<1>7. IsFiniteSet(S)
  BY FS_Subset DEF RuleSet
<1> QED
  BY <1>5, <1>6, <1>7

LEMMA StrongestIs ==
  ASSUME NEW R, RuleSet(R), NEW S \in SUBSET R, S # {}
  PROVE  StrongestOf(S) \in S /\ \A s \in S \ {StrongestOf(S)} : Stronger(StrongestOf(S), s)
<1> DEFINE c == [r \in S |-> r.confidence]
           d == [r \in S |-> r.id]
           Best(r) == \A s \in S \ {r} : Stronger(r, s)
<1>1. \A r \in S : r.id \in Nat /\ r.confidence \in 0 .. 95
  BY DEF RuleSet, Rule
<1>2. \A r, s \in S : r.id = s.id => r = s
  BY DEF RuleSet
<1>3. PICK v \in S : \A w \in S : c[v] > c[w] \/ (c[v] = c[w] /\ d[v] <= d[w])
  <2>1. \A r \in S : c[r] \in 0 .. 95 /\ d[r] \in Nat
    BY <1>1
  <2> HIDE DEF c, d
  <2> QED
    BY <2>1, BestOf
<1>4. Best(v)
  BY <1>1, <1>2, <1>3 DEF Stronger
<1>5. StrongestOf(S) = CHOOSE r \in S : Best(r)
  BY DEF StrongestOf
<1>6. StrongestOf(S) \in S /\ Best(StrongestOf(S))
  <2> HIDE DEF Best
  <2> QED
    BY <1>4, <1>5
<1> QED
  BY <1>6

LEMMA FittingAre ==
  ASSUME RuleSet(frules.rules)
  PROVE  FittingRules \subseteq frules.rules /\ \A r \in FittingRules : r.protocol = fseen.protocol
<1> QED
  BY DEF FittingRules, Leading

LEMMA OthersAre ==
  ASSUME RuleSet(frules.rules), MaxAlternates \in Nat, NEW product
  PROVE  /\ Others(product) \subseteq FittingRules
         /\ \A a \in Others(product) : a.product # product
         /\ \A a, b \in Others(product) : a.product = b.product => a = b
         /\ Cardinality(Others(product)) <= MaxAlternates
         /\ Cardinality(Others(product)) < MaxAlternates =>
              \A r \in FittingRules : r.product \in {product} \cup {a.product : a \in Others(product)}
<1> DEFINE H == {r \in FittingRules : /\ r.product # product
                                      /\ \A s \in FittingRules \ {r} : s.product = r.product => Stronger(r, s)}
<1>1. Others(product) = Leading(H, ByStrength, MaxAlternates)
  BY DEF Others
<1>2. FittingRules \subseteq frules.rules
  BY FittingAre
<1>3. H \in SUBSET frules.rules
  BY <1>2
<1>4. \A a, b \in H : a.product = b.product => a = b
  <2>1. \A r \in frules.rules : r.id \in Nat /\ r.confidence \in 1 .. 95
    BY DEF RuleSet, Rule
  <2>2. \A r, s \in frules.rules : ~(Stronger(r, s) /\ Stronger(s, r))
    BY <2>1 DEF Stronger
  <2> QED
    BY <1>2, <2>2
<1>5. ASSUME NEW r \in FittingRules, r.product # product PROVE \E a \in H : a.product = r.product
  <2> DEFINE G == {s \in FittingRules : s.product = r.product}
  <2>1. G \in SUBSET frules.rules /\ G # {}
    BY <1>2
  <2>2. PICK v \in G : \A s \in G \ {v} : Stronger(v, s)
    <3> HIDE DEF G
    <3> QED
      BY <2>1, StrongestIs
  <2> QED
    BY <1>5, <2>2
<1>6. \A a \in H : a \in FittingRules /\ a.product # product
  OBVIOUS
<1> HIDE DEF H
<1>7. IsFiniteSet(H) /\ Linear(H, ByStrength)
  BY <1>3, RulesOrdered
<1>8. PICK O : O = Others(product)
  OBVIOUS
<1>9. O \subseteq H /\ Cardinality(O) <= MaxAlternates /\ (Cardinality(O) < MaxAlternates => O = H)
  BY <1>1, <1>7, <1>8, LeadingFew
<1>10. O \subseteq FittingRules /\ (\A a \in O : a.product # product) /\ \A a, b \in O : a.product = b.product => a = b
  BY <1>4, <1>6, <1>9
<1>11. ASSUME Cardinality(O) < MaxAlternates, NEW r \in FittingRules PROVE r.product \in {product} \cup {a.product : a \in O}
  BY <1>5, <1>9, <1>11
<1> QED
  BY <1>8, <1>9, <1>10, <1>11

LEMMA CalibratedIs ==
  ASSUME NEW base \in 0 .. 95, NEW signals \in Nat, NEW exact \in BOOLEAN
  PROVE  /\ Calibrated(base, signals, exact) \in 0 .. 95
         /\ base <= 90 \/ ~exact => base <= Calibrated(base, signals, exact)
         /\ Calibrated(base, signals, exact) <= base + signals
<1> DEFINE raised == base + Min({signals, 5})
           kept == IF exact /\ signals = 0 THEN Min({raised, 90}) ELSE raised
<1>1. Min({signals, 5}) = IF signals <= 5 THEN signals ELSE 5
  BY LesserOfTwo
<1>2. raised \in Nat /\ base <= raised /\ raised <= base + signals
  BY <1>1
<1>3. Calibrated(base, signals, exact) = Min({95, kept})
  BY DEF Calibrated
<1> HIDE DEF raised
<1>4. Min({raised, 90}) = IF raised <= 90 THEN raised ELSE 90
  BY <1>2, LesserOfTwo
<1>5. kept \in Nat /\ kept <= raised /\ (base <= 90 \/ ~exact => base <= kept)
  BY <1>2, <1>4
<1> HIDE DEF kept
<1>6. Min({95, kept}) = IF 95 <= kept THEN 95 ELSE kept
  BY <1>5, LesserOfTwo
<1> QED
  BY <1>2, <1>3, <1>5, <1>6

FusionShape ==
  /\ fseen \in Observations /\ \A f \in PackFiles : fdir[f][1] = "rules" => fdir[f][2] \in Packs
  /\ fread \subseteq PackFiles
  /\ faccepted = [packs |-> faccepted.packs, rejected |-> faccepted.rejected]
  /\ faccepted.packs \in Seq(Packs) /\ faccepted.rejected \in Nat
  /\ \A i \in DOMAIN faccepted.packs : ValidPack(faccepted.packs[i])

\* A file is accepted or counted; the database is what the packs hold.
FusionLoaded ==
  \/ /\ frules = NotLoaded /\ fout = NoAnswer
     /\ Len(faccepted.packs) + faccepted.rejected = Cardinality(fread)
  \/ /\ frules.loaded /\ RuleSet(frules.rules) /\ frules.rules = UNION ToSet(faccepted.packs)
     /\ Len(faccepted.packs) + faccepted.rejected <= Cardinality(PackFiles)
     /\ fout = NoAnswer \/ fout = FinishObservation

FusionInv == FusionShape /\ FusionLoaded

LEMMA FusionStarts == FusionInit => FusionInv
<1> SUFFICES ASSUME FusionInit PROVE FusionInv
  OBVIOUS
<1>1. ASSUME NEW f \in PackFiles, fdir[f][1] = "rules" PROVE fdir[f][2] \in Packs
  <2>1. fdir[f] \in {RulesOf(pack) : pack \in Packs} \cup {Malformed, Absent}
    BY DEF FusionInit
  <2>2. fdir[f] # Malformed /\ fdir[f] # Absent
    BY <1>1 DEF Malformed, Absent
  <2>3. PICK pack \in Packs : fdir[f] = <<"rules", pack>>
    BY <2>1, <2>2 DEF RulesOf
  <2> QED
    BY <2>3
<1>2. faccepted = [packs |-> <<>>, rejected |-> 0] /\ <<>> \in Seq(Packs) /\ Len(<<>>) = 0
  BY DEF FusionInit
<1>3. fread = {} /\ Cardinality({}) = 0
  BY FS_EmptySet DEF FusionInit
<1>4. FusionShape
  BY <1>1, <1>2, <1>3 DEF FusionInit, FusionShape
<1>5. FusionLoaded
  BY <1>2, <1>3 DEF FusionInit, FusionLoaded
<1> QED
  BY <1>4, <1>5 DEF FusionInv

LEMMA FusionReads == ASSUME FusionInv, ReadPack PROVE FusionInv'
<1> DEFINE unread == {f \in PackFiles : fdir[f] # Absent} \ fread
<1>0. FusionShape /\ FusionLoaded
  BY DEF FusionInv
<1>1. unread \subseteq Nat /\ unread # {}
  BY FusionAssumption DEF ReadPack
<1>2. PICK file : file = Min(unread)
  OBVIOUS
<1>3. file \in unread
  <2>1. \E m \in unread : \A n \in unread : m <= n
    BY <1>1, Smallest
  <2> HIDE DEF unread
  <2> QED
    BY <1>2, <2>1 DEF Min
<1>4. /\ fread' = fread \cup {file} /\ fdir' = fdir /\ fseen' = fseen /\ frules' = frules /\ fout' = fout
      /\ faccepted' = IF Accepts(file)
                      THEN [faccepted EXCEPT !.packs = Append(@, fdir[file][2])]
                      ELSE [faccepted EXCEPT !.rejected = @ + 1]
  BY <1>2 DEF ReadPack
<1>5. PICK p, n : faccepted = [packs |-> p, rejected |-> n]
  BY <1>0 DEF FusionShape
<1>6. p \in Seq(Packs) /\ n \in Nat /\ \A i \in DOMAIN p : ValidPack(p[i])
  BY <1>0, <1>5 DEF FusionShape
<1>7. frules = NotLoaded /\ fout = NoAnswer /\ Len(p) + n = Cardinality(fread)
  BY <1>0, <1>5 DEF FusionLoaded, ReadPack
<1>8. Cardinality(fread \cup {file}) = Cardinality(fread) + 1
  <2>1. IsFiniteSet(fread)
    BY <1>0, FS_Subset, FusionAssumption DEF FusionShape
  <2> QED
    BY <1>3, <2>1, FS_AddElement
<1>9. PICK q, m : /\ faccepted' = [packs |-> q, rejected |-> m] /\ q \in Seq(Packs) /\ m \in Nat
                  /\ Len(q) + m = Len(p) + n + 1 /\ \A i \in DOMAIN q : ValidPack(q[i])
  <2>1. CASE Accepts(file)
    <3>1. PICK pack : pack = fdir[file][2]
      OBVIOUS
    <3>2. pack \in Packs /\ ValidPack(pack)
      BY <1>0, <1>3, <2>1, <3>1 DEF FusionShape, Accepts
    <3>3. faccepted' = [packs |-> Append(p, pack), rejected |-> n]
      BY <1>4, <1>5, <2>1, <3>1
    <3>4. Append(p, pack) \in Seq(Packs) /\ Len(Append(p, pack)) = Len(p) + 1
      BY <1>6, <3>2
    <3>5. \A i \in DOMAIN Append(p, pack) : ValidPack(Append(p, pack)[i])
      BY <1>6, <3>2
    <3>6. Len(Append(p, pack)) + n = Len(p) + n + 1
      <4>1. Len(p) \in Nat
        BY <1>6
      <4> QED
        BY <1>6, <3>4, <4>1
    <3> QED
      BY <1>6, <3>3, <3>4, <3>5, <3>6
  <2>2. CASE ~Accepts(file)
    <3>1. faccepted' = [packs |-> p, rejected |-> n + 1]
      BY <1>4, <1>5, <2>2
    <3>2. Len(p) \in Nat /\ n + 1 \in Nat
      BY <1>6
    <3>3. Len(p) + (n + 1) = Len(p) + n + 1
      BY <1>6, <3>2
    <3> QED
      BY <1>6, <3>1, <3>2, <3>3
  <2> QED
    BY <2>1, <2>2
<1>10. FusionShape'
  <2>1. fread' \subseteq PackFiles
    BY <1>0, <1>3, <1>4 DEF FusionShape
  <2>2. fseen' \in Observations /\ \A f \in PackFiles : fdir'[f][1] = "rules" => fdir'[f][2] \in Packs
    BY <1>0, <1>4 DEF FusionShape
  <2>3. \A i \in DOMAIN faccepted'.packs : ValidPack(faccepted'.packs[i])
    BY <1>9
  <2> QED
    BY <1>9, <2>1, <2>2, <2>3 DEF FusionShape, ValidPack
<1>11. FusionLoaded'
  <2>1. Len(faccepted'.packs) + faccepted'.rejected = Cardinality(fread')
    BY <1>4, <1>6, <1>7, <1>8, <1>9
  <2> QED
    BY <1>4, <1>7, <2>1 DEF FusionLoaded, NotLoaded, NoAnswer
<1> QED
  BY <1>10, <1>11 DEF FusionInv

LEMMA FusionCompiles == ASSUME FusionInv, Compile PROVE FusionInv'
<1>0. FusionShape /\ FusionLoaded
  BY DEF FusionInv
<1>1. fread' = fread /\ fdir' = fdir /\ fseen' = fseen /\ fout' = fout
  BY DEF Compile
<1>2. PICK p, n : faccepted = [packs |-> p, rejected |-> n]
  BY <1>0 DEF FusionShape
<1>3. p \in Seq(Packs) /\ n \in Nat /\ \A i \in DOMAIN p : ValidPack(p[i])
  BY <1>0, <1>2 DEF FusionShape
<1>4. DOMAIN p = 1 .. Len(p) /\ Len(p) \in Nat
  BY <1>3
<1>5. fout = NoAnswer /\ Len(p) + n = Cardinality(fread)
  BY <1>0, <1>2 DEF FusionLoaded, Compile
<1>6. Cardinality(fread) <= Cardinality(PackFiles) /\ Cardinality(PackFiles) \in Nat /\ Cardinality(fread) \in Nat
  <2>1. fread \in SUBSET PackFiles /\ IsFiniteSet(PackFiles)
    BY <1>0, FusionAssumption DEF FusionShape
  <2> QED
    BY <2>1, FS_Subset, FS_CardinalityType
<1>7. PICK q, m, R : /\ faccepted' = [packs |-> q, rejected |-> m] /\ q \in Seq(Packs) /\ m \in Nat
                     /\ \A i \in DOMAIN q : ValidPack(q[i])
                     /\ Len(q) + m <= Cardinality(PackFiles) /\ frules' = Database(R)
                     /\ R = UNION ToSet(q) /\ RuleSet(R)
  <2>1. CASE SharedId
    <3>1. faccepted' = [packs |-> <<>>, rejected |-> 1] /\ frules' = Database({})
      BY <2>1 DEF Compile
    <3>2. PICK i \in DOMAIN p, k \in DOMAIN p : i < k
      BY <1>2, <2>1 DEF SharedId
    <3>3. 1 <= Cardinality(PackFiles)
      BY <1>3, <1>4, <1>5, <1>6, <3>2
    <3>4. UNION ToSet(<<>>) = {}
      BY DEF ToSet
    <3>5. RuleSet({})
      BY FS_EmptySet DEF RuleSet
    <3>6. <<>> \in Seq(Packs) /\ Len(<<>>) = 0 /\ DOMAIN <<>> = {}
      OBVIOUS
    <3>7. Len(<<>>) + 1 <= Cardinality(PackFiles)
      BY <3>3, <3>6
    <3> QED
      BY <3>1, <3>4, <3>5, <3>6, <3>7
  <2>2. CASE ~SharedId
    <3>1. faccepted' = faccepted /\ frules' = Database(UNION ToSet(p))
      BY <1>2, <2>2 DEF Compile
    <3>2. PICK R : R = UNION ToSet(p)
      OBVIOUS
    <3>3. ToSet(p) = {p[i] : i \in DOMAIN p}
      BY DEF ToSet
    <3>4. \A i \in DOMAIN p : p[i] \in Packs
      BY <1>3
    <3>5. IsFiniteSet(R)
      <4>1. \A i \in DOMAIN p : IsFiniteSet(p[i])
        BY <3>4, FusionAssumption
      <4>2. IsFiniteSet(DOMAIN p)
        <5>1. 1 \in Int /\ Len(p) \in Int
          BY <1>4
        <5> QED
          BY <1>4, <5>1, FS_Interval
      <4>3. IsFiniteSet(ToSet(p))
        <5>0. \A S : IsFiniteSet(S) => \A f : IsFiniteSet({f[x] : x \in S})
          <6> SUFFICES ASSUME NEW S, IsFiniteSet(S), NEW f PROVE IsFiniteSet({f[x] : x \in S})
            OBVIOUS
          <6> DEFINE g == [x \in S |-> f[x]]
                     T == {f[x] : x \in S}
          <6>1. g \in Surjection(S, T)
            BY DEF Surjection
          <6> HIDE DEF g, T
          <6>2. IsFiniteSet(T)
            BY <6>1, FS_Surjection
          <6> QED
            BY <6>2 DEF T
        <5> QED
          BY <3>3, <4>2, <5>0
      <4>4. \A T \in ToSet(p) : IsFiniteSet(T)
        BY <3>3, <4>1
      <4> QED
        BY <3>2, <4>3, <4>4, FS_UNION
    <3>6. \A r \in R : \E i \in DOMAIN p : r \in p[i]
      BY <3>2, <3>3
    <3>7. R \subseteq Rule
      BY <3>4, <3>6, FusionAssumption
    <3>8. ASSUME NEW r \in R, NEW s \in R, r.id = s.id PROVE r = s
      <4>1. PICK i \in DOMAIN p, k \in DOMAIN p : r \in p[i] /\ s \in p[k]
        BY <3>6
      <4>2. ~(i < k) /\ ~(k < i)
        BY <1>2, <2>2, <3>8, <4>1 DEF SharedId
      <4>3. i = k
        BY <1>4, <4>2
      <4> QED
        BY <1>3, <3>8, <4>1, <4>3 DEF ValidPack
    <3>9. RuleSet(R)
      BY <3>5, <3>7, <3>8 DEF RuleSet
    <3>10. Len(p) + n <= Cardinality(PackFiles)
      BY <1>5, <1>6
    <3> QED
      BY <1>2, <1>3, <3>1, <3>2, <3>9, <3>10
  <2> QED
    BY <2>1, <2>2
<1>8. FusionShape'
  <2>1. fread' \subseteq PackFiles
    BY <1>0, <1>1 DEF FusionShape
  <2>2. fseen' \in Observations /\ \A f \in PackFiles : fdir'[f][1] = "rules" => fdir'[f][2] \in Packs
    BY <1>0, <1>1 DEF FusionShape
  <2>3. \A i \in DOMAIN faccepted'.packs : ValidPack(faccepted'.packs[i])
    BY <1>7
  <2> QED
    BY <1>7, <2>1, <2>2, <2>3 DEF FusionShape, ValidPack
<1>9. FusionLoaded'
  <2>1. frules'.loaded /\ frules'.rules = R
    BY <1>7 DEF Database
  <2>2. RuleSet(frules'.rules) /\ frules'.rules = UNION ToSet(faccepted'.packs)
    BY <1>7, <2>1
  <2>3. Len(faccepted'.packs) + faccepted'.rejected <= Cardinality(PackFiles)
    BY <1>7
  <2> QED
    BY <1>1, <1>5, <2>1, <2>2, <2>3 DEF FusionLoaded, NoAnswer, RuleSet
<1> QED
  BY <1>8, <1>9 DEF FusionInv

LEMMA FusionQuietKeeps == ASSUME frules' = frules, fseen' = fseen PROVE FinishObservation' = FinishObservation
<1>1. FittingRules' = FittingRules /\ SuggestedRules' = SuggestedRules
  BY DEF FittingRules, SuggestedRules, Leading, ById
<1>2. \A product : Others(product)' = Others(product)
  BY <1>1 DEF Others, Leading, ByStrength
<1>3. Agreeing' = Agreeing
  BY <1>1 DEF Agreeing
<1>4. Conflicts' = Conflicts
  BY <1>3 DEF Conflicts, Leading, ById
<1>5. KeepBuiltin' = KeepBuiltin
  BY <1>2, <1>3, <1>4 DEF KeepBuiltin
<1>6. AdoptStrongest' = AdoptStrongest
  BY <1>1, <1>2 DEF AdoptStrongest
<1>7. NothingAdded' = NothingAdded /\ Unclassified' = Unclassified
  BY <1>1 DEF NothingAdded, Unclassified
<1> QED
  BY <1>1, <1>5, <1>6, <1>7 DEF FinishObservation

LEMMA FusionSteps == FusionInv /\ [FusionNext]_fusionvars => FusionInv'
<1> SUFFICES ASSUME FusionInv, [FusionNext]_fusionvars PROVE FusionInv'
  OBVIOUS
<1>1. ASSUME UNCHANGED <<fdir, fseen, fread, faccepted, frules>>, fout' = fout \/ (frules.loaded /\ fout' = FinishObservation)
      PROVE  FusionInv'
  <2>1. FusionShape'
    BY <1>1 DEF FusionInv, FusionShape, ValidPack
  <2>2. FinishObservation' = FinishObservation
    BY <1>1, FusionQuietKeeps
  <2>3. FusionLoaded'
    <3>1. frules' = frules /\ faccepted' = faccepted /\ fread' = fread
      BY <1>1
    <3>2. CASE frules = NotLoaded /\ fout' = fout
      BY <3>1, <3>2 DEF FusionInv, FusionLoaded, NotLoaded, NoAnswer
    <3>3. CASE frules.loaded
      BY <1>1, <2>2, <3>1, <3>3 DEF FusionInv, FusionLoaded, NotLoaded, NoAnswer, RuleSet
    <3>4. frules = NotLoaded => ~frules.loaded
      BY DEF NotLoaded
    <3> QED
      BY <1>1, <3>2, <3>3, <3>4 DEF FusionInv, FusionLoaded
  <2> QED
    BY <2>1, <2>3 DEF FusionInv
<1>2. CASE ReadPack
  BY <1>2, FusionReads
<1>3. CASE Compile
  BY <1>3, FusionCompiles
<1>4. CASE Conclude
  BY <1>1, <1>4 DEF Conclude
<1>5. CASE UNCHANGED fusionvars
  BY <1>1, <1>5 DEF fusionvars
<1> QED
  BY <1>2, <1>3, <1>4, <1>5 DEF FusionNext

\* What is concluded keeps the promises, whatever was observed.
LEMMA ConcludedIs ==
  ASSUME fseen \in BuiltinFinding, RuleSet(frules.rules), MaxAlternates \in Nat
  PROVE  /\ FinishObservation.confidence \in 0 .. 95 /\ Cardinality(FinishObservation.alternates) <= MaxAlternates
         /\ fseen.product # "none" =>
              /\ FinishObservation.product = fseen.product
              /\ fseen.version # "none" => FinishObservation.version = fseen.version
              /\ FinishObservation.confidence = Calibrated(fseen.confidence, fseen.signals, fseen.version # "none")
         /\ FinishObservation.product # "none" => FinishObservation.versionConfidence <= FinishObservation.confidence
         /\ FinishObservation.source = "rule" => FinishObservation.confidence <= 90 + fseen.signals
         /\ fseen.protocol = "unknown" => FinishObservation.product = "none" /\ FinishObservation.version = "none"
         /\ fseen.protocol # "unknown" =>
              /\ \A a, b \in FinishObservation.alternates : a.product = b.product => a = b
              /\ \A a \in FinishObservation.alternates : a.product # FinishObservation.product /\ a.protocol = fseen.protocol
              /\ Cardinality(FinishObservation.alternates) < MaxAlternates =>
                   \A r \in FittingRules :
                     r.product \in {FinishObservation.product} \cup {a.product : a \in FinishObservation.alternates}
<1>1. PICK out : out = FinishObservation
  OBVIOUS
<1>2. /\ fseen.confidence \in 0 .. 95 /\ fseen.signals \in Nat
      /\ fseen.protocol = "unknown" => fseen.product = "none"
  BY DEF BuiltinFinding
<1>3. \A exact \in BOOLEAN, base \in 0 .. 95 :
        /\ Calibrated(base, fseen.signals, exact) \in 0 .. 95
        /\ base <= 90 \/ ~exact => base <= Calibrated(base, fseen.signals, exact)
        /\ Calibrated(base, fseen.signals, exact) <= base + fseen.signals
  BY <1>2, CalibratedIs
<1>4. \A version, own, confidence : confidence \in 0 .. 95 /\ own \in 0 .. confidence =>
        FieldVersion(version, own, confidence) <= confidence
  <2> SUFFICES ASSUME NEW version, NEW confidence \in 0 .. 95, NEW own \in 0 .. confidence
               PROVE  FieldVersion(version, own, confidence) <= confidence
    OBVIOUS
  <2>1. Min({confidence, 90}) = IF confidence <= 90 THEN confidence ELSE 90
    BY LesserOfTwo
  <2> QED
    BY <2>1 DEF FieldVersion
<1>5. Cardinality({}) <= MaxAlternates
  BY FS_EmptySet
<1>6. FittingRules \subseteq frules.rules /\ \A r \in FittingRules : r.protocol = fseen.protocol
  BY FittingAre
<1>7. \A r \in frules.rules : r.confidence \in 1 .. 95 /\ r.product # "none"
  BY DEF RuleSet, Rule
<1>8. \A S \in SUBSET frules.rules : S # {} => StrongestOf(S) \in S
  BY StrongestIs
<1>9. ASSUME NEW product
      PROVE  /\ \A a, b \in Others(product) : a.product = b.product => a = b
             /\ \A a \in Others(product) : a.product # product /\ a.protocol = fseen.protocol
             /\ Cardinality(Others(product)) <= MaxAlternates
             /\ Cardinality(Others(product)) < MaxAlternates =>
                  \A r \in FittingRules : r.product \in {product} \cup {a.product : a \in Others(product)}
  BY <1>6, OthersAre
<1>10. CASE fseen.protocol = "unknown"
  <2>1. out = Unclassified
    BY <1>1, <1>10 DEF FinishObservation
  <2>2. /\ out.confidence = fseen.confidence /\ out.alternates = {} /\ out.product = "none"
        /\ out.version = "none" /\ out.source = "none"
    BY <2>1 DEF Unclassified, NoAnswer
  <2> QED
    BY <1>1, <1>2, <1>5, <1>10, <2>2
<1>11. CASE fseen.protocol # "unknown" /\ fseen.product # "none"
  <2> DEFINE versioned == {r \in Agreeing : r.version # "none"}
             adopts == fseen.version = "none" /\ versioned # {}
             adopted == StrongestOf(versioned)
             confidence == Calibrated(fseen.confidence, fseen.signals, fseen.version # "none")
             own == IF adopts THEN Min({adopted.confidence, fseen.confidence, 95}) ELSE 0
             version == IF adopts THEN adopted.version ELSE fseen.version
  <2>1. out = KeepBuiltin
    BY <1>1, <1>11 DEF FinishObservation
  <2>2. /\ out.confidence = confidence /\ out.alternates = Others(fseen.product)
        /\ out.product = fseen.product /\ out.source = "builtin"
        /\ out.version = version /\ out.versionConfidence = FieldVersion(version, own, confidence)
    BY <2>1 DEF KeepBuiltin
  <2>3. confidence \in 0 .. 95 /\ (fseen.version = "none" => fseen.confidence <= confidence)
    BY <1>2, <1>3
  <2>4. own \in 0 .. confidence
    <3>1. CASE adopts
      <4>1. versioned \in SUBSET frules.rules
        BY <1>6 DEF Agreeing
      <4>2. adopted.confidence \in 1 .. 95
        BY <1>7, <1>8, <3>1, <4>1
      <4> HIDE DEF adopted, confidence
      <4>3. Min({adopted.confidence, fseen.confidence, 95}) \in 0 .. fseen.confidence
        <5>1. PICK a \in Nat, b \in Nat : a = adopted.confidence /\ b = fseen.confidence
          BY <1>2, <4>2
        <5>2. Min({a, b, 95}) = IF a <= b /\ a <= 95 THEN a ELSE IF b <= 95 THEN b ELSE 95
          BY LeastOfThree
        <5> QED
          BY <1>2, <4>2, <5>1, <5>2
      <4> QED
        BY <1>2, <2>3, <3>1, <4>3
    <3>2. CASE ~adopts
      <4> HIDE DEF confidence
      <4> QED
        BY <2>3, <3>2
    <3> QED
      BY <3>1, <3>2
  <2>5. fseen.version # "none" => version = fseen.version
    OBVIOUS
  <2>6. confidence = Calibrated(fseen.confidence, fseen.signals, fseen.version # "none")
    OBVIOUS
  <2> HIDE DEF confidence, own, version
  <2>7. out.versionConfidence <= out.confidence
    BY <1>4, <2>2, <2>3, <2>4
  <2> QED
    BY <1>1, <1>9, <1>11, <2>2, <2>3, <2>5, <2>6, <2>7
<1>12. CASE fseen.protocol # "unknown" /\ fseen.product = "none" /\ FittingRules # {}
  <2> DEFINE best == StrongestOf(FittingRules)
             adopted == Min({best.confidence, 90})
             confidence == Calibrated(adopted, fseen.signals, best.version # "none")
             version == IF best.version # "none" THEN best.version ELSE fseen.version
             own == IF best.version # "none" THEN Min({best.confidence, adopted}) ELSE 0
  <2>1. out = AdoptStrongest
    BY <1>1, <1>12 DEF FinishObservation
  <2>2. /\ out.confidence = confidence /\ out.alternates = Others(best.product)
        /\ out.product = best.product /\ out.versionConfidence = FieldVersion(version, own, confidence)
    BY <2>1 DEF AdoptStrongest
  <2>3. best.confidence \in 1 .. 95
    BY <1>6, <1>7, <1>8, <1>12
  <2>4. adopted \in 0 .. 90
    <3>1. PICK c \in 1 .. 95 : c = best.confidence
      BY <2>3
    <3>2. Min({c, 90}) = IF c <= 90 THEN c ELSE 90
      BY LesserOfTwo
    <3> HIDE DEF best
    <3> QED
      BY <3>1, <3>2
  <2>5. confidence \in 0 .. 95 /\ adopted <= confidence /\ confidence <= 90 + fseen.signals
    <3>1. adopted \in 0 .. 95 /\ adopted <= 90
      BY <2>4
    <3> HIDE DEF adopted, best
    <3>2. /\ confidence \in 0 .. 95 /\ (adopted <= 90 => adopted <= confidence)
          /\ confidence <= adopted + fseen.signals
      BY <1>3, <3>1
    <3> HIDE DEF confidence
    <3> QED
      BY <1>2, <2>4, <3>1, <3>2
  <2>6. own \in 0 .. confidence
    <3>1. own = 0 \/ own = Min({best.confidence, adopted})
      OBVIOUS
    <3> HIDE DEF best, adopted, confidence, own
    <3>2. Min({best.confidence, adopted}) = IF best.confidence <= adopted THEN best.confidence ELSE adopted
      BY <2>3, <2>4, LesserOfTwo
    <3> QED
      BY <2>3, <2>4, <2>5, <3>1, <3>2
  <2> HIDE DEF best, confidence, version, own
  <2>7. out.versionConfidence <= out.confidence
    BY <1>4, <2>2, <2>5, <2>6
  <2> QED
    BY <1>1, <1>9, <1>12, <2>2, <2>5, <2>7
<1>13. CASE fseen.protocol # "unknown" /\ fseen.product = "none" /\ FittingRules = {}
  <2> DEFINE confidence == Calibrated(fseen.confidence, fseen.signals, fseen.version # "none")
  <2>1. out = NothingAdded
    BY <1>1, <1>13 DEF FinishObservation
  <2>2. out.confidence = confidence /\ out.alternates = {} /\ out.product = "none" /\ out.source = "builtin"
    BY <2>1 DEF NothingAdded, NoAnswer
  <2>3. confidence \in 0 .. 95
    BY <1>2, <1>3
  <2> QED
    BY <1>1, <1>5, <1>13, <2>2, <2>3
<1> QED
  BY <1>10, <1>11, <1>12, <1>13

LEMMA FusionMeans == FusionInv => FusionTypeOK /\ FusionSound
<1> SUFFICES ASSUME FusionInv PROVE FusionTypeOK /\ FusionSound
  OBVIOUS
<1>0. FusionShape /\ FusionLoaded
  BY DEF FusionInv
<1>1. fseen \in BuiltinFinding /\ MaxAlternates \in Nat
  BY <1>0, FusionAssumption DEF FusionShape
<1>2. Len(faccepted.packs) + faccepted.rejected <= Cardinality(PackFiles)
  <2>1. fread \in SUBSET PackFiles /\ IsFiniteSet(PackFiles)
    BY <1>0, FusionAssumption DEF FusionShape
  <2>2. Cardinality(fread) <= Cardinality(PackFiles)
    BY <2>1, FS_Subset
  <2> QED
    BY <1>0, <2>2 DEF FusionLoaded
<1>3. NoShadowing
  BY <1>0 DEF NoShadowing, FusionLoaded, NotLoaded, RuleSet
<1>4. CASE fout = NoAnswer
  <2>1. ~fout.done /\ fout.confidence = 0 /\ fout.alternates = {}
    BY <1>4 DEF NoAnswer
  <2>2. Cardinality({}) <= MaxAlternates
    BY <1>1, FS_EmptySet
  <2> QED
    BY <1>2, <1>3, <2>1, <2>2 DEF FusionTypeOK, FusionSound, BuiltinStands, NothingInflated, ConflictsVisible
<1>5. CASE frules.loaded /\ fout = FinishObservation
  <2>1. RuleSet(frules.rules)
    BY <1>0, <1>5 DEF FusionLoaded, NotLoaded
  <2>2. FusionTypeOK
    <3>1. FinishObservation.confidence \in 0 .. 95 /\ Cardinality(FinishObservation.alternates) <= MaxAlternates
      BY <1>1, <2>1, ConcludedIs
    <3>2. PICK out : out = FinishObservation
      OBVIOUS
    <3>3. out.confidence <= 95 /\ Cardinality(out.alternates) <= MaxAlternates
      BY <3>1, <3>2
    <3> QED
      BY <1>2, <1>5, <3>2, <3>3 DEF FusionTypeOK
  <2>3. BuiltinStands
    BY <1>1, <1>5, <2>1, ConcludedIs DEF BuiltinStands
  <2>4. NothingInflated
    BY <1>1, <1>5, <2>1, ConcludedIs DEF NothingInflated
  <2>5. ConflictsVisible
    BY <1>1, <1>5, <2>1, ConcludedIs DEF ConflictsVisible
  <2> QED
    BY <1>3, <2>2, <2>3, <2>4, <2>5 DEF FusionSound
<1> QED
  BY <1>0, <1>4, <1>5 DEF FusionLoaded

\* Built-in evidence stands, nothing is surer than what it hangs on, every
\* product a rule named is kept in sight, and no rule shadows another.
THEOREM FusionIsSound == FusionSpec => [](FusionTypeOK /\ FusionSound)
<1>1. FusionInit => FusionInv
  BY FusionStarts
<1>2. FusionInv /\ [FusionNext]_fusionvars => FusionInv'
  BY FusionSteps
<1>3. FusionInv => FusionTypeOK /\ FusionSound
  BY FusionMeans
<1> QED
  BY <1>1, <1>2, <1>3, PTL DEF FusionSpec
=============================================================================
