--------------------------- MODULE DecisionProofs ---------------------------
(***************************************************************************)
(* Theorems about what leads to what.  Investigation: whatever the outside *)
(* knows, however often its transforms and lookups are stopped, refused or *)
(* run out of budget, it says exactly what it asked and found, and         *)
(* contacts the network where it was authorised only.  JobStore, for any   *)
(* number of jobs, streams and limits; Expansion, for any worlds and any   *)
(* order of completion; WebSurvey, for any sites.                          *)
(***************************************************************************)
EXTENDS MCDecisions, QueueLemmas

-----------------------------------------------------------------------------
(* What leads to what in an investigation.                                 *)

\* How one entity leads to another.
Relations == {"has_account", "links_to", "references", "resolves_to", "reverse_resolves_to", "associated",
              "has_san", "refers", "exposed_in", "reported", "listens_on"}

\* Entities are tied to e when each is reached from e, or from one before it,
\* by one of the relationships.
Tied(E, e, ids, links) ==
  /\ ids \in Seq(E) /\ links \in Seq(E \X E \X Relations)
  /\ \A k \in 1 .. Len(ids) : \E r \in 1 .. Len(links) :
       /\ links[r][2] = ids[k]
       /\ links[r][1] = e \/ \E j \in 1 .. k - 1 : ids[j] = links[r][1]

\* No entities and no relationships are tied.
LEMMA TiedNothing ==
  ASSUME NEW E, NEW e PROVE Tied(E, e, <<>>, <<>>)
  BY DEF Tied

\* One relationship of e to each of the entities ties them.
LEMMA TiedEach ==
  ASSUME NEW E, NEW e \in E, NEW ids \in Seq(E), NEW links, DOMAIN links = DOMAIN ids,
         links = [i \in DOMAIN ids |-> links[i]],
         \A i \in DOMAIN ids : \E r \in Relations : links[i] = <<e, ids[i], r>>
  PROVE  Tied(E, e, ids, links)
<1> DEFINE n == Len(ids)
<1>1. n \in Nat /\ DOMAIN ids = 1 .. n /\ \A i \in 1 .. n : ids[i] \in E
  BY ElementOfSeq, LenProperties
<1>2. \A i \in 1 .. n : /\ links[i] \in E \X E \X Relations
                        /\ links[i][1] = e /\ links[i][2] = ids[i]
  <2> SUFFICES ASSUME NEW i \in 1 .. n
               PROVE  links[i] \in E \X E \X Relations /\ links[i][1] = e /\ links[i][2] = ids[i]
    OBVIOUS
  <2>1. ids[i] \in E
    BY <1>1
  <2>2. PICK r \in Relations : links[i] = <<e, ids[i], r>>
    BY <1>1
  <2>3. <<e, ids[i], r>> \in E \X E \X Relations
    BY <2>1
  <2>4. <<e, ids[i], r>>[1] = e /\ <<e, ids[i], r>>[2] = ids[i]
    OBVIOUS
  <2> QED
    BY <2>2, <2>3, <2>4
<1> HIDE DEF n
<1>3. links \in Seq(E \X E \X Relations) /\ Len(links) = n
  BY <1>1, <1>2, LenProperties, SeqDef
<1> QED
  BY <1>1, <1>2, <1>3 DEF Tied, n

\* So does the helper To.
LEMMA TiedTo ==
  ASSUME NEW E, NEW e \in E, NEW ids \in Seq(E), NEW relation \in Relations
  PROVE  /\ Tied(E, e, ids, To(e, ids, relation))
         /\ To(e, ids, relation) \in Seq(E \X E \X Relations) /\ Len(To(e, ids, relation)) = Len(ids)
<1> DEFINE links == To(e, ids, relation)
<1>1. /\ DOMAIN links = DOMAIN ids /\ links = [i \in DOMAIN ids |-> links[i]]
      /\ \A i \in DOMAIN ids : links[i] = <<e, ids[i], relation>>
  BY DEF To
<1> HIDE DEF links
<1>2. Tied(E, e, ids, links)
  BY <1>1, TiedEach
<1>3. links \in Seq(E \X E \X Relations)
  BY <1>2 DEF Tied
<1>4. Len(links) = Len(ids)
  BY <1>1, <1>3, LenProperties
<1> QED
  BY <1>2, <1>3, <1>4 DEF links

\* What is tied can be put together.
LEMMA TiedJoin ==
  ASSUME NEW E, NEW e, NEW i1, NEW l1, NEW i2, NEW l2, Tied(E, e, i1, l1), Tied(E, e, i2, l2)
  PROVE  Tied(E, e, i1 \o i2, l1 \o l2)
<1> DEFINE m == Len(i1)
           n == Len(i2)
           p == Len(l1)
           q == Len(l2)
           L == E \X E \X Relations
<1>1. i1 \in Seq(E) /\ i2 \in Seq(E) /\ l1 \in Seq(L) /\ l2 \in Seq(L)
  BY DEF Tied
<1>2. /\ m \in Nat /\ n \in Nat /\ p \in Nat /\ q \in Nat
      /\ i1 \o i2 \in Seq(E) /\ l1 \o l2 \in Seq(L)
      /\ Len(i1 \o i2) = m + n /\ Len(l1 \o l2) = p + q
      /\ \A i \in 1 .. m : (i1 \o i2)[i] = i1[i]
      /\ \A i \in 1 .. n : (i1 \o i2)[m + i] = i2[i]
      /\ \A i \in 1 .. p : (l1 \o l2)[i] = l1[i]
      /\ \A i \in 1 .. q : (l1 \o l2)[p + i] = l2[i]
  <2> HIDE DEF L
  <2>1. i1 \o i2 \in Seq(E) /\ l1 \o l2 \in Seq(L)
    BY <1>1, ConcatProperties
  <2> QED
    BY <1>1, <2>1, ConcatProperties, LenProperties
<1> DEFINE ids == i1 \o i2
           links == l1 \o l2
<1> HIDE DEF L, ids, links
<1>3. ASSUME NEW k \in 1 .. Len(ids)
      PROVE  \E r \in 1 .. Len(links) :
               /\ links[r][2] = ids[k]
               /\ links[r][1] = e \/ \E j \in 1 .. k - 1 : ids[j] = links[r][1]
  <2>1. CASE k \in 1 .. m
    <3>1. PICK r \in 1 .. p : /\ l1[r][2] = i1[k]
                              /\ l1[r][1] = e \/ \E j \in 1 .. k - 1 : i1[j] = l1[r][1]
      BY <2>1 DEF Tied
    <3>2. r \in 1 .. Len(links) /\ links[r] = l1[r] /\ ids[k] = i1[k]
      BY <1>2, <2>1 DEF ids, links
    <3>3. \A j \in 1 .. k - 1 : ids[j] = i1[j]
      BY <1>2, <2>1 DEF ids
    <3> QED
      BY <3>1, <3>2, <3>3
  <2>2. CASE k \notin 1 .. m
    <3>1. k - m \in 1 .. n /\ k = m + (k - m)
      BY <1>2, <2>2 DEF ids
    <3>2. PICK r \in 1 .. q : /\ l2[r][2] = i2[k - m]
                              /\ l2[r][1] = e \/ \E j \in 1 .. k - m - 1 : i2[j] = l2[r][1]
      BY <3>1 DEF Tied
    <3>3. p + r \in 1 .. Len(links) /\ links[p + r] = l2[r]
      BY <1>2 DEF links
    <3>4. ids[k] = i2[k - m]
      BY <1>2, <3>1 DEF ids
    <3>5. ASSUME NEW j \in 1 .. k - m - 1 PROVE m + j \in 1 .. k - 1 /\ ids[m + j] = i2[j]
      BY <1>2, <3>1 DEF ids
    <3> QED
      BY <3>2, <3>3, <3>4, <3>5
  <2> QED
    BY <2>1, <2>2
<1> QED
  BY <1>2, <1>3 DEF Tied, ids, links, L

\* Behind a first entity come those tied to that one.
LEMMA TiedAfter ==
  ASSUME NEW E, NEW e, NEW i1, NEW l1, Tied(E, e, i1, l1), i1 # <<>>,
         NEW ids \in Seq(E), NEW relation \in Relations
  PROVE  Tied(E, e, i1 \o ids, l1 \o To(i1[1], ids, relation))
<1> DEFINE h == i1[1]
           l2 == To(h, ids, relation)
           m == Len(i1)
           n == Len(ids)
           p == Len(l1)
           L == E \X E \X Relations
<1>0. i1 \in Seq(E) /\ l1 \in Seq(L) /\ h \in E
  BY FirstOfSeq DEF Tied
<1>1. l2 \in Seq(L) /\ Len(l2) = n /\ \A i \in 1 .. n : l2[i] = <<h, ids[i], relation>>
  <2>1. l2 \in Seq(L) /\ Len(l2) = n
    BY <1>0, TiedTo
  <2>2. DOMAIN ids = 1 .. n
    BY LenProperties
  <2> QED
    BY <2>1, <2>2 DEF To
<1> HIDE DEF l2, h, L
<1>2. /\ m \in Nat \ {0} /\ n \in Nat /\ p \in Nat
      /\ i1 \o ids \in Seq(E) /\ l1 \o l2 \in Seq(L)
      /\ Len(i1 \o ids) = m + n /\ Len(l1 \o l2) = p + n
      /\ \A i \in 1 .. m : (i1 \o ids)[i] = i1[i]
      /\ \A i \in 1 .. n : (i1 \o ids)[m + i] = ids[i]
      /\ \A i \in 1 .. p : (l1 \o l2)[i] = l1[i]
      /\ \A i \in 1 .. n : (l1 \o l2)[p + i] = l2[i]
  <2>1. i1 \o ids \in Seq(E) /\ l1 \o l2 \in Seq(L)
    BY <1>0, <1>1, ConcatProperties
  <2>2. m \in Nat \ {0} /\ n \in Nat /\ p \in Nat
    BY <1>0, EmptySeq, LenProperties
  <2>3. /\ Len(i1 \o ids) = m + n
        /\ \A i \in 1 .. m : (i1 \o ids)[i] = i1[i]
        /\ \A i \in 1 .. n : (i1 \o ids)[m + i] = ids[i]
    BY <1>0, <2>1, <2>2, ConcatProperties
  <2>4. /\ Len(l1 \o l2) = p + n
        /\ \A i \in 1 .. p : (l1 \o l2)[i] = l1[i]
        /\ \A i \in 1 .. n : (l1 \o l2)[p + i] = l2[i]
    <3> HIDE DEF p, n
    <3>1. /\ Len(l1 \o l2) = p + n
          /\ \A i \in 1 .. p + n : (l1 \o l2)[i] = IF i <= p THEN l1[i] ELSE l2[i - p]
      BY <1>0, <1>1, ConcatProperties DEF p
    <3>2. \A i \in 1 .. n : p + i \in 1 .. p + n /\ ~(p + i <= p) /\ (p + i) - p = i
      BY <2>2
    <3>3. \A i \in 1 .. p : i \in 1 .. p + n /\ i <= p
      BY <2>2
    <3> QED
      BY <3>1, <3>2, <3>3
  <2> QED
    BY <2>1, <2>2, <2>3, <2>4
<1> DEFINE all == i1 \o ids
           links == l1 \o l2
<1> HIDE DEF all, links
<1>3. ASSUME NEW k \in 1 .. Len(all)
      PROVE  \E r \in 1 .. Len(links) :
               /\ links[r][2] = all[k]
               /\ links[r][1] = e \/ \E j \in 1 .. k - 1 : all[j] = links[r][1]
  <2>1. CASE k \in 1 .. m
    BY <1>2, <2>1 DEF Tied, all, links
  <2>2. CASE k \notin 1 .. m
    <3>1. k - m \in 1 .. n /\ k = m + (k - m) /\ 1 \in 1 .. k - 1 /\ 1 \in 1 .. m
      BY <1>2, <2>2 DEF all
    <3>2. p + (k - m) \in 1 .. Len(links) /\ links[p + (k - m)] = l2[k - m]
      BY <1>2, <3>1 DEF links
    <3>3. all[k] = ids[k - m] /\ all[1] = h
      BY <1>2, <3>1 DEF all, h
    <3>4. l2[k - m][1] = h /\ l2[k - m][2] = ids[k - m]
      BY <1>1, <3>1
    <3> QED
      BY <3>1, <3>2, <3>3, <3>4
  <2> QED
    BY <2>1, <2>2
<1> QED
  BY <1>2, <1>3 DEF Tied, all, links, L, l2, h

-----------------------------------------------------------------------------
(* Groups of entities.                                                     *)

\* A sequence of sequences, joined up to the n-th.
JoinedUpTo(f, s, n) == f = [i \in 1 .. n |-> IF i = 1 THEN s[1] ELSE f[i - 1] \o s[i]]

\* The joined sequences exist as a function.
LEMMA JoinsExist ==
  ASSUME NEW s, NEW n \in Nat
  PROVE  \E f : JoinedUpTo(f, s, n)
<1> DEFINE S == {k \in Nat : \E f : JoinedUpTo(f, s, k)}
<1>1. 0 \in S
  <2> DEFINE g == [i \in 1 .. 0 |-> s[1]]
  <2>1. g = [i \in 1 .. 0 |-> IF i = 1 THEN s[1] ELSE g[i - 1] \o s[i]]
    OBVIOUS
  <2> QED
    BY <2>1 DEF JoinedUpTo
<1>2. ASSUME NEW k \in Nat, k \in S PROVE k + 1 \in S
  <2>1. PICK g : JoinedUpTo(g, s, k)
    BY <1>2
  <2> DEFINE h == [i \in 1 .. k + 1 |-> IF i = 1 THEN s[1] ELSE IF i <= k THEN g[i] ELSE g[k] \o s[i]]
  <2>2. \A i \in 1 .. k : g[i] = IF i = 1 THEN s[1] ELSE g[i - 1] \o s[i]
    BY <2>1 DEF JoinedUpTo
  <2>3. \A i \in 1 .. k : h[i] = g[i]
    BY <2>2
  <2>4. \A i \in 1 .. k + 1 : h[i] = IF i = 1 THEN s[1] ELSE h[i - 1] \o s[i]
    <3> SUFFICES ASSUME NEW i \in 1 .. k + 1
                 PROVE  h[i] = IF i = 1 THEN s[1] ELSE h[i - 1] \o s[i]
      OBVIOUS
    <3>1. CASE i = 1
      BY <3>1
    <3>2. CASE i # 1 /\ i = k + 1
      <4>0. i - 1 = k /\ k \in 1 .. k /\ ~(i <= k)
        BY <3>2
      <4>1. h[i] = g[k] \o s[i]
        BY <3>2, <4>0
      <4>2. h[i - 1] = g[k]
        BY <2>3, <4>0
      <4> QED
        BY <3>2, <4>1, <4>2
    <3>3. CASE i # 1 /\ i # k + 1
      <4>1. i \in 1 .. k /\ i - 1 \in 1 .. k
        BY <3>3
      <4> HIDE DEF h
      <4> QED
        BY <2>2, <2>3, <3>3, <4>1
    <3> QED
      BY <3>1, <3>2, <3>3
  <2>5. h = [i \in 1 .. k + 1 |-> h[i]]
    OBVIOUS
  <2> HIDE DEF h
  <2>6. JoinedUpTo(h, s, k + 1)
    BY <2>4, <2>5 DEF JoinedUpTo
  <2> QED
    BY <2>6
<1> HIDE DEF S
<1>3. Nat \subseteq S
  BY <1>1, <1>2, SetInduction
<1> QED
  BY <1>3 DEF S

\* And FlattenSeq gives the last of them.
LEMMA FlattenJoins ==
  ASSUME NEW s, Len(s) \in Nat, Len(s) # 0
  PROVE  \E f : JoinedUpTo(f, s, Len(s)) /\ FlattenSeq(s) = f[Len(s)]
<1> DEFINE f == CHOOSE g : JoinedUpTo(g, s, Len(s))
<1>1. JoinedUpTo(f, s, Len(s))
  BY JoinsExist
<1>2. FlattenSeq(s) = f[Len(s)]
  BY DEF FlattenSeq, JoinedUpTo
<1> QED
  BY <1>1, <1>2

\* Groups that are tied, each by itself, are tied as one.
LEMMA TiedFlat ==
  ASSUME NEW E, NEW e, NEW n \in Nat, NEW ids, NEW links, Len(ids) = n, Len(links) = n,
         ids = <<>> <=> n = 0, links = <<>> <=> n = 0,
         \A g \in 1 .. n : Tied(E, e, ids[g], links[g])
  PROVE  Tied(E, e, FlattenSeq(ids), FlattenSeq(links))
<1>1. CASE n = 0
  BY <1>1, TiedNothing DEF FlattenSeq
<1>2. CASE n # 0
  <2>1. PICK f : JoinedUpTo(f, ids, n) /\ FlattenSeq(ids) = f[n]
    BY <1>2, FlattenJoins
  <2>2. PICK h : JoinedUpTo(h, links, n) /\ FlattenSeq(links) = h[n]
    BY <1>2, FlattenJoins
  <2>3. /\ \A i \in 1 .. n : f[i] = IF i = 1 THEN ids[1] ELSE f[i - 1] \o ids[i]
        /\ \A i \in 1 .. n : h[i] = IF i = 1 THEN links[1] ELSE h[i - 1] \o links[i]
    BY <2>1, <2>2 DEF JoinedUpTo
  <2> DEFINE S == {k \in Nat : k \in 1 .. n => Tied(E, e, f[k], h[k])}
  <2>4. 0 \in S
    OBVIOUS
  <2>5. ASSUME NEW k \in Nat, k \in S PROVE k + 1 \in S
    BY <1>2, <2>3, <2>5, TiedJoin
  <2> HIDE DEF S
  <2>6. n \in S
    BY <2>4, <2>5, SetInduction
  <2>7. n \in 1 .. n
    BY <1>2
  <2> QED
    BY <2>1, <2>2, <2>6, <2>7 DEF S
<1> QED
  BY <1>1, <1>2

-----------------------------------------------------------------------------
(* What a transform returns.                                               *)

Outcome(e, out) ==
  /\ out.http \in Nat /\ out.dns \in Nat
  /\ Tied(Entities, e, out.entities, out.relationships)

\* A transform that returns tied entities has an outcome of the right form.
LEMMA OutcomeOf ==
  ASSUME NEW e, NEW http \in Nat, NEW dns \in Nat, NEW ids, NEW links, Tied(Entities, e, ids, links)
  PROVE  Outcome(e, Output(http, dns, ids, links))
  BY DEF Outcome, Output

\* So has one that found nothing or did not begin.
LEMMA NothingFound ==
  ASSUME NEW e, NEW http \in Nat, NEW dns \in Nat
  PROVE  Outcome(e, Output(http, dns, <<>>, <<>>)) /\ Outcome(e, NoOutput)
  BY OutcomeOf, TiedNothing DEF NoOutput

\* So has one that made a single request, whatever was answered.
LEMMA FetchOutcome ==
  ASSUME NEW e, NEW answers, NEW ids, NEW links, Tied(Entities, e, ids, links)
  PROVE  Outcome(e, OneFetch(answers, ids, links))
<1>1. /\ Outcome(e, NoOutput) /\ Outcome(e, Output(1, 0, <<>>, <<>>))
      /\ Outcome(e, Output(1, 0, ids, links))
  BY NothingFound, OutcomeOf
<1> QED
  BY <1>1, Zenon DEF OneFetch

\* A sequence that is joined up of lists is a list.
LEMMA FlattenIds ==
  ASSUME NEW E, NEW e \in E, NEW ids \in Seq(Seq(E))
  PROVE  FlattenSeq(ids) \in Seq(E)
<1> DEFINE n == Len(ids)
           links == [g \in 1 .. n |-> To(e, ids[g], "refers")]
<1>1. n \in Nat /\ \A g \in 1 .. n : ids[g] \in Seq(E)
  BY ElementOfSeq, LenProperties
<1>2. ASSUME NEW g \in 1 .. n PROVE Tied(E, e, ids[g], links[g])
  BY <1>1, TiedTo DEF Relations
<1>3. Len(links) = n /\ (ids = <<>> <=> n = 0) /\ (links = <<>> <=> n = 0)
  BY <1>1, <1>2, EmptySeq, LenProperties, SeqDef DEF Tied
<1> HIDE DEF links, n
<1>4. Tied(E, e, FlattenSeq(ids), FlattenSeq(links))
  BY <1>1, <1>2, <1>3, TiedFlat DEF n
<1> QED
  BY <1>4 DEF Tied

\* Groups of an entity and what is linked to it.
LEMMA GroupedTied ==
  ASSUME NEW E, NEW e \in E, NEW groups \in Seq(Seq(E) \ {<<>>}), NEW relation \in Relations
  PROVE  Tied(E, e, FlattenSeq(groups), Grouped(e, groups, relation))
<1> DEFINE n == Len(groups)
           links == [g \in DOMAIN groups |->
                       <<<<e, Head(groups[g]), "references">>>> \o To(Head(groups[g]), Tail(groups[g]), relation)]
<1>1. n \in Nat /\ DOMAIN groups = 1 .. n /\ \A g \in 1 .. n : groups[g] \in Seq(E) /\ groups[g] # <<>>
  BY ElementOfSeq, LenProperties
<1>2. ASSUME NEW g \in 1 .. n PROVE Tied(E, e, groups[g], links[g])
  <2> DEFINE s == groups[g]
             first == <<<<e, Head(s), "references">>>>
  <2>1. s \in Seq(E) /\ s # <<>>
    BY <1>1
  <2>2. Head(s) \in E /\ Tail(s) \in Seq(E) /\ s = <<Head(s)>> \o Tail(s)
    BY <2>1, HeadTailProperties
  <2>3. Tied(E, e, <<Head(s)>>, first)
    <3> DEFINE h == Head(s)
    <3>1. <<h>> \in Seq(E) /\ DOMAIN <<h>> = {1} /\ h \in E
      BY <2>2
    <3> HIDE DEF h
    <3>2. To(e, <<h>>, "references") = <<<<e, h, "references">>>>
      BY <3>1 DEF To
    <3>3. Tied(E, e, <<h>>, <<<<e, h, "references">>>>)
      BY <3>1, <3>2, TiedTo DEF Relations
    <3> QED
      BY <3>3 DEF h
  <2>4. <<Head(s)>> # <<>> /\ <<Head(s)>>[1] = Head(s)
    OBVIOUS
  <2> HIDE DEF s, first
  <2>5. Tied(E, e, <<Head(s)>> \o Tail(s), first \o To(Head(s), Tail(s), relation))
    BY <2>2, <2>3, <2>4, TiedAfter
  <2>6. links[g] = first \o To(Head(s), Tail(s), relation)
    BY <1>1 DEF s, first
  <2> QED
    BY <2>2, <2>5, <2>6 DEF s
<1>3. Len(links) = n /\ (groups = <<>> <=> n = 0) /\ (links = <<>> <=> n = 0)
  BY <1>1, <1>2, EmptySeq, LenProperties, SeqDef DEF Tied
<1>4. Grouped(e, groups, relation) = FlattenSeq(links)
  BY DEF Grouped
<1> HIDE DEF links, n
<1>5. Tied(E, e, FlattenSeq(groups), FlattenSeq(links))
  BY <1>1, <1>2, <1>3, TiedFlat DEF n
<1> QED
  BY <1>4, <1>5
-----------------------------------------------------------------------------
(* What each transform finds is tied to the entity it expands.             *)

\* What the assumption says of the world that was chosen.
LEMMA WorldFacts ==
  ASSUME iworld \in InvWorlds
  PROVE  /\ Len(iworld.kind) \in Nat /\ Entities = 1 .. Len(iworld.kind) /\ iworld.seed \in Entities
         /\ \A e \in Entities : KnownOf(iworld, e)
         /\ Lists(iworld) = Seq(Entities)
  BY InvAssumption, LenProperties DEF Entities, Lists

\* The registry, row by row.
LEMMA RegistryRows ==
  /\ Transforms = 1 .. 13
  /\ Registry[1] = Entry("account_to_url", "account", 1, "http")
  /\ Registry[2] = Entry("asn_to_rdap", "asn", 1, "http")
  /\ Registry[3] = Entry("domain_to_ct", "domain", 1, "http")
  /\ Registry[4] = Entry("domain_to_dns", "domain", 1, "dns")
  /\ Registry[5] = Entry("domain_to_rdap", "domain", 1, "http")
  /\ Registry[6] = Entry("email_to_mail_infra", "email", 1, "dns")
  /\ Registry[7] = Entry("ip_to_ptr", "ip", 1, "dns")
  /\ Registry[8] = Entry("ip_to_rdap", "ip", 1, "http")
  /\ Registry[9] = Entry("repo_to_metadata", "repository", 1, "http")
  /\ Registry[10] = Entry("url_to_archive", "endpoint", 1, "http")
  /\ Registry[11] = Entry("url_to_domain", "endpoint", 0, "none")
  /\ Registry[12] = Entry("url_to_repository", "endpoint", 0, "none")
  /\ Registry[13] = Entry("username_to_account", "username", 1, "provider")
  BY DEF Transforms, Registry

\* Answers can be counted.
LEMMA AnswersAre ==
  ASSUME NEW n \in Nat, NEW answers \in [1 .. n -> {"ok", "nothing", "error"}]
  PROVE  /\ answers \in Seq({"ok", "nothing", "error"}) /\ Len(answers) = n /\ DOMAIN answers = 1 .. n
         /\ Charged(answers) \in Nat /\ Misses(answers) \in Nat
<1>1. answers \in Seq({"ok", "nothing", "error"}) /\ Len(answers) = n /\ DOMAIN answers = 1 .. n
  BY SeqDef, LenProperties
<1>2. IsFiniteSet(1 .. n)
  BY FS_Interval
<1>3. /\ IsFiniteSet({q \in DOMAIN answers : answers[q] # "error"})
      /\ IsFiniteSet({q \in DOMAIN answers : answers[q] # "ok"})
  BY <1>1, <1>2, FS_Subset
<1> QED
  BY <1>1, <1>3, FS_CardinalityType DEF Charged, Misses

\* The records of the queries that were answered are entities.
LEMMA ResolvedIds ==
  ASSUME NEW E, NEW e \in E, NEW records \in Seq(Seq(E)), NEW n \in Nat, n <= Len(records),
         NEW answers \in [1 .. n -> {"ok", "nothing", "error"}]
  PROVE  Resolved(records, answers) \in Seq(E)
<1> DEFINE ids == [q \in DOMAIN answers |-> IF answers[q] = "ok" THEN records[q] ELSE <<>>]
<1>1. DOMAIN answers = 1 .. n /\ Len(records) \in Nat
  BY LenProperties
<1>2. \A q \in 1 .. n : records[q] \in Seq(E) /\ <<>> \in Seq(E)
  BY <1>1, ElementOfSeq
<1>3. ids \in [1 .. n -> Seq(E)]
  BY <1>1, <1>2
<1> HIDE DEF ids
<1>4. ids \in Seq(Seq(E))
  BY <1>3, SeqDef
<1>5. FlattenSeq(ids) \in Seq(E)
  BY <1>4, FlattenIds
<1> QED
  BY <1>5 DEF Resolved, ids

\* What the outside knows of an entity, by its kind.
LEMMA KnownAbout ==
  ASSUME iworld \in InvWorlds, NEW e \in Entities
  PROVE  /\ Kind(e) = "username" => About(e).accounts \in Seq(Entities) /\ About(e).providers \in Nat
         /\ Kind(e) = "account" => About(e).links \in Seq(Entities) \ {<<>>} /\ About(e).emails \in Seq(Entities)
         /\ Kind(e) \in {"domain", "email"} => About(e).records \in Seq(Seq(Entities))
         /\ Kind(e) = "domain" => About(e).certs \in Seq(Seq(Entities) \ {<<>>})
         /\ Kind(e) = "email" => About(e).domain \in Seq(Entities)
         /\ Kind(e) = "endpoint" => /\ About(e).host \in Seq(Entities)
                                    /\ About(e).forge \in Seq(Entities) /\ Len(About(e).forge) \in {0, 2}
                                    /\ About(e).snapshots \in Seq(Seq(Entities) \ {<<>>})
         /\ Kind(e) = "ip" => /\ About(e).names \in Seq(Entities) /\ About(e).range \in Seq(Entities)
                              /\ About(e).open \in Seq(Entities)
         /\ Kind(e) \in {"domain", "ip", "asn"} => About(e).registered \in Seq(Entities)
         /\ Kind(e) = "repository" => About(e).metadata \in Seq(Entities)
  BY WorldFacts DEF Groups, Kind, About, KnownOf

\* Whatever the answers, a transform returns entities of the world that are
\* tied to the entity it was run for.
LEMMA ExecuteOutcome ==
  ASSUME iworld \in InvWorlds, NEW e \in Entities, NEW t \in ForEntity(e),
         NEW n \in 0 .. Queries(t, e), NEW answers \in [1 .. n -> {"ok", "nothing", "error"}]
  PROVE  Outcome(e, Execute(t, e, answers))
<1> DEFINE E == Entities
<1>1. t \in 1 .. 13 /\ Registry[t].accepts = Kind(e)
  BY RegistryRows DEF ForEntity
<1>2. Outcome(e, NoOutput) /\ Outcome(e, Output(1, 0, <<>>, <<>>))
  BY NothingFound
<1>3. \A ids \in Seq(E), r \in Relations : Tied(E, e, ids, To(e, ids, r))
  BY TiedTo
<1>4. CASE t = 1
  <2>1. Kind(e) = "account" /\ Execute(t, e, answers) = AccountToUrl(e, answers)
    BY <1>1, <1>4, RegistryRows DEF Execute, Entry
  <2> DEFINE links == About(e).links
             emails == About(e).emails
  <2>2. links \in Seq(E) /\ links # <<>> /\ emails \in Seq(E)
    BY <2>1, KnownAbout
  <2> HIDE DEF links, emails
  <2>3. Tied(E, e, links \o emails, To(e, links, "links_to") \o To(e, emails, "references"))
    BY <1>3, <2>2, TiedJoin DEF Relations
  <2>4. Tied(E, e, <<Head(links)>>, <<<<e, Head(links), "links_to">>>>)
    <3> DEFINE h == Head(links)
    <3>1. h \in E
      BY <2>2, HeadTailProperties
    <3> HIDE DEF h
    <3>2. <<h>> \in Seq(E)
      BY <3>1
    <3>3. Tied(E, e, <<h>>, To(e, <<h>>, "links_to"))
      BY <1>3, <3>2 DEF Relations
    <3>4. To(e, <<h>>, "links_to") = <<<<e, h, "links_to">>>>
      BY DEF To
    <3> QED
      BY <3>3, <3>4 DEF h
  <2>5. /\ Outcome(e, Output(1, 0, <<Head(links)>>, <<<<e, Head(links), "links_to">>>>))
        /\ Outcome(e, Output(1, 0, links \o emails, To(e, links, "links_to") \o To(e, emails, "references")))
    BY <2>3, <2>4, OutcomeOf
  <2>6. Outcome(e, AccountToUrl(e, answers))
    BY <1>2, <2>5, Zenon DEF AccountToUrl, links, emails
  <2> QED
    BY <2>1, <2>6
<1>5. CASE t = 2
  BY <1>1, <1>3, <1>5, ConcatEmptySeq, FetchOutcome, KnownAbout, RegistryRows DEF Execute, Entry, RdapCommon,
     Relations, AsnToRdap
<1>6. CASE t = 3
  <2>1. Kind(e) = "domain" /\ Execute(t, e, answers) = DomainToCt(e, answers)
    BY <1>1, <1>6, RegistryRows DEF Execute, Entry
  <2>2. About(e).certs \in Seq(Seq(E) \ {<<>>})
    BY <2>1, KnownAbout
  <2>3. Tied(E, e, FlattenSeq(About(e).certs), Grouped(e, About(e).certs, "has_san"))
    BY <2>2, GroupedTied DEF Relations
  <2> QED
    BY <2>1, <2>3, FetchOutcome DEF DomainToCt
<1>7. CASE t = 4
  <2>1. /\ Kind(e) = "domain" /\ Execute(t, e, answers) = DomainToDns(e, answers)
        /\ Queries(t, e) = Len(About(e).records)
    BY <1>1, <1>7, RegistryRows DEF Execute, Entry, Queries
  <2>2. About(e).records \in Seq(Seq(E))
    BY <2>1, KnownAbout
  <2>3. n \in Nat /\ n <= Len(About(e).records) /\ Len(About(e).records) \in Nat
    BY <2>1, <2>2, LenProperties
  <2> DEFINE ids == Resolved(About(e).records, answers)
             links == [i \in DOMAIN ids |-> <<e, ids[i], IF Kind(ids[i]) = "ip" THEN "resolves_to" ELSE "references">>]
  <2>4. ids \in Seq(E)
    BY <2>2, <2>3, ResolvedIds
  <2>5. Charged(answers) \in Nat
    BY <2>3, AnswersAre
  <2>6. DomainToDns(e, answers) = Output(0, Charged(answers), ids, links)
    BY DEF DomainToDns
  <2> HIDE DEF ids
  <2>7. \A i \in DOMAIN ids : \E r \in Relations : links[i] = <<e, ids[i], r>>
    BY DEF Relations
  <2>8. DOMAIN links = DOMAIN ids /\ links = [i \in DOMAIN ids |-> links[i]]
    OBVIOUS
  <2> HIDE DEF links
  <2>9. Tied(E, e, ids, links)
    BY <2>4, <2>7, <2>8, TiedEach
  <2> QED
    BY <2>1, <2>5, <2>6, <2>9, OutcomeOf
<1>8. CASE t = 5
  BY <1>1, <1>3, <1>8, ConcatEmptySeq, FetchOutcome, KnownAbout, RegistryRows DEF Execute, Entry, RdapCommon,
     Relations, DomainToRdap
<1>9. CASE t = 6
  <2>1. /\ Kind(e) = "email" /\ Execute(t, e, answers) = EmailToMailInfra(e, answers)
        /\ Queries(t, e) = IF About(e).domain = <<>> THEN 0 ELSE Len(About(e).records)
    BY <1>1, <1>9, RegistryRows DEF Execute, Entry, Queries
  <2> DEFINE domain == About(e).domain
             ids == Resolved(About(e).records, answers)
  <2>2. About(e).records \in Seq(Seq(E)) /\ domain \in Seq(E)
    BY <2>1, KnownAbout
  <2>3. CASE domain = <<>>
    BY <1>2, <2>1, <2>3 DEF EmailToMailInfra
  <2>4. CASE domain # <<>>
    <3>1. n \in Nat /\ n <= Len(About(e).records) /\ Len(About(e).records) \in Nat
      BY <2>1, <2>2, <2>4, LenProperties
    <3>2. ids \in Seq(E)
      BY <2>2, <3>1, ResolvedIds
    <3>3. Charged(answers) \in Nat
      BY <3>1, AnswersAre
    <3>4. EmailToMailInfra(e, answers) =
            Output(0, Charged(answers), domain \o ids,
                   To(e, domain, "references") \o To(domain[1], ids, "references"))
      BY <2>4 DEF EmailToMailInfra
    <3> HIDE DEF ids, domain
    <3>5. Tied(E, e, domain \o ids, To(e, domain, "references") \o To(domain[1], ids, "references"))
      BY <1>3, <2>2, <2>4, <3>2, TiedAfter DEF Relations
    <3> QED
      BY <2>1, <3>3, <3>4, <3>5, OutcomeOf
  <2> QED
    BY <2>3, <2>4
<1>10. CASE t = 7
  <2>1. Kind(e) = "ip" /\ Execute(t, e, answers) = IpToPtr(e, answers)
    BY <1>1, <1>10, RegistryRows DEF Execute, Entry
  <2>2. About(e).names \in Seq(E)
    BY <2>1, KnownAbout
  <2>3. Charged(answers) \in Nat
    BY AnswersAre
  <2>4. Outcome(e, Output(0, 1, About(e).names, To(e, About(e).names, "reverse_resolves_to")))
    BY <1>3, <2>2, OutcomeOf DEF Relations
  <2>5. Outcome(e, Output(0, Charged(answers), <<>>, <<>>))
    BY <2>3, NothingFound
  <2> QED
    BY <2>1, <2>4, <2>5 DEF IpToPtr
<1>11. CASE t = 8
  <2>1. Kind(e) = "ip" /\ Execute(t, e, answers) = IpToRdap(e, answers)
    BY <1>1, <1>11, RegistryRows DEF Execute, Entry
  <2>2. About(e).range \o About(e).registered \in Seq(E)
    BY <2>1, KnownAbout, ConcatProperties
  <2>3. Outcome(e, RdapCommon(e, About(e).range, answers))
    BY <1>3, <2>2, FetchOutcome DEF RdapCommon, Relations
  <2> QED
    BY <2>1, <2>3 DEF IpToRdap
<1>12. CASE t = 9
  BY <1>1, <1>3, <1>12, FetchOutcome, KnownAbout, RegistryRows DEF Execute, Entry, Relations, RepoToMetadata
<1>13. CASE t = 10
  <2>1. Kind(e) = "endpoint" /\ Execute(t, e, answers) = UrlToArchive(e, answers)
    BY <1>1, <1>13, RegistryRows DEF Execute, Entry
  <2>2. About(e).snapshots \in Seq(Seq(E) \ {<<>>})
    BY <2>1, KnownAbout
  <2>3. Tied(E, e, FlattenSeq(About(e).snapshots), Grouped(e, About(e).snapshots, "references"))
    BY <2>2, GroupedTied DEF Relations
  <2> QED
    BY <2>1, <2>3, FetchOutcome DEF UrlToArchive
<1>14. CASE t = 11
  <2>1. Kind(e) = "endpoint" /\ Execute(t, e, answers) = UrlToDomain(e)
    BY <1>1, <1>14, RegistryRows DEF Execute, Entry
  <2>2. About(e).host \in Seq(E)
    BY <2>1, KnownAbout
  <2>3. Tied(E, e, About(e).host, To(e, About(e).host, "references"))
    BY <1>3, <2>2 DEF Relations
  <2> QED
    BY <2>1, <2>3, OutcomeOf DEF UrlToDomain
<1>15. CASE t = 12
  <2>1. Kind(e) = "endpoint" /\ Execute(t, e, answers) = UrlToRepository(e)
    BY <1>1, <1>15, RegistryRows DEF Execute, Entry
  <2> DEFINE forge == About(e).forge
  <2>2. forge \in Seq(E) /\ Len(forge) \in {0, 2}
    BY <2>1, KnownAbout
  <2>3. CASE forge = <<>>
    BY <1>2, <2>1, <2>3 DEF UrlToRepository
  <2>4. CASE forge # <<>>
    <3>1. UrlToRepository(e) = Output(0, 0, forge, <<<<e, forge[1], "links_to">>, <<forge[1], forge[2], "references">>>>)
      BY <2>4 DEF UrlToRepository
    <3> HIDE DEF forge
    <3>2. Len(forge) = 2 /\ forge[1] \in E /\ forge[2] \in E
      BY <2>2, <2>4, EmptySeq, ElementOfSeq
    <3> DEFINE links == <<<<e, forge[1], "links_to">>, <<forge[1], forge[2], "references">>>>
    <3>3. links \in Seq(E \X E \X Relations) /\ Len(links) = 2
      BY <3>2 DEF Relations
    <3>4. links[1][1] = e /\ links[1][2] = forge[1] /\ links[2][1] = forge[1] /\ links[2][2] = forge[2]
      OBVIOUS
    <3> HIDE DEF links
    <3>5. \A k \in 1 .. 2 : k = 1 \/ k = 2
      OBVIOUS
    <3>6. Tied(E, e, forge, links)
      BY <2>2, <3>2, <3>3, <3>4, <3>5 DEF Tied
    <3> QED
      BY <2>1, <3>1, <3>6, OutcomeOf DEF links
  <2> QED
    BY <2>3, <2>4
<1>16. CASE t = 13
  <2>1. Kind(e) = "username" /\ Execute(t, e, answers) = UsernameToAccount(e, answers)
    BY <1>1, <1>16, RegistryRows DEF Execute, Entry
  <2>2. About(e).accounts \in Seq(E) /\ About(e).providers \in Nat
    BY <2>1, KnownAbout
  <2>3. Tied(E, e, About(e).accounts, To(e, About(e).accounts, "has_account"))
    BY <1>3, <2>2 DEF Relations
  <2>4. /\ Outcome(e, Output(About(e).providers, 0, About(e).accounts, To(e, About(e).accounts, "has_account")))
        /\ Outcome(e, Output(About(e).providers, 0, <<>>, <<>>))
    BY <2>2, <2>3, OutcomeOf, NothingFound
  <2> QED
    BY <1>2, <2>1, <2>4 DEF UsernameToAccount
<1> QED
  BY <1>1, <1>4, <1>5, <1>6, <1>7, <1>8, <1>9, <1>10, <1>11, <1>12, <1>13, <1>14, <1>15, <1>16

-----------------------------------------------------------------------------
(* The first of what is there.                                             *)

\* take_first: of a queue that is not empty it takes one of its entries.
LEMMA NextIsPending ==
  ASSUME ipending \subseteq Nat \X Nat \X Nat, ipending # {}
  PROVE  NextPending \in ipending
<1> SUFFICES \E x \in ipending : \A y \in ipending \ {x} : Before(x, y)
  BY DEF NextPending
<1> DEFINE Depths == {x[1] : x \in ipending}
<1>1. PICK d \in Depths : \A k \in Depths : d <= k
  <2>1. Depths \subseteq Nat /\ Depths # {}
    OBVIOUS
  <2> HIDE DEF Depths
  <2> QED
    BY <2>1, Smallest
<1> DEFINE Ids == {x[2] : x \in {x \in ipending : x[1] = d}}
<1>2. PICK e \in Ids : \A k \in Ids : e <= k
  <2>1. Ids \subseteq Nat /\ Ids # {}
    OBVIOUS
  <2> HIDE DEF Ids
  <2> QED
    BY <2>1, Smallest
<1> DEFINE Rows == {x[3] : x \in {x \in ipending : x[1] = d /\ x[2] = e}}
<1>3. PICK t \in Rows : \A k \in Rows : t <= k
  <2>1. Rows \subseteq Nat /\ Rows # {}
    OBVIOUS
  <2> HIDE DEF Rows
  <2> QED
    BY <2>1, Smallest
<1>4. PICK x \in ipending : x[1] = d /\ x[2] = e /\ x[3] = t
  BY <1>3
<1>5. ASSUME NEW y \in ipending \ {x} PROVE Before(x, y)
  <2>1. /\ d \in Nat /\ e \in Nat /\ t \in Nat
        /\ x \in Nat \X Nat \X Nat /\ y \in Nat \X Nat \X Nat
    BY <1>4
  <2>2. d <= y[1]
    BY <1>1
  <2>3. y[1] = d => e <= y[2]
    BY <1>2
  <2>4. y[1] = d /\ y[2] = e => t <= y[3]
    BY <1>3
  <2>5. y[1] = d /\ y[2] = e => y[3] # t
    BY <1>4, <2>1
  <2>6. y[1] \in Nat /\ y[2] \in Nat /\ y[3] \in Nat
    BY <2>1
  <2> HIDE DEF Depths, Ids, Rows
  <2> QED
    BY <1>4, <2>1, <2>2, <2>3, <2>4, <2>5, <2>6 DEF Before
<1> QED
  BY <1>5

\* The address the bridge goes to next is one of those left.
LEMMA NextIsBridged ==
  ASSUME ibridge \subseteq Nat, ibridge # {}
  PROVE  NextAddress \in ibridge
  BY Smallest DEF NextAddress

\* What is taken of a sequence: new, no more than there is room for, all of it
\* if there is room for all, and nothing before what came earlier.
LEMMA TakenFacts ==
  ASSUME NEW T, NEW s \in Seq(T), NEW old, NEW room \in Int
  PROVE  /\ Taken(s, old, room) \subseteq T \ old
         /\ Taken(s, old, room) \subseteq {s[i] : i \in 1 .. Len(s)}
         /\ IsFiniteSet(Taken(s, old, room))
         /\ room >= 0 => Cardinality(Taken(s, old, room)) <= room
         /\ Cardinality(New(s, old)) \in Nat
         /\ Cardinality(New(s, old)) <= room =>
              \A i \in 1 .. Len(s) : s[i] \in old \/ s[i] \in Taken(s, old, room)
         /\ \A k \in New(s, old) : s[k] \in Taken(s, old, room) =>
              \A j \in 1 .. k : s[j] \in old \/ s[j] \in Taken(s, old, room)
<1> DEFINE n == Len(s)
           N == New(s, old)
           upto(i) == {j \in N : j <= i}
           I == {i \in N : Cardinality(upto(i)) <= room}
           taken == Taken(s, old, room)
<1>1. n \in Nat /\ DOMAIN s = 1 .. n /\ \A i \in 1 .. n : s[i] \in T
  BY ElementOfSeq, LenProperties
<1>2. N = {i \in 1 .. n : s[i] \notin old /\ \A j \in 1 .. i - 1 : s[j] # s[i]}
  BY <1>1 DEF New
<1>3. taken = {s[i] : i \in I}
  BY DEF Taken
<1> HIDE DEF n, N, taken
<1>4. N \subseteq 1 .. n /\ IsFiniteSet(N) /\ Cardinality(N) \in Nat
  <2>1. N \subseteq 1 .. n /\ IsFiniteSet(1 .. n)
    BY <1>1, <1>2, FS_Interval
  <2>2. IsFiniteSet(N)
    BY <2>1, FS_Subset
  <2> QED
    BY <2>1, <2>2, FS_CardinalityType
<1>5. ASSUME NEW i, NEW k, upto(i) \subseteq upto(k)
      PROVE  Cardinality(upto(i)) <= Cardinality(upto(k)) /\ Cardinality(upto(i)) \in Nat /\ Cardinality(upto(k)) \in Nat
  BY <1>4, <1>5, FS_CardinalityType, FS_Subset
<1>6. IsFiniteSet(I) /\ I \subseteq N
  BY <1>4, FS_Subset
<1>7. ASSUME room >= 0 PROVE Cardinality(I) <= room /\ Cardinality(I) \in Nat
  <2>1. I = Firsts(N, room)
    BY DEF Firsts
  <2>2. room \in Nat /\ n \in Nat /\ N \subseteq 1 .. n
    BY <1>1, <1>4, <1>7
  <2> HIDE DEF I
  <2>3. Cardinality(Firsts(N, room)) \in Nat /\ Cardinality(Firsts(N, room)) <= room
    BY <2>2, FirstsFew
  <2> QED
    BY <2>1, <2>3
<1>8. IsFiniteSet(taken) /\ Cardinality(taken) <= Cardinality(I) /\ Cardinality(taken) \in Nat
  <2> DEFINE f == [i \in I |-> s[i]]
  <2>1. DOMAIN f = I /\ f = [x \in I |-> f[x]] /\ taken = {f[x] : x \in I}
    BY <1>3
  <2> HIDE DEF f, I
  <2>2. IsFiniteSet({f[x] : x \in I}) /\ Cardinality({f[x] : x \in I}) <= Cardinality(I)
    BY <1>6, <2>1, FiniteImage
  <2> QED
    BY <2>1, <2>2, FS_CardinalityType
<1>9. \A i \in 1 .. n : s[i] \notin old => \E k \in N : k <= i /\ s[k] = s[i]
  <2> SUFFICES ASSUME NEW i \in 1 .. n, s[i] \notin old
               PROVE  \E k \in N : k <= i /\ s[k] = s[i]
    OBVIOUS
  <2> DEFINE P == {k \in 1 .. n : s[k] = s[i]}
  <2>1. PICK k \in P : \A m \in P : k <= m
    <3>1. P \subseteq Nat /\ P # {}
      OBVIOUS
    <3> HIDE DEF P
    <3> QED
      BY <3>1, Smallest
  <2>2. k <= i
    BY <2>1
  <2>3. \A j \in 1 .. k - 1 : s[j] # s[k]
    BY <1>1, <2>1
  <2> QED
    BY <1>2, <2>2, <2>3
<1>10. ASSUME NEW k \in N, s[k] \in taken, NEW j \in 1 .. k PROVE s[j] \in old \/ s[j] \in taken
  <2>1. PICK i \in I : s[i] = s[k]
    BY <1>3, <1>10
  <2>2. i = k
    BY <1>1, <1>2, <1>6, <2>1
  <2> SUFFICES ASSUME s[j] \notin old PROVE s[j] \in taken
    OBVIOUS
  <2>3. j \in 1 .. n /\ k \in Nat /\ j <= k
    BY <1>1, <1>4
  <2>4. PICK m \in N : m <= j /\ s[m] = s[j]
    BY <1>9, <2>3
  <2>5. m \in Nat /\ m <= k
    BY <1>4, <2>3, <2>4
  <2>6. upto(m) \subseteq upto(k)
    <3> SUFFICES ASSUME NEW q \in N, q <= m PROVE q <= k
      OBVIOUS
    <3> HIDE DEF upto, I
    <3>0. q \in 1 .. n
      BY <1>4
    <3>1. q \in Nat
      BY <1>1, <3>0
    <3> QED
      BY <2>3, <2>5, <3>1
  <2>7. Cardinality(upto(m)) <= room
    <3>1. Cardinality(upto(k)) <= room
      BY <2>1, <2>2
    <3>2. /\ Cardinality(upto(m)) <= Cardinality(upto(k))
          /\ Cardinality(upto(m)) \in Nat /\ Cardinality(upto(k)) \in Nat
      BY <1>5, <2>6
    <3> HIDE DEF upto
    <3> QED
      BY <3>1, <3>2
  <2> QED
    BY <1>3, <2>4, <2>7
<1>11. ASSUME Cardinality(N) <= room, NEW i \in 1 .. n, s[i] \notin old PROVE s[i] \in taken
  <2>1. PICK k \in N : k <= i /\ s[k] = s[i]
    BY <1>9, <1>11
  <2>2. Cardinality(upto(k)) <= Cardinality(N) /\ Cardinality(upto(k)) \in Nat
    BY <1>4, FS_CardinalityType, FS_Subset
  <2>3. Cardinality(upto(k)) <= room
    BY <1>4, <1>11, <2>2
  <2> QED
    BY <1>3, <2>1, <2>3
<1>12. taken \subseteq T \ old /\ taken \subseteq {s[i] : i \in 1 .. n}
  BY <1>1, <1>2, <1>3, <1>6
<1>13. room >= 0 => Cardinality(taken) <= room
  BY <1>7, <1>8
<1> HIDE DEF I, upto
<1> QED
  BY <1>4, <1>8, <1>10, <1>11, <1>12, <1>13 DEF n, N, taken

-----------------------------------------------------------------------------
(* The graph under construction.                                           *)

\* What the graph is made of.
Reasons == {"entity_budget", "relationship_budget", "http_budget", "dns_budget", "cancellation", "deadline",
            "network_pivot_budget"}
Accounts == [requested : Nat, completed : Nat, skipped : Nat, cancelled : Nat, unscanned : Nat,
             http : Nat, dns : Nat, scans : Nat]
Depths == 0 .. iworld.depth
Links == Entities \X Entities \X Relations
GraphType ==
  [depth : [Entities -> Depths \cup {Absent}], edges : SUBSET Links,
   pending : SUBSET (Depths \X Entities \X Transforms), acct : Accounts, truncated : SUBSET Reasons]

\* What a graph is always: edges between its entities, transforms of its
\* entities in the queue, accounts that add up, budgets that are kept.
GraphOK(g) ==
  /\ g \in GraphType /\ IsFiniteSet(g.edges) /\ IsFiniteSet(g.pending)
  /\ iworld.seed \in FoundIn(g.depth)
  /\ \A edge \in g.edges : edge[1] \in FoundIn(g.depth) /\ edge[2] \in FoundIn(g.depth)
  /\ \A x \in g.pending : x[2] \in FoundIn(g.depth) /\ x[1] = g.depth[x[2]] /\ x[3] \in ForEntity(x[2])
  /\ g.acct.requested = g.acct.completed + g.acct.skipped + g.acct.cancelled + g.acct.unscanned
                        + Cardinality(g.pending)
  /\ Cardinality(FoundIn(g.depth)) <= iworld.entities /\ Cardinality(g.edges) <= iworld.relationships
  /\ g.acct.http <= iworld.http /\ g.acct.dns <= iworld.dns /\ g.acct.scans <= iworld.pivots

\* What has been found was looked at or will be, unless something was cut off.
WholeIn(g, expanded) ==
  g.truncated = {} =>
    \A e \in FoundIn(g.depth) : \A t \in ForEntity(e) : <<t, e>> \in expanded \/ <<g.depth[e], e, t>> \in g.pending

\* What has been found is explained, unless a relationship was refused.
RootedIn(g) ==
  "relationship_budget" \notin g.truncated =>
    \A S \in SUBSET FoundIn(g.depth) :
      (iworld.seed \in S /\ \A edge \in g.edges : edge[1] \in S => edge[2] \in S) => S = FoundIn(g.depth)

\* The budgets are numbers, and entities and transforms finitely many.
LEMMA WorldLimits ==
  ASSUME iworld \in InvWorlds
  PROVE  /\ iworld.depth \in Nat /\ iworld.depth < Absent /\ Absent \in Nat /\ Absent \notin Depths
         /\ iworld.entities \in Nat \ {0} /\ iworld.relationships \in Nat
         /\ iworld.http \in Nat /\ iworld.dns \in Nat /\ iworld.pivots \in Nat
         /\ iworld.sources \in Seq(Lookup(iworld)) /\ iworld.network \in BOOLEAN
         /\ IsFiniteSet(Entities) /\ IsFiniteSet(Transforms) /\ Entities \subseteq Nat /\ Transforms \subseteq Nat
         /\ Depths \subseteq Nat
<1>1. /\ iworld.depth \in 0 .. Absent - 1 /\ iworld.entities \in Nat \ {0}
      /\ \A budget \in {iworld.relationships, iworld.http, iworld.dns, iworld.pivots} : budget \in Nat
      /\ iworld.sources \in Seq(Lookup(iworld)) /\ iworld.network \in BOOLEAN
  BY InvAssumption
<1>2. iworld.depth \in Nat /\ iworld.depth < Absent /\ Absent \in Nat /\ Absent \notin Depths /\ Depths \subseteq Nat
  <2>1. Absent \in Nat /\ Absent - 1 \in Nat /\ 99 - 1 = 98
    BY DEF Absent
  <2> HIDE DEF Absent
  <2>2. iworld.depth \in Nat /\ iworld.depth <= Absent - 1
    BY <1>1, <2>1
  <2>3. iworld.depth < Absent
    BY <2>1, <2>2
  <2>4. Absent \notin 0 .. iworld.depth /\ 0 .. iworld.depth \subseteq Nat
    BY <2>1, <2>2, <2>3
  <2> QED
    BY <2>1, <2>2, <2>3, <2>4 DEF Depths
<1>3. /\ iworld.relationships \in Nat /\ iworld.http \in Nat /\ iworld.dns \in Nat /\ iworld.pivots \in Nat
  BY <1>1
<1>4. /\ IsFiniteSet(Entities) /\ Entities \subseteq Nat
  BY WorldFacts, FS_Interval
<1>5. IsFiniteSet(Transforms) /\ Transforms \subseteq Nat
  <2>1. IsFiniteSet(1 .. 13)
    <3>1. \A n \in Nat : IsFiniteSet(1 .. n)
      BY FS_Interval
    <3>2. 13 \in Nat
      OBVIOUS
    <3> QED
      BY <3>1, <3>2, Zenon
  <2>2. 1 .. 13 \subseteq Nat
    OBVIOUS
  <2>3. Transforms = 1 .. 13
    BY RegistryRows
  <2> QED
    BY <2>1, <2>2, <2>3
<1> QED
  BY <1>1, <1>2, <1>3, <1>4, <1>5

\* Charging contacts changes the two budgets and what was cut, nothing else.
LEMMA ChargeFields ==
  ASSUME iworld \in InvWorlds, NEW g \in GraphType, NEW http \in Nat, NEW dns \in Nat
  PROVE  LET c == Charge(g, http, dns)
         IN  /\ c \in GraphType
             /\ c.depth = g.depth /\ c.edges = g.edges /\ c.pending = g.pending
             /\ \A f \in {"requested", "completed", "skipped", "cancelled", "unscanned", "scans"} : c.acct[f] = g.acct[f]
             /\ c.acct.http <= iworld.http /\ c.acct.dns <= iworld.dns
             /\ g.truncated \subseteq c.truncated
             /\ "relationship_budget" \in c.truncated => "relationship_budget" \in g.truncated
<1> DEFINE c == Charge(g, http, dns)
           over == (IF g.acct.http + http > iworld.http THEN {"http_budget"} ELSE {})
                   \cup (IF g.acct.dns + dns > iworld.dns THEN {"dns_budget"} ELSE {})
           h == IF g.acct.http + http > iworld.http THEN iworld.http ELSE g.acct.http + http
           d == IF g.acct.dns + dns > iworld.dns THEN iworld.dns ELSE g.acct.dns + dns
<1>1. g.acct \in Accounts /\ g.truncated \subseteq Reasons
  BY DEF GraphType
<1>2. h \in Nat /\ d \in Nat /\ h <= iworld.http /\ d <= iworld.dns
  <2>1. g.acct.http \in Nat /\ g.acct.dns \in Nat
    BY <1>1 DEF Accounts
  <2>2. iworld.http \in Nat /\ iworld.dns \in Nat
    BY WorldLimits
  <2> QED
    BY <2>1, <2>2
<1>3. c = [g EXCEPT !.acct = [g.acct EXCEPT !.http = h, !.dns = d], !.truncated = g.truncated \cup over]
  BY DEF Charge, GraphType, Accounts
<1>4. over \subseteq Reasons /\ "relationship_budget" \notin over
  BY DEF Reasons
<1> HIDE DEF c, over, h, d
<1>5. c.acct = [g.acct EXCEPT !.http = h, !.dns = d] /\ c.truncated = g.truncated \cup over
  BY <1>3 DEF GraphType
<1>6. c.acct \in Accounts
  BY <1>1, <1>2, <1>5 DEF Accounts
<1>7. c \in GraphType /\ c.depth = g.depth /\ c.edges = g.edges /\ c.pending = g.pending
  BY <1>1, <1>3, <1>4, <1>5, <1>6 DEF GraphType
<1>8. c.acct.http = h /\ c.acct.dns = d
  BY <1>1, <1>5 DEF Accounts
<1>9. \A f \in {"requested", "completed", "skipped", "cancelled", "unscanned", "scans"} : c.acct[f] = g.acct[f]
  BY <1>1, <1>5 DEF Accounts
<1> QED
  BY <1>2, <1>4, <1>5, <1>7, <1>8, <1>9 DEF c

\* And stays within them.
LEMMA ChargeKeeps ==
  ASSUME iworld \in InvWorlds, NEW g, GraphOK(g), NEW http \in Nat, NEW dns \in Nat, NEW expanded
  PROVE  LET c == Charge(g, http, dns)
         IN  /\ GraphOK(c) /\ c.depth = g.depth /\ c.edges = g.edges
             /\ WholeIn(g, expanded) => WholeIn(c, expanded)
             /\ RootedIn(g) => RootedIn(c)
             /\ "relationship_budget" \notin c.truncated => "relationship_budget" \notin g.truncated
<1> DEFINE c == Charge(g, http, dns)
<1>0. g \in GraphType
  BY DEF GraphOK
<1>1. /\ c \in GraphType
      /\ c.depth = g.depth /\ c.edges = g.edges /\ c.pending = g.pending
      /\ \A f \in {"requested", "completed", "skipped", "cancelled", "unscanned", "scans"} : c.acct[f] = g.acct[f]
      /\ c.acct.http <= iworld.http /\ c.acct.dns <= iworld.dns
      /\ g.truncated \subseteq c.truncated
      /\ "relationship_budget" \in c.truncated => "relationship_budget" \in g.truncated
  BY <1>0, ChargeFields
<1> HIDE DEF c
<1>2. GraphOK(c)
  BY <1>1 DEF GraphOK
<1>3. WholeIn(g, expanded) => WholeIn(c, expanded)
  BY <1>1 DEF WholeIn
<1>4. g.truncated \subseteq c.truncated
  BY <1>1
<1>5. RootedIn(g) => RootedIn(c)
  BY <1>1, <1>4 DEF RootedIn
<1> QED
  BY <1>1, <1>2, <1>3, <1>4, <1>5 DEF c
\* What AdmitEntities takes of the entities offered, and what it queues.
\* The room for entities, those that get in, and what is said if some do not.
Room(g) == iworld.entities - Cardinality(FoundIn(g.depth))
Newcomers(g, ids) == Taken(ids, FoundIn(g.depth), Room(g))
Crowded(g, ids) == TooMany(ids, FoundIn(g.depth), Room(g), "entity_budget")
Follow(g, ids, depth, expanded) ==
  {x \in {<<depth, e, t>> : e \in Newcomers(g, ids), t \in Transforms} :
     x[3] \in ForEntity(x[2]) /\ <<x[3], x[2]>> \notin expanded}

\* Those of a list that came to be found are its first ones.
InOrder(ids, old, new) ==
  /\ \A k \in 1 .. Len(ids) :
       (ids[k] \in new \ old /\ \A j \in 1 .. k - 1 : ids[j] # ids[k]) => \A j \in 1 .. k : ids[j] \in new
  /\ \A e \in new \ old : \E k \in 1 .. Len(ids) : ids[k] = e

\* Admitting entities keeps the graph sound: what is new gets its transforms
\* queued, and those left out are left out in order, and said to be.
LEMMA EntitiesKeep ==
  ASSUME iworld \in InvWorlds, NEW g, GraphOK(g), NEW ids \in Seq(Entities), NEW depth \in Nat, NEW expanded
  PROVE  LET h == AdmitEntities(g, ids, depth, expanded)
         IN  /\ GraphOK(h) /\ h.edges = g.edges
             /\ FoundIn(g.depth) \subseteq FoundIn(h.depth)
             /\ g.truncated \subseteq h.truncated
             /\ "relationship_budget" \in h.truncated => "relationship_budget" \in g.truncated
             /\ WholeIn(g, expanded) => WholeIn(h, expanded)
             /\ InOrder(ids, FoundIn(g.depth), FoundIn(h.depth))
<1> DEFINE h == AdmitEntities(g, ids, depth, expanded)
           old == FoundIn(g.depth)
           new == FoundIn(h.depth)
           room == Room(g)
           admitted == Newcomers(g, ids)
           queued == Follow(g, ids, depth, expanded)
           many == Crowded(g, ids)
<1>1. CASE depth > iworld.depth
  BY <1>1 DEF AdmitEntities, InOrder, h
<1>2. CASE ~(depth > iworld.depth)
  <2>0. g \in GraphType /\ depth \in Depths /\ depth <= iworld.depth /\ depth # Absent
    BY <1>2, WorldLimits DEF GraphOK, Depths
  <2> DEFINE n == g.acct.requested + Cardinality(queued \ g.pending)
  <2>1. /\ \A e \in Entities : h.depth[e] = IF e \in admitted THEN depth ELSE g.depth[e]
        /\ h.depth = [e \in Entities |-> h.depth[e]]
        /\ h.edges = g.edges /\ h.pending = g.pending \cup queued
        /\ h.truncated = g.truncated \cup many
        /\ h = [depth |-> h.depth, edges |-> h.edges, pending |-> h.pending, acct |-> h.acct, truncated |-> h.truncated]
        /\ h.acct = [g.acct EXCEPT !.requested = n]
    <3>1. h = [g EXCEPT !.depth = [e \in Entities |-> IF e \in admitted THEN depth ELSE @[e]],
                        !.pending = @ \cup queued,
                        !.acct.requested = @ + Cardinality(queued \ g.pending),
                        !.truncated = @ \cup many]
      BY <1>2 DEF AdmitEntities, Newcomers, Follow, Crowded, Room
    <3> HIDE DEF h, admitted, queued, many
    <3>2. /\ h.depth = [e \in Entities |-> IF e \in admitted THEN depth ELSE g.depth[e]]
          /\ h.edges = g.edges /\ h.pending = g.pending \cup queued
          /\ h.truncated = g.truncated \cup many
      BY <2>0, <3>1 DEF GraphType
    <3>3. h.acct = [g.acct EXCEPT !.requested = n]
      BY <2>0, <3>1 DEF GraphType, Accounts
    <3>4. h = [depth |-> h.depth, edges |-> h.edges, pending |-> h.pending, acct |-> h.acct, truncated |-> h.truncated]
      BY <2>0, <3>1 DEF GraphType
    <3> QED
      BY <3>2, <3>3, <3>4
  <2>2. /\ h.acct.requested = n
        /\ h.acct.completed = g.acct.completed /\ h.acct.skipped = g.acct.skipped
        /\ h.acct.cancelled = g.acct.cancelled /\ h.acct.unscanned = g.acct.unscanned
        /\ h.acct.http = g.acct.http /\ h.acct.dns = g.acct.dns /\ h.acct.scans = g.acct.scans
        /\ n \in Nat => h.acct \in Accounts
    BY <2>0, <2>1 DEF GraphType, Accounts
  <2>3. old \subseteq Entities /\ IsFiniteSet(old) /\ Cardinality(old) \in Nat
    BY <2>0, FS_CardinalityType, FS_Subset, WorldLimits DEF FoundIn, GraphType
  <2>4. room \in Int /\ room >= 0
    BY <2>3, WorldLimits DEF GraphOK, Room, old
  <2>5. /\ admitted \subseteq Entities \ old /\ admitted \subseteq {ids[i] : i \in 1 .. Len(ids)}
        /\ IsFiniteSet(admitted) /\ Cardinality(admitted) <= room
        /\ \A k \in New(ids, old) : ids[k] \in admitted =>
              \A j \in 1 .. k : ids[j] \in old \/ ids[j] \in admitted
    BY <2>4, TakenFacts DEF Newcomers, room, old
  <2>6. many \subseteq Reasons /\ "relationship_budget" \notin many
    BY DEF Crowded, TooMany, Reasons
  <2>7. IsFiniteSet(queued) /\ queued \subseteq Depths \X Entities \X Transforms
    <3> DEFINE P == admitted \X Transforms
               f == [p \in P |-> <<depth, p[1], p[2]>>]
    <3>1. IsFiniteSet(P)
      BY <2>5, FS_Product, WorldLimits
    <3>2. DOMAIN f = P /\ f = [p \in P |-> f[p]]
      OBVIOUS
    <3>3. queued \subseteq {f[p] : p \in P}
      <4> HIDE DEF admitted
      <4> SUFFICES ASSUME NEW e \in admitted, NEW t \in Transforms
                   PROVE  <<depth, e, t>> \in {f[p] : p \in P}
        BY DEF Follow, admitted
      <4>1. <<e, t>> \in P /\ f[<<e, t>>] = <<depth, e, t>>
        OBVIOUS
      <4> QED
        BY <4>1
    <3>4. IsFiniteSet({f[p] : p \in P})
      <4> HIDE DEF f, P
      <4> QED
        BY <3>1, <3>2, FiniteImage
    <3>5. queued \subseteq Depths \X Entities \X Transforms
      <4> HIDE DEF admitted
      <4> QED
        BY <2>0, <2>5 DEF Follow, admitted
    <3> HIDE DEF queued, f, P
    <3> QED
      BY <3>3, <3>4, <3>5, FS_Subset
  <2>8. \A x \in queued : x[1] = depth /\ x[2] \in admitted /\ x[3] \in ForEntity(x[2])
    <3> HIDE DEF admitted
    <3> QED
      BY DEF Follow, admitted
  <2>9. \A e \in admitted, t \in Transforms :
          t \in ForEntity(e) => <<t, e>> \in expanded \/ <<depth, e, t>> \in queued
    BY DEF Follow, admitted
  <2> HIDE DEF h, room, admitted, queued, many
  <2>10. h.depth \in [Entities -> Depths \cup {Absent}] /\ new = old \cup admitted
    BY <2>0, <2>1, <2>5 DEF GraphType, FoundIn
  <2>11. \A e \in old : h.depth[e] = g.depth[e]
    BY <2>1, <2>3, <2>5
  <2>12. \A e \in admitted : h.depth[e] = depth
    BY <2>1, <2>5
  <2> HIDE DEF old, new
  <2>13. Cardinality(new) <= iworld.entities
    <3>1. Cardinality(old \cup admitted) = Cardinality(old) + Cardinality(admitted)
          /\ Cardinality(old) \in Nat /\ Cardinality(admitted) \in Nat
      BY <2>3, <2>5, DisjointCount
    <3>2. iworld.entities \in Nat /\ room = iworld.entities - Cardinality(old)
      BY WorldLimits DEF room, Room, old
    <3> QED
      BY <2>5, <2>10, <3>1, <3>2
  <2>14. IsFiniteSet(h.pending) /\ IsFiniteSet(queued \ g.pending)
         /\ Cardinality(h.pending) = Cardinality(g.pending) + Cardinality(queued \ g.pending)
         /\ Cardinality(g.pending) \in Nat /\ Cardinality(queued \ g.pending) \in Nat
    <3>1. IsFiniteSet(g.pending) /\ IsFiniteSet(queued \ g.pending)
      BY <2>7, FS_Subset DEF GraphOK
    <3>2. g.pending \cap (queued \ g.pending) = {} /\ g.pending \cup (queued \ g.pending) = h.pending
      BY <2>1
    <3> QED
      BY <3>1, <3>2, DisjointCount
  <2>15. h \in GraphType /\ h.acct \in Accounts
    <3>1. g.acct \in Accounts /\ g.edges \subseteq Links /\ g.truncated \subseteq Reasons
          /\ g.pending \subseteq Depths \X Entities \X Transforms
      BY <2>0 DEF GraphType
    <3>2. h.acct \in Accounts
      <4>1. g.acct.requested \in Nat
        BY <3>1 DEF Accounts
      <4>2. n \in Nat
        BY <2>14, <4>1
      <4> QED
        BY <2>2, <4>2
    <3>3. h.pending \subseteq Depths \X Entities \X Transforms
      BY <2>1, <2>7, <3>1
    <3>4. h.edges \subseteq Links /\ h.truncated \subseteq Reasons
      BY <2>1, <2>6, <3>1
    <3> QED
      BY <2>1, <2>10, <3>2, <3>3, <3>4 DEF GraphType
  <2>17. h.acct.requested = h.acct.completed + h.acct.skipped + h.acct.cancelled + h.acct.unscanned
                            + Cardinality(h.pending)
    <3>1. g.acct.requested = g.acct.completed + g.acct.skipped + g.acct.cancelled + g.acct.unscanned
                             + Cardinality(g.pending)
      BY DEF GraphOK
    <3>2. /\ g.acct.completed \in Nat /\ g.acct.skipped \in Nat /\ g.acct.cancelled \in Nat
          /\ g.acct.unscanned \in Nat
      BY <2>0 DEF GraphType, Accounts
    <3> QED
      BY <2>14, <2>2, <3>1, <3>2
  <2>18. \A x \in h.pending : x[2] \in new /\ x[1] = h.depth[x[2]] /\ x[3] \in ForEntity(x[2])
    BY <2>1, <2>8, <2>10, <2>11, <2>12 DEF GraphOK, old
  <2>19. GraphOK(h)
    BY <2>1, <2>2, <2>10, <2>13, <2>14, <2>15, <2>17, <2>18 DEF GraphOK, old, new
  <2>20. ASSUME WholeIn(g, expanded) PROVE WholeIn(h, expanded)
    BY <2>1, <2>9, <2>10, <2>11, <2>12, <2>20 DEF WholeIn, new, old, ForEntity
  <2>21. ASSUME NEW k \in 1 .. Len(ids), ids[k] \in new \ old, \A j \in 1 .. k - 1 : ids[j] # ids[k]
         PROVE  \A j \in 1 .. k : ids[j] \in new
    BY <2>5, <2>10, <2>21, LenProperties DEF New
  <2>22. \A e \in new \ old : \E k \in 1 .. Len(ids) : ids[k] = e
    BY <2>5, <2>10
  <2>23. "relationship_budget" \in h.truncated => "relationship_budget" \in g.truncated
    BY <2>1, <2>6
  <2>24. InOrder(ids, old, new)
    BY <2>21, <2>22 DEF InOrder
  <2> QED
    BY <2>1, <2>10, <2>19, <2>20, <2>23, <2>24 DEF h, old, new
<1> QED
  BY <1>1, <1>2

-----------------------------------------------------------------------------
(* Relationships that are admitted.                                        *)

\* The edges that are refused because an end of theirs is.
Dangling(g, links) == {edge \in ToSet(links) : ~({edge[1], edge[2]} \subseteq FoundIn(g.depth))}
Barred(g, links) == g.edges \cup Dangling(g, links)
EdgeRoom(g) == iworld.relationships - Cardinality(g.edges)
Ties(g, links) == Taken(links, Barred(g, links), EdgeRoom(g))

\* Admitting relationships keeps the graph sound: both ends of each are found,
\* and none between found entities is left out without its being said.
LEMMA RelationshipsKeep ==
  ASSUME iworld \in InvWorlds, NEW g, GraphOK(g), NEW links \in Seq(Links), NEW expanded
  PROVE  LET h == AdmitRelationships(g, links)
         IN  /\ GraphOK(h) /\ h.depth = g.depth /\ g.edges \subseteq h.edges
             /\ WholeIn(g, expanded) => WholeIn(h, expanded)
             /\ g.truncated \subseteq h.truncated
             /\ "relationship_budget" \notin h.truncated =>
                  \A r \in 1 .. Len(links) :
                    links[r][1] \in FoundIn(g.depth) /\ links[r][2] \in FoundIn(g.depth) => links[r] \in h.edges
<1> DEFINE h == AdmitRelationships(g, links)
           barred == Barred(g, links)
           room == EdgeRoom(g)
           ties == Ties(g, links)
           many == TooMany(links, barred, room, "relationship_budget")
           found == FoundIn(g.depth)
<1>0. g \in GraphType
  BY DEF GraphOK
<1>1. h = [g EXCEPT !.edges = @ \cup ties, !.truncated = @ \cup many]
  BY DEF AdmitRelationships, Ties, Barred, Dangling, EdgeRoom
<1> HIDE DEF h, barred, room, ties, many, found
<1>2. /\ h.edges = g.edges \cup ties /\ h.truncated = g.truncated \cup many
      /\ h.depth = g.depth /\ h.pending = g.pending /\ h.acct = g.acct
      /\ h = [depth |-> h.depth, edges |-> h.edges, pending |-> h.pending, acct |-> h.acct, truncated |-> h.truncated]
  BY <1>0, <1>1 DEF GraphType
<1>3. /\ IsFiniteSet(g.edges) /\ Cardinality(g.edges) \in Nat /\ Cardinality(g.edges) <= iworld.relationships
      /\ g.edges \subseteq Links
  BY <1>0, FS_CardinalityType DEF GraphOK, GraphType
<1>4. room \in Int /\ room >= 0 /\ room = iworld.relationships - Cardinality(g.edges)
  BY <1>3, WorldLimits DEF room, EdgeRoom
<1>5. /\ ties \subseteq Links \ barred /\ ties \subseteq {links[i] : i \in 1 .. Len(links)}
      /\ IsFiniteSet(ties) /\ Cardinality(ties) <= room
      /\ Cardinality(New(links, barred)) \in Nat
      /\ Cardinality(New(links, barred)) <= room =>
           \A i \in 1 .. Len(links) : links[i] \in barred \/ links[i] \in ties
  BY <1>4, TakenFacts DEF ties, Ties, barred, room
<1>6. \A i \in 1 .. Len(links) : links[i] \in barred <=> links[i] \in g.edges \/ ~({links[i][1], links[i][2]} \subseteq found)
  BY LenProperties DEF ToSet, barred, Barred, Dangling, found
<1>7. \A edge \in ties : edge[1] \in found /\ edge[2] \in found
  BY <1>5, <1>6
<1>8. IsFiniteSet(h.edges) /\ Cardinality(h.edges) <= iworld.relationships
  <2>1. IsFiniteSet(g.edges \cup ties)
    BY <1>3, <1>5, FS_Union
  <2>2. ties \cap g.edges = {}
    BY <1>5 DEF barred, Barred
  <2>3. Cardinality(g.edges \cup ties) = Cardinality(g.edges) + Cardinality(ties) /\ Cardinality(ties) \in Nat
    BY <1>3, <1>5, <2>2, DisjointCount
  <2>4. iworld.relationships \in Nat
    BY WorldLimits
  <2> QED
    BY <1>2, <1>3, <1>4, <1>5, <2>1, <2>3, <2>4
<1>9. many \subseteq Reasons
  BY DEF many, TooMany, Reasons
<1>10. h \in GraphType
  BY <1>0, <1>2, <1>3, <1>5, <1>9 DEF GraphType
<1>11. GraphOK(h)
  BY <1>2, <1>7, <1>8, <1>10 DEF GraphOK, found
<1>12. WholeIn(g, expanded) => WholeIn(h, expanded)
  BY <1>2 DEF WholeIn
<1>13. ASSUME "relationship_budget" \notin h.truncated, NEW r \in 1 .. Len(links),
              links[r][1] \in found, links[r][2] \in found
       PROVE  links[r] \in h.edges
  BY <1>2, <1>4, <1>5, <1>6, <1>13 DEF many, TooMany
<1> QED
  BY <1>2, <1>11, <1>12, <1>13 DEF h, found

-----------------------------------------------------------------------------
(* Everything a transform returns, together.                               *)

\* A transform's contacts are charged, its entities and relationships are
\* admitted: the graph stays sound, nothing found is left out, and all that
\* is found is explained.
LEMMA AdmissionKeeps ==
  ASSUME iworld \in InvWorlds, NEW g, GraphOK(g), NEW e \in FoundIn(g.depth), NEW out, Outcome(e, out),
         NEW depth \in Nat, NEW expanded, NEW h,
         h = AdmitRelationships(AdmitEntities(Charge(g, out.http, out.dns), out.entities, depth, expanded), out.relationships)
  PROVE  /\ GraphOK(h) /\ FoundIn(g.depth) \subseteq FoundIn(h.depth) /\ g.edges \subseteq h.edges
         /\ WholeIn(g, expanded) => WholeIn(h, expanded)
         /\ RootedIn(g) => RootedIn(h)
<1> DEFINE c == Charge(g, out.http, out.dns)
           ids == out.entities
           links == out.relationships
           k == AdmitEntities(c, ids, depth, expanded)
           old == FoundIn(g.depth)
           new == FoundIn(k.depth)
<1>1. out.http \in Nat /\ out.dns \in Nat /\ Tied(Entities, e, ids, links) /\ ids \in Seq(Entities) /\ links \in Seq(Links)
  BY DEF Outcome, Tied, Links
<1>2. /\ GraphOK(c) /\ c.depth = g.depth /\ c.edges = g.edges
      /\ WholeIn(g, expanded) => WholeIn(c, expanded)
      /\ "relationship_budget" \notin c.truncated => "relationship_budget" \notin g.truncated
  BY <1>1, ChargeKeeps
<1> HIDE DEF c, ids, links
<1>3. /\ GraphOK(k) /\ k.edges = c.edges
      /\ FoundIn(c.depth) \subseteq FoundIn(k.depth)
      /\ c.truncated \subseteq k.truncated
      /\ "relationship_budget" \in k.truncated => "relationship_budget" \in c.truncated
      /\ WholeIn(c, expanded) => WholeIn(k, expanded)
      /\ InOrder(ids, FoundIn(c.depth), FoundIn(k.depth))
  BY <1>1, <1>2, EntitiesKeep
<1> HIDE DEF k
<1>4. /\ GraphOK(h) /\ h.depth = k.depth /\ k.edges \subseteq h.edges
      /\ WholeIn(k, expanded) => WholeIn(h, expanded)
      /\ k.truncated \subseteq h.truncated
      /\ "relationship_budget" \notin h.truncated =>
           \A r \in 1 .. Len(links) :
             links[r][1] \in FoundIn(k.depth) /\ links[r][2] \in FoundIn(k.depth) => links[r] \in h.edges
  BY <1>1, <1>3, RelationshipsKeep DEF k, c, ids, links
<1>5. ASSUME RootedIn(g), "relationship_budget" \notin h.truncated, NEW S \in SUBSET new,
             iworld.seed \in S, \A edge \in h.edges : edge[1] \in S => edge[2] \in S
      PROVE  S = new
  <2>1. "relationship_budget" \notin g.truncated
    BY <1>2, <1>3, <1>4, <1>5
  <2>2. old \subseteq S
    <3> DEFINE R == S \cap old
    <3>1. iworld.seed \in R
      BY <1>5 DEF GraphOK
    <3>2. \A edge \in g.edges : edge[1] \in R => edge[2] \in R
      BY <1>2, <1>3, <1>4, <1>5 DEF GraphOK
    <3>3. R = old
      BY <1>5, <2>1, <3>1, <3>2 DEF RootedIn
    <3> QED
      BY <3>3
  <2>3. SUFFICES ASSUME NEW x \in new, x \notin S PROVE FALSE
    OBVIOUS
  <2> DEFINE M == {m \in 1 .. Len(ids) : ids[m] \in new /\ ids[m] \notin S}
  <2>4. PICK m \in M : \A j \in M : m <= j
    <3>1. x \in new \ old
      BY <2>2, <2>3
    <3>2. \E m \in 1 .. Len(ids) : ids[m] = x
      BY <1>2, <1>3, <3>1 DEF InOrder
    <3>3. M # {} /\ M \subseteq Nat
      BY <2>3, <3>2
    <3> HIDE DEF M
    <3> QED
      BY <3>3, Smallest
  <2>5. m \in 1 .. Len(ids) /\ ids[m] \in new /\ ids[m] \notin S /\ Len(ids) \in Nat /\ m \in Nat
    BY <1>1, LenProperties
  <2>6. ASSUME NEW j \in 1 .. m - 1, ids[j] \in new PROVE ids[j] \in S
    BY <2>4, <2>5, <2>6
  <2>7. \A j \in 1 .. m - 1 : ids[j] # ids[m]
    BY <2>5, <2>6
  <2>8. ids[m] \in new \ old
    BY <2>2, <2>5
  <2>9. \A j \in 1 .. m : ids[j] \in new
    BY <1>2, <1>3, <2>5, <2>7, <2>8 DEF InOrder
  <2>10. PICK r \in 1 .. Len(links) : /\ links[r][2] = ids[m]
                                      /\ links[r][1] = e \/ \E j \in 1 .. m - 1 : ids[j] = links[r][1]
    BY <1>1, <2>5 DEF Tied
  <2>11. links[r][1] \in S
    BY <2>2, <2>5, <2>6, <2>9, <2>10
  <2>12. links[r] \in h.edges
    BY <1>4, <1>5, <2>5, <2>10, <2>11
  <2> QED
    BY <1>5, <2>5, <2>10, <2>11, <2>12
<1>6. RootedIn(g) => RootedIn(h)
  BY <1>4, <1>5 DEF RootedIn
<1> QED
  BY <1>2, <1>3, <1>4, <1>6

-----------------------------------------------------------------------------
(* The investigation's invariant.                                          *)

\* What a provider reports: an exposure, its source, and what it affects.
Finds == [id : Entities, source : Entities, affects : Seq(Entities)]
\* A sequence, of whatever.
Row(s) == s \in Seq({s[i] : i \in DOMAIN s})

\* The lookup counts every provider it came to.
ExposureOK ==
  /\ xproviders \in Seq(Lookup(iworld)) /\ xnext \in Nat \ {0}
  /\ xacct \in [completed : Nat, skipped : Nat, cancelled : Nat, unscanned : Nat] /\ LookupsExact
  /\ xfound \in Seq(Finds) /\ Row(xobs)

\* The investigation at each of its phases: what was found is looked at or in
\* the queue until the bridge (which expands nothing), and the bridge has its
\* addresses from the edges that say what a domain resolves to.
InquiryInv ==
  /\ iworld \in InvWorlds /\ iphase \in {"expand", "exposure", "bridge", "done"}
  /\ GraphOK(Graph) /\ RootedIn(Graph)
  /\ iphase \in {"expand", "exposure"} => WholeIn(Graph, iexpanded)
  /\ iphase = "exposure" => ipending = {}
  /\ iexpanded \subseteq Transforms \X Entities
  /\ ibridge \subseteq Candidates(iedges) /\ (ibridge # {} => iworld.network)
  /\ PivotsAuthorized
  /\ ExposureOK

\* A step that leaves the world alone and makes the graph h.
LEMMA GraphBecomes ==
  ASSUME iworld' = iworld, NEW h, GraphOK(h), Becomes(h)
  PROVE  /\ GraphOK(Graph)'
         /\ RootedIn(h) => RootedIn(Graph)'
         /\ WholeIn(h, iexpanded') => WholeIn(Graph, iexpanded)'
  BY DEF GraphOK, GraphType, Becomes, Graph, Entities, Depths, Links, ForEntity, Kind, FoundIn, RootedIn,
     WholeIn

\* A step that leaves the graph alone keeps what holds of it.
LEMMA GraphSame ==
  ASSUME InquiryInv, UNCHANGED <<iworld, ipending, idepth, iedges, iacct, itruncated>>
  PROVE  GraphOK(Graph)' /\ RootedIn(Graph)' /\ (WholeIn(Graph, iexpanded') => WholeIn(Graph, iexpanded)')
  BY GraphBecomes DEF Becomes, Graph, InquiryInv

\* Rows put together are a row.
LEMMA RowJoin ==
  ASSUME NEW s, Row(s), NEW t, Row(t)
  PROVE  Row(s \o t)
<1> DEFINE S == {s[i] : i \in DOMAIN s}
           T == {t[i] : i \in DOMAIN t}
           U == S \cup T
<1>1. s \in Seq(S) /\ t \in Seq(T)
  BY DEF Row
<1> HIDE DEF S, T
<1>2. s \in Seq(U) /\ t \in Seq(U)
  BY <1>1, LenProperties, SeqDef
<1>3. s \o t \in Seq(U)
  BY <1>2
<1> HIDE DEF U
<1>4. \A S1, r : r \in Seq(S1) => r \in Seq({r[i] : i \in DOMAIN r})
  OBVIOUS
<1> DEFINE r == s \o t
<1>5. r \in Seq({r[i] : i \in DOMAIN r})
  <2>1. r \in Seq(U)
    BY <1>3
  <2> HIDE DEF r
  <2> QED
    BY <1>4, <2>1
<1> HIDE DEF r
<1>6. Row(r)
  BY <1>5 DEF Row
<1> QED
  BY <1>6 DEF r

\* A function on 1 .. n is a row of length n.
LEMMA RowOf ==
  ASSUME NEW n \in Nat, NEW f, DOMAIN f = 1 .. n, f = [i \in 1 .. n |-> f[i]]
  PROVE  Row(f) /\ Len(f) = n
  BY DEF Row

\* A row has a length, and its positions are the numbers up to it.
LEMMA RowDomain ==
  ASSUME NEW s, Row(s)
  PROVE  Len(s) \in Nat /\ DOMAIN s = 1 .. Len(s)
  BY DEF Row

\* The counts of a lookup.
Tallies == [completed : Nat, skipped : Nat, cancelled : Nat, unscanned : Nat]

\* One count more makes the sum one more.
LEMMA OneMore ==
  ASSUME NEW a \in Tallies, NEW n \in Nat, a.completed + a.skipped + a.cancelled + a.unscanned = n, NEW b,
         \/ b = [a EXCEPT !.completed = @ + 1] \/ b = [a EXCEPT !.skipped = @ + 1]
         \/ b = [a EXCEPT !.cancelled = @ + 1] \/ b = [a EXCEPT !.unscanned = @ + 1]
  PROVE  b \in Tallies /\ b.completed + b.skipped + b.cancelled + b.unscanned = n + 1
  BY DEF Tallies

\* The lookup's accounts add up whatever it does.
LEMMA LookupKeeps ==
  ASSUME iworld \in InvWorlds, iworld' = iworld, ExposureOK, ExposureStep
  PROVE  ExposureOK'
<1> DEFINE Looked == [completed : Nat, skipped : Nat, cancelled : Nat, unscanned : Nat]
<1>1. Finds' = Finds /\ Lookup(iworld)' = Lookup(iworld)
  BY DEF Finds, Lookup, Lists, Entities
<1>2. xproviders \in Seq(Lookup(iworld)) /\ xnext \in Nat \ {0} /\ xacct \in Looked
      /\ xacct.completed + xacct.skipped + xacct.cancelled + xacct.unscanned = xnext - 1
      /\ xfound \in Seq(Finds) /\ Row(xobs)
  BY DEF ExposureOK, LookupsExact
<1>3. ASSUME xproviders' = xproviders, xnext' = xnext + 1, xfound' \in Seq(Finds), Row(xobs)',
             \/ xacct' = [xacct EXCEPT !.completed = @ + 1] \/ xacct' = [xacct EXCEPT !.skipped = @ + 1]
             \/ xacct' = [xacct EXCEPT !.cancelled = @ + 1] \/ xacct' = [xacct EXCEPT !.unscanned = @ + 1]
      PROVE  ExposureOK'
  <2>1. xacct' \in Looked /\ xacct'.completed + xacct'.skipped + xacct'.cancelled + xacct'.unscanned = xnext' - 1
    <3> DEFINE n == xnext - 1
    <3>1. n \in Nat /\ xnext' - 1 = n + 1
      BY <1>2, <1>3
    <3> HIDE DEF n, Looked
    <3>2. xacct.completed + xacct.skipped + xacct.cancelled + xacct.unscanned = n
      BY <1>2 DEF n
    <3>3. xacct \in Tallies
      BY <1>2 DEF Tallies, Looked
    <3> QED
      BY <1>3, <3>1, <3>2, <3>3, OneMore DEF Looked, Tallies
  <2>2. xnext' \in Nat \ {0}
    BY <1>2, <1>3
  <2>3. xproviders' \in Seq(Lookup(iworld)')
    BY <1>1, <1>2, <1>3
  <2> QED
    BY <1>1, <1>3, <2>1, <2>2, <2>3 DEF ExposureOK, LookupsExact
<1>4. CASE PassOver
  BY <1>2, <1>3, <1>4 DEF PassOver, Row
<1>5. CASE Answered
  <2> DEFINE found == xproviders[xnext].finds
             said == [i \in DOMAIN found |-> <<xnext, "matched">>]
  <2>1. xfound' = xfound \o found /\ xobs' = xobs \o said /\ xnext \in DOMAIN xproviders
    BY <1>5 DEF Answered, Queried
  <2>2. xproviders[xnext] \in Lookup(iworld)
    BY <1>2, <2>1
  <2>3. found \in Seq(Finds)
    BY <2>2 DEF Lookup, Finds, Lists, Entities
  <2>4. Row(said)
    BY <2>3, LenProperties, RowOf
  <2> HIDE DEF found, said
  <2>5. xfound' \in Seq(Finds)
    BY <1>2, <2>1, <2>3
  <2>6. Row(xobs')
    BY <1>2, <2>1, <2>4, RowJoin
  <2>7. Row(xobs)'
    BY <2>6 DEF Row
  <2> QED
    BY <1>3, <1>5, <2>5, <2>7 DEF Answered
<1>6. CASE Failed
  <2>1. xobs' = Append(xobs, <<xnext, "failed">>) /\ xfound' = xfound
    BY <1>6 DEF Failed
  <2> DEFINE S == {xobs[i] : i \in DOMAIN xobs} \cup {<<xnext, "failed">>}
  <2>2. xobs \in Seq(S)
    BY <1>2, RowDomain DEF Row
  <2>3. xobs' \in Seq(S)
    BY <2>1, <2>2
  <2> HIDE DEF S
  <2>4. \A S1, r : r \in Seq(S1) => r \in Seq({r[i] : i \in DOMAIN r})
    OBVIOUS
  <2>5. Row(xobs)'
    BY <2>3, <2>4 DEF Row
  <2> QED
    BY <1>2, <1>3, <1>6, <2>1, <2>5 DEF Failed
<1>7. CASE CutShort
  BY <1>2, <1>3, <1>7 DEF CutShort, Row
<1>8. CASE ReportExposure
  <2> DEFINE clean == {p \in DOMAIN xproviders : Unmatched(p)}
             nth(i) == CHOOSE p \in clean : Cardinality({q \in clean : q <= p}) = i
             said == [i \in 1 .. Cardinality(clean) |-> <<nth(i), "no_match">>]
  <2>1. xobs' = xobs \o said
    BY <1>8 DEF ReportExposure
  <2>2. Cardinality(clean) \in Nat
    <3>1. DOMAIN xproviders = 1 .. Len(xproviders) /\ Len(xproviders) \in Nat
      BY <1>2, LenProperties
    <3>2. IsFiniteSet(DOMAIN xproviders) /\ clean \subseteq DOMAIN xproviders
      BY <3>1, FS_Interval
    <3> HIDE DEF clean
    <3> QED
      BY <3>2, FS_Subset, FS_CardinalityType
  <2>3. Row(said)
    BY <2>2, RowOf
  <2> HIDE DEF said
  <2>4. Row(xobs')
    BY <1>2, <2>1, <2>3, RowJoin
  <2>5. Row(xobs)'
    BY <2>4 DEF Row
  <2>6. xproviders' = xproviders /\ xnext' = xnext /\ xacct' = xacct /\ xfound' = xfound
    BY <1>8 DEF ReportExposure
  <2>7. xproviders' \in Seq(Lookup(iworld)')
    BY <1>1, <1>2, <2>6
  <2> QED
    BY <1>1, <1>2, <2>5, <2>6, <2>7 DEF ExposureOK, LookupsExact
<1> QED
  BY <1>4, <1>5, <1>6, <1>7, <1>8 DEF ExposureStep

\* A step that leaves the lookup alone keeps what holds of it.
LEMMA LookupSame ==
  ASSUME iworld' = iworld, ExposureOK, UNCHANGED <<xproviders, xnext, xacct, xfound, xobs>>
  PROVE  ExposureOK'
  BY DEF Finds, Lookup, Lists, Entities, ExposureOK, Row, LookupsExact

-----------------------------------------------------------------------------
(* The steps of the investigation.                                         *)

\* Work is taken from the queue of g, and counted.
Counts(g, h) ==
  /\ h = [depth |-> g.depth, edges |-> g.edges, pending |-> h.pending, acct |-> h.acct, truncated |-> h.truncated]
  /\ h.pending \subseteq g.pending /\ h.acct \in Accounts /\ h.truncated \in SUBSET Reasons /\ g.truncated \subseteq h.truncated
  /\ h.acct.requested = g.acct.requested /\ h.acct.http = g.acct.http /\ h.acct.dns = g.acct.dns
  /\ h.acct.scans <= iworld.pivots
  /\ h.acct.completed + h.acct.skipped + h.acct.cancelled + h.acct.unscanned =
       g.acct.completed + g.acct.skipped + g.acct.cancelled + g.acct.unscanned + Cardinality(g.pending \ h.pending)
TakenUp(g, h, expanded) == h.truncated = {} => \A x \in g.pending \ h.pending : <<x[3], x[2]>> \in expanded

\* A step that takes work from the queue and counts it keeps the graph sound,
\* and whole if what it takes up is entered.
LEMMA WorkCounted ==
  ASSUME iworld \in InvWorlds, NEW g, GraphOK(g), NEW h, Counts(g, h),
         NEW before, NEW after, before \subseteq after, TakenUp(g, h, after)
  PROVE  /\ GraphOK(h) /\ h.edges = g.edges /\ FoundIn(h.depth) = FoundIn(g.depth)
         /\ RootedIn(g) => RootedIn(h)
         /\ WholeIn(g, before) => WholeIn(h, after)
<1> DEFINE queue == h.pending
           acct == h.acct
           truncated == h.truncated
<1>1. /\ h.depth = g.depth /\ h.edges = g.edges /\ h.pending = queue /\ h.acct = acct /\ h.truncated = truncated
      /\ h = [depth |-> h.depth, edges |-> h.edges, pending |-> queue, acct |-> acct, truncated |-> truncated]
  BY DEF Counts
<1>0. /\ queue \subseteq g.pending /\ acct \in Accounts /\ truncated \in SUBSET Reasons /\ g.truncated \subseteq truncated
      /\ acct.requested = g.acct.requested /\ acct.http = g.acct.http /\ acct.dns = g.acct.dns
      /\ acct.scans <= iworld.pivots
      /\ acct.completed + acct.skipped + acct.cancelled + acct.unscanned =
           g.acct.completed + g.acct.skipped + g.acct.cancelled + g.acct.unscanned + Cardinality(g.pending \ queue)
      /\ truncated = {} => \A x \in g.pending \ queue : <<x[3], x[2]>> \in after
  BY DEF Counts, TakenUp
<1> HIDE DEF queue, acct, truncated
<1>2. g \in GraphType /\ IsFiniteSet(g.pending)
  BY DEF GraphOK
<1>3. h \in GraphType
  BY <1>0, <1>1, <1>2 DEF GraphType
<1>4. h.acct.requested = h.acct.completed + h.acct.skipped + h.acct.cancelled + h.acct.unscanned
                         + Cardinality(h.pending)
  <2>1. Cardinality(g.pending \ queue) = Cardinality(g.pending) - Cardinality(queue)
        /\ Cardinality(g.pending) \in Nat /\ Cardinality(queue) \in Nat
    BY <1>0, <1>2, RestCount
  <2>2. /\ g.acct.completed \in Nat /\ g.acct.skipped \in Nat /\ g.acct.cancelled \in Nat /\ g.acct.unscanned \in Nat
        /\ acct.completed \in Nat /\ acct.skipped \in Nat /\ acct.cancelled \in Nat /\ acct.unscanned \in Nat
    BY <1>0, <1>2 DEF GraphType, Accounts
  <2>3. g.acct.requested = g.acct.completed + g.acct.skipped + g.acct.cancelled + g.acct.unscanned
                           + Cardinality(g.pending)
    BY DEF GraphOK
  <2> QED
    BY <1>0, <1>1, <2>1, <2>2, <2>3
<1>5. GraphOK(h)
  BY <1>0, <1>1, <1>2, <1>3, <1>4, FS_Subset DEF GraphOK
<1>6. RootedIn(g) => RootedIn(h)
  BY <1>0, <1>1 DEF RootedIn
<1>7. ASSUME WholeIn(g, before)
      PROVE  WholeIn(h, after)
  <2> SUFFICES ASSUME h.truncated = {}, NEW e \in FoundIn(h.depth), NEW t \in ForEntity(e)
               PROVE  <<t, e>> \in after \/ <<h.depth[e], e, t>> \in h.pending
    BY DEF WholeIn
  <2>1. truncated = {} /\ g.truncated = {} /\ e \in FoundIn(g.depth)
    BY <1>0, <1>1
  <2>2. <<t, e>> \in before \/ <<g.depth[e], e, t>> \in g.pending
    BY <1>7, <2>1 DEF WholeIn
  <2> DEFINE x == <<g.depth[e], e, t>>
  <2>3. x[2] = e /\ x[3] = t
    OBVIOUS
  <2>4. CASE x \in g.pending \ queue
    BY <1>0, <1>7, <2>1, <2>3, <2>4
  <2> QED
    BY <1>1, <1>7, <2>2, <2>4
<1> QED
  BY <1>1, <1>5, <1>6, <1>7

\* What a transform, the lookup or the bridge brings in keeps the invariant's
\* parts about the graph.
LEMMA JoinedKeeps ==
  ASSUME iworld \in InvWorlds, iworld' = iworld, NEW g, GraphOK(g), NEW e \in FoundIn(g.depth), NEW out, Outcome(e, out),
         NEW depth \in Nat, NEW expanded, Joined(g, out, depth, expanded)
  PROVE  /\ GraphOK(Graph)' /\ g.edges \subseteq iedges'
         /\ RootedIn(g) => RootedIn(Graph)'
         /\ (expanded = iexpanded' /\ WholeIn(g, expanded)) => WholeIn(Graph, iexpanded)'
  BY AdmissionKeeps, GraphBecomes DEF Joined, Becomes

\* Relationships are only added, so what the bridge was allowed it still is.
LEMMA BridgeKeeps ==
  ASSUME InquiryInv, iworld' = iworld, iedges \subseteq iedges', ibridge' \subseteq ibridge,
         icontacted' \ icontacted \subseteq ibridge \cap iworld.scope
  PROVE  /\ (ibridge \subseteq Candidates(iedges))' /\ (ibridge # {} => iworld.network)'
         /\ PivotsAuthorized'
  BY DEF InquiryInv, Candidates, Entities, Kind, PivotsAuthorized

\* The first of the queue is a transform of an entity that was found.
LEMMA NextFacts ==
  ASSUME InquiryInv, ipending # {}
  PROVE  /\ NextPending \in ipending /\ NextPending[2] \in FoundIn(idepth) /\ NextPending[2] \in Entities
         /\ NextPending[3] \in ForEntity(NextPending[2]) /\ NextPending[3] \in Transforms
         /\ idepth[NextPending[2]] \in Depths /\ idepth[NextPending[2]] \in Nat
  BY NextIsPending, WorldLimits DEF InquiryInv, GraphOK, GraphType, Graph, FoundIn

\* An entity is queued once for each of its transforms.
LEMMA OneQueue ==
  ASSUME NEW S, NEW d, NEW e, IsFiniteSet(S)
  PROVE  IsFiniteSet({<<d, e, t>> : t \in S}) /\ Cardinality({<<d, e, t>> : t \in S}) = Cardinality(S)
<1> DEFINE f == [t \in S |-> <<d, e, t>>]
           P == {f[t] : t \in S}
           back == [x \in P |-> x[3]]
<1>1. IsFiniteSet(P) /\ Cardinality(P) <= Cardinality(S)
  BY FiniteImage
<1>2. {back[x] : x \in P} = S
  <2>1. \A t \in S : f[t][3] = t
    OBVIOUS
  <2> HIDE DEF f
  <2> QED
    BY <2>1
<1>3. Cardinality({back[x] : x \in P}) <= Cardinality(P)
  BY <1>1, FiniteImage
<1>4. P = {<<d, e, t>> : t \in S}
  OBVIOUS
<1>5. Cardinality(P) \in Nat /\ Cardinality(S) \in Nat
  BY <1>1, FS_CardinalityType
<1> HIDE DEF P, back, f
<1>6. Cardinality(P) = Cardinality(S)
  BY <1>1, <1>2, <1>3, <1>5
<1> QED
  BY <1>1, <1>4, <1>6

\* An investigation begins in the invariant: the seed alone, with its transforms.
LEMMA InquiryInit ==
  ASSUME InvInit
  PROVE  InquiryInv
<1> DEFINE seed == iworld.seed
           mine == ForEntity(seed)
<1>1. iworld \in InvWorlds
  BY DEF InvInit
<1>2. /\ iphase = "expand" /\ iedges = {} /\ iexpanded = {} /\ itruncated = {} /\ ibridge = {} /\ icontacted = {}
      /\ idepth = [e \in Entities |-> IF e = seed THEN 0 ELSE Absent]
      /\ ipending = {<<0, seed, t>> : t \in mine}
      /\ iacct = [requested |-> Cardinality(mine), completed |-> 0, skipped |-> 0, cancelled |-> 0,
                  unscanned |-> 0, http |-> 0, dns |-> 0, scans |-> 0]
  BY DEF InvInit
<1>3. /\ seed \in Entities /\ 0 \in Depths /\ Absent # 0 /\ mine \subseteq Transforms /\ IsFiniteSet(mine)
  BY <1>1, FS_Subset, WorldFacts, WorldLimits DEF ForEntity, Depths, Absent
<1>4. FoundIn(idepth) = {seed}
  BY <1>2, <1>3 DEF FoundIn
<1>5. Cardinality(FoundIn(idepth)) <= iworld.entities
  <2>1. Cardinality({seed}) = 1
    BY FS_Singleton
  <2>2. iworld.entities \in Nat \ {0}
    BY <1>1, WorldLimits
  <2> QED
    BY <1>4, <2>1, <2>2
<1>6. IsFiniteSet(ipending) /\ Cardinality(ipending) = Cardinality(mine) /\ Cardinality(mine) \in Nat
  <2> HIDE DEF mine, seed
  <2>1. IsFiniteSet({<<0, seed, t>> : t \in mine}) /\ Cardinality({<<0, seed, t>> : t \in mine}) = Cardinality(mine)
    BY <1>3, OneQueue
  <2> QED
    BY <1>2, <1>3, <2>1, FS_CardinalityType
<1>7. IsFiniteSet(iedges) /\ Cardinality(iedges) = 0
  BY <1>2, FS_EmptySet
<1>8. \A x \in ipending : x[2] = seed /\ x[1] = 0 /\ x[3] \in mine /\ x \in Depths \X Entities \X Transforms
  BY <1>2, <1>3
<1>9. GraphOK(Graph)
  <2>1. idepth \in [Entities -> Depths \cup {Absent}] /\ idepth[seed] = 0
    BY <1>2, <1>3
  <2>2. iacct \in Accounts
    BY <1>2, <1>6 DEF Accounts
  <2>3. Graph \in GraphType
    BY <1>2, <1>8, <2>1, <2>2 DEF Graph, GraphType
  <2>4. \A x \in ipending : x[2] \in FoundIn(idepth) /\ x[1] = idepth[x[2]] /\ x[3] \in ForEntity(x[2])
    BY <1>4, <1>8, <2>1
  <2>5. iacct.requested = iacct.completed + iacct.skipped + iacct.cancelled + iacct.unscanned + Cardinality(ipending)
    BY <1>2, <1>6
  <2>6. iacct.http <= iworld.http /\ iacct.dns <= iworld.dns /\ iacct.scans <= iworld.pivots
        /\ Cardinality(iedges) <= iworld.relationships
    BY <1>1, <1>2, <1>7, WorldLimits
  <2> QED
    BY <1>2, <1>4, <1>5, <1>6, <1>7, <2>3, <2>4, <2>5, <2>6 DEF Graph, GraphOK
<1>10. RootedIn(Graph)
  BY <1>4 DEF RootedIn, Graph
<1>11. WholeIn(Graph, iexpanded)
  BY <1>2, <1>3, <1>4 DEF WholeIn, Graph
<1>12. ExposureOK
  BY DEF InvInit, ExposureInit, NoLookups, LookupsExact, ExposureOK, Row
<1>13. PivotsAuthorized /\ ibridge \subseteq Candidates(iedges)
  BY <1>2 DEF PivotsAuthorized
<1> QED
  BY <1>1, <1>2, <1>9, <1>10, <1>11, <1>12, <1>13 DEF InquiryInv

\* A step that leaves the graph, the world and what was taken up alone.
LEMMA InquiryIdle ==
  ASSUME InquiryInv, UNCHANGED <<iworld, ipending, idepth, iedges, iacct, itruncated, iexpanded, icontacted>>,
         ExposureOK', ibridge' \subseteq ibridge,
         iphase' \in {"expand", "exposure", "bridge", "done"},
         iphase' \in {"expand", "exposure"} => iphase \in {"expand", "exposure"},
         iphase' = "exposure" => ipending = {}
  PROVE  InquiryInv'
  BY BridgeKeeps, GraphSame DEF InquiryInv, Entities

\* A step that takes work from the queue, or cuts the work short, and
\* accounts for it.
LEMMA InquiryCounts ==
  ASSUME InquiryInv, UNCHANGED <<xvars, iworld, iphase, idepth, iedges, icontacted>>,
         ipending' \subseteq ipending, iacct' \in Accounts, itruncated' \in SUBSET Reasons, itruncated \subseteq itruncated',
         iacct'.requested = iacct.requested, iacct'.http = iacct.http, iacct'.dns = iacct.dns,
         iacct'.scans <= iworld.pivots,
         iacct'.completed + iacct'.skipped + iacct'.cancelled + iacct'.unscanned =
           iacct.completed + iacct.skipped + iacct.cancelled + iacct.unscanned + Cardinality(ipending \ ipending'),
         iexpanded \subseteq iexpanded', iexpanded' \subseteq Transforms \X Entities,
         itruncated' = {} => \A x \in ipending \ ipending' : <<x[3], x[2]>> \in iexpanded',
         ibridge' \subseteq ibridge
  PROVE  InquiryInv'
<1> DEFINE h == [depth |-> idepth, edges |-> iedges, pending |-> ipending', acct |-> iacct', truncated |-> itruncated']
<1>1. iworld \in InvWorlds /\ GraphOK(Graph) /\ RootedIn(Graph) /\ ExposureOK
      /\ (iphase \in {"expand", "exposure"} => WholeIn(Graph, iexpanded))
  BY DEF InquiryInv
<1>2. /\ Graph.depth = idepth /\ Graph.edges = iedges /\ Graph.pending = ipending /\ Graph.acct = iacct
      /\ Graph.truncated = itruncated
  BY DEF Graph
<1> HIDE DEF h
<1>3. /\ GraphOK(h) /\ (RootedIn(Graph) => RootedIn(h))
      /\ (WholeIn(Graph, iexpanded) => WholeIn(h, iexpanded'))
  BY <1>1, <1>2, WorkCounted DEF h, Counts, TakenUp
<1>4. Becomes(h)
  BY DEF Becomes, h
<1>5. GraphOK(Graph)' /\ (RootedIn(h) => RootedIn(Graph)') /\ (WholeIn(h, iexpanded') => WholeIn(Graph, iexpanded)')
  BY <1>3, <1>4, GraphBecomes
<1>6. (ibridge \subseteq Candidates(iedges))' /\ (ibridge # {} => iworld.network)' /\ PivotsAuthorized'
  BY BridgeKeeps
<1>7. ExposureOK'
  BY <1>1, LookupSame DEF xvars
<1>8. (iexpanded \subseteq Transforms \X Entities)'
  BY DEF Entities
<1>9. (iphase \in {"expand", "exposure"} => WholeIn(Graph, iexpanded))'
  BY <1>1, <1>3, <1>5
<1>10. (iphase = "exposure" => ipending = {})'
  BY DEF InquiryInv
<1>11. (iworld \in InvWorlds /\ iphase \in {"expand", "exposure", "bridge", "done"})'
  BY DEF InquiryInv
<1> QED
  BY <1>1, <1>3, <1>5, <1>6, <1>7, <1>8, <1>9, <1>10, <1>11 DEF InquiryInv

\* What the invariant says of the accounts.
LEMMA AccountsNow ==
  ASSUME InquiryInv
  PROVE  /\ iworld \in InvWorlds /\ GraphOK(Graph) /\ RootedIn(Graph) /\ ExposureOK
         /\ iacct \in Accounts /\ itruncated \subseteq Reasons /\ iexpanded \subseteq Transforms \X Entities
         /\ iacct.completed \in Nat /\ iacct.skipped \in Nat /\ iacct.cancelled \in Nat /\ iacct.unscanned \in Nat
         /\ iacct.scans \in Nat /\ iacct.scans <= iworld.pivots
         /\ IsFiniteSet(ipending) /\ Cardinality(ipending) \in Nat
  BY FS_CardinalityType DEF InquiryInv, GraphOK, GraphType, Graph, Accounts

\* A stop empties the queue and counts what was in it.
LEMMA StopKeeps ==
  ASSUME InquiryInv, InvStop
  PROVE  InquiryInv'
<1> DEFINE left == Cardinality(ipending)
<1>1. left \in Nat /\ ipending' = {} /\ ipending \ ipending' = ipending
  BY AccountsNow DEF InvStop
<1>2. itruncated' \in SUBSET Reasons /\ itruncated \subseteq itruncated' /\ itruncated' # {}
  BY AccountsNow DEF InvStop, Reasons
<1>3. UNCHANGED <<xvars, iworld, iphase, idepth, iedges, icontacted>> /\ iexpanded' = iexpanded /\ ibridge' = ibridge
  BY DEF InvStop
<1>4. \/ iacct' = [iacct EXCEPT !.cancelled = @ + left] \/ iacct' = [iacct EXCEPT !.unscanned = @ + left]
  BY DEF InvStop
<1>5. iacct \in Accounts /\ iacct.completed \in Nat /\ iacct.skipped \in Nat /\ iacct.cancelled \in Nat
      /\ iacct.unscanned \in Nat /\ iacct.scans <= iworld.pivots
  BY AccountsNow
<1> HIDE DEF left
<1>6. /\ iacct' \in Accounts /\ iacct'.requested = iacct.requested /\ iacct'.http = iacct.http /\ iacct'.dns = iacct.dns
      /\ iacct'.scans = iacct.scans
  BY <1>1, <1>4, <1>5 DEF Accounts
<1>7. iacct'.completed + iacct'.skipped + iacct'.cancelled + iacct'.unscanned =
        iacct.completed + iacct.skipped + iacct.cancelled + iacct.unscanned + left
  BY <1>1, <1>4, <1>5 DEF Accounts
<1>8. Cardinality(ipending \ ipending') = left /\ iexpanded' \subseteq Transforms \X Entities
  BY <1>1, <1>3, AccountsNow DEF left
<1> QED
  BY <1>1, <1>2, <1>3, <1>5, <1>6, <1>7, <1>8, InquiryCounts

\* Taking up the next of the queue.
LEMMA OneTaken ==
  ASSUME InquiryInv, ipending # {}, iworld' = iworld, ipending' = ipending \ {NextPending},
         iexpanded' = iexpanded \cup {<<NextPending[3], NextPending[2]>>}
  PROVE  /\ ipending' \subseteq ipending /\ Cardinality(ipending \ ipending') = 1
         /\ iexpanded \subseteq iexpanded' /\ iexpanded' \subseteq Transforms \X Entities
         /\ \A x \in ipending \ ipending' : <<x[3], x[2]>> \in iexpanded'
<1>1. NextPending \in ipending /\ NextPending[2] \in Entities /\ NextPending[3] \in Transforms
  BY NextFacts
<1> HIDE DEF NextPending
<1>2. ipending \ ipending' = {NextPending}
  BY <1>1
<1>3. Cardinality({NextPending}) = 1
  BY FS_Singleton
<1>4. iexpanded \subseteq Transforms \X Entities
  BY AccountsNow
<1> QED
  BY <1>1, <1>2, <1>3, <1>4

\* A transform that is skipped or refused is counted.
LEMMA SkipKeeps ==
  ASSUME InquiryInv, InvSkip \/ InvRefuse
  PROVE  InquiryInv'
  BY AccountsNow, InquiryCounts, OneTaken DEF InvSkip, InvRefuse, Running, Exhausted, Reasons, Accounts

\* A transform's cost is a number.
LEMMA Costs == \A t \in Transforms : Registry[t].cost \in Nat
  BY RegistryRows DEF Entry

\* A transform that is executed brings in what it found.
LEMMA ExpandKeeps ==
  ASSUME InquiryInv, InvExpand
  PROVE  InquiryInv'
<1> DEFINE e == NextPending[2]
           t == NextPending[3]
           queue == ipending \ {NextPending}
           acct == [iacct EXCEPT !.completed = @ + 1]
<1>1. PICK answers \in Answers(t, e), stopped \in BOOLEAN, overdue \in BOOLEAN :
        Joined([Graph EXCEPT !.pending = @ \ {NextPending}, !.acct.completed = @ + 1,
                             !.truncated = @ \cup (IF overdue THEN {"deadline"} ELSE {})],
               Execute(t, e, answers), idepth[e] + Registry[t].cost, iexpanded')
  BY DEF InvExpand
<1>2. /\ ipending # {} /\ iphase = "expand" /\ iexpanded' = iexpanded \cup {<<t, e>>}
      /\ UNCHANGED <<xproviders, xphase, xnext, xacct, xobs, xfound, xchecked, iworld, iphase, ibridge, icontacted>>
  BY DEF InvExpand, Running
<1>3. /\ NextPending \in ipending /\ e \in FoundIn(idepth) /\ e \in Entities /\ t \in ForEntity(e)
      /\ t \in Transforms /\ idepth[e] \in Nat
  BY <1>2, NextFacts
<1>4. /\ iworld \in InvWorlds /\ GraphOK(Graph) /\ RootedIn(Graph) /\ ExposureOK
      /\ iacct \in Accounts /\ itruncated \subseteq Reasons /\ iexpanded \subseteq Transforms \X Entities
      /\ iacct.completed \in Nat /\ iacct.skipped \in Nat /\ iacct.cancelled \in Nat /\ iacct.unscanned \in Nat
      /\ iacct.scans <= iworld.pivots
  BY AccountsNow
<1> DEFINE truncated == itruncated \cup (IF overdue THEN {"deadline"} ELSE {})
           g == [depth |-> idepth, edges |-> iedges, pending |-> queue, acct |-> acct, truncated |-> truncated]
<1>5. [Graph EXCEPT !.pending = @ \ {NextPending}, !.acct.completed = @ + 1,
                    !.truncated = @ \cup (IF overdue THEN {"deadline"} ELSE {})] = g
  <2> DEFINE k == [Graph EXCEPT !.pending = @ \ {NextPending}, !.acct.completed = @ + 1,
                                !.truncated = @ \cup (IF overdue THEN {"deadline"} ELSE {})]
  <2>1. /\ k.depth = idepth /\ k.edges = iedges /\ k.pending = queue
        /\ k.truncated = truncated
    BY DEF Graph
  <2>2. k.acct = acct
    BY DEF Graph
  <2>3. k = [depth |-> k.depth, edges |-> k.edges, pending |-> k.pending, acct |-> k.acct, truncated |-> k.truncated]
    <3>1. DOMAIN Graph = {"depth", "edges", "pending", "acct", "truncated"}
      BY DEF Graph
    <3> DEFINE k1 == [Graph EXCEPT !.pending = @ \ {NextPending}]
               k2 == [k1 EXCEPT !.acct.completed = @ + 1]
    <3>3. DOMAIN k1 = {"depth", "edges", "pending", "acct", "truncated"}
      <4> HIDE DEF Graph
      <4> QED
        BY <3>1
    <3>4. DOMAIN k2 = {"depth", "edges", "pending", "acct", "truncated"}
      BY <3>3
    <3>5. k = [k2 EXCEPT !.truncated = @ \cup (IF overdue THEN {"deadline"} ELSE {})]
      BY DEF Graph
    <3> QED
      <4> HIDE DEF k, k2, k1
      <4> QED
        BY <3>4, <3>5
  <2> HIDE DEF k, queue, acct, truncated
  <2> QED
    BY <2>1, <2>2, <2>3 DEF k
<1>6. /\ Graph.depth = idepth /\ Graph.edges = iedges /\ Graph.pending = ipending /\ Graph.acct = iacct
      /\ Graph.truncated = itruncated
  BY DEF Graph
<1>7. Outcome(e, Execute(t, e, answers))
  BY <1>3, <1>4, ExecuteOutcome DEF Answers
<1>8. idepth[e] + Registry[t].cost \in Nat
  BY <1>3, Costs
<1> HIDE DEF e, t, NextPending
<1>9. /\ acct \in Accounts /\ acct.requested = iacct.requested /\ acct.http = iacct.http /\ acct.dns = iacct.dns
      /\ acct.scans = iacct.scans /\ acct.completed = iacct.completed + 1 /\ acct.skipped = iacct.skipped
      /\ acct.cancelled = iacct.cancelled /\ acct.unscanned = iacct.unscanned
  BY <1>4 DEF Accounts
<1>10. queue \subseteq ipending /\ ipending \ queue = {NextPending} /\ Cardinality(ipending \ queue) = 1
  BY <1>3, FS_Singleton
<1>11. truncated \in SUBSET Reasons /\ itruncated \subseteq truncated
  BY <1>4 DEF Reasons
<1>12. \A x \in ipending \ queue : <<x[3], x[2]>> \in iexpanded'
  BY <1>2, <1>10 DEF e, t
<1> HIDE DEF queue, acct, truncated
<1>13. GraphOK(g) /\ (RootedIn(Graph) => RootedIn(g)) /\ (WholeIn(Graph, iexpanded) => WholeIn(g, iexpanded'))
  <2>1. /\ g.depth = idepth /\ g.edges = iedges /\ g.pending = queue /\ g.acct = acct /\ g.truncated = truncated
        /\ g = [depth |-> g.depth, edges |-> g.edges, pending |-> g.pending, acct |-> g.acct, truncated |-> g.truncated]
    OBVIOUS
  <2>2. acct.completed + acct.skipped + acct.cancelled + acct.unscanned =
          iacct.completed + iacct.skipped + iacct.cancelled + iacct.unscanned + Cardinality(ipending \ queue)
    BY <1>4, <1>9, <1>10
  <2> HIDE DEF g
  <2>3. Counts(Graph, g)
    BY <1>4, <1>6, <1>9, <1>10, <1>11, <2>1, <2>2 DEF Counts
  <2>4. TakenUp(Graph, g, iexpanded') /\ iexpanded \subseteq iexpanded'
    BY <1>2, <1>6, <1>12, <2>1 DEF TakenUp
  <2> QED
    BY <1>4, <2>3, <2>4, WorkCounted
<1>14. e \in FoundIn(g.depth) /\ g.edges = iedges
  BY <1>3
<1> HIDE DEF g
<1>15. /\ GraphOK(Graph)' /\ g.edges \subseteq iedges'
       /\ RootedIn(g) => RootedIn(Graph)'
       /\ WholeIn(g, iexpanded') => WholeIn(Graph, iexpanded)'
  <2> DEFINE out == Execute(t, e, answers)
             depth == idepth[e] + Registry[t].cost
             expanded == iexpanded'
  <2>1. Outcome(e, out) /\ depth \in Nat /\ Joined(g, out, depth, expanded) /\ expanded = iexpanded' /\ iworld' = iworld
    BY <1>1, <1>2, <1>5, <1>7, <1>8
  <2> HIDE DEF out, depth, expanded
  <2> QED
    BY <1>4, <1>13, <1>14, <2>1, JoinedKeeps
<1>16. WholeIn(Graph, iexpanded)
  BY <1>2 DEF InquiryInv
<1>17. (ibridge \subseteq Candidates(iedges))' /\ (ibridge # {} => iworld.network)' /\ PivotsAuthorized'
  BY <1>2, <1>14, <1>15, BridgeKeeps
<1>18. ExposureOK'
  BY <1>2, <1>4, LookupSame
<1>19. (iexpanded \subseteq Transforms \X Entities)'
  BY <1>2, <1>3, <1>4 DEF Entities
<1> QED
  BY <1>2, <1>4, <1>13, <1>15, <1>16, <1>17, <1>18, <1>19 DEF InquiryInv

-----------------------------------------------------------------------------
(* The lookup and the bridge.                                              *)

\* What the lookup found is tied to the seed.
LEMMA FindsTied ==
  ASSUME iworld \in InvWorlds, NEW found \in Seq(Finds), ApiAnswers \in Nat
  PROVE  Outcome(iworld.seed, GraphItems(found))
<1> DEFINE E == Entities
           seed == iworld.seed
           n == Len(found)
           items(x) == <<x.id, x.source>> \o x.affects
           ids == [i \in DOMAIN found |-> items(found[i])]
           links == [i \in DOMAIN found |->
                       <<<<seed, found[i].id, "exposed_in">>>> \o To(found[i].id, Tail(items(found[i])), "reported")]
<1>1. n \in Nat /\ DOMAIN found = 1 .. n /\ \A i \in 1 .. n : found[i] \in Finds
  BY ElementOfSeq, LenProperties
<1>2. seed \in E
  BY WorldFacts
<1>3. ASSUME NEW i \in 1 .. n PROVE Tied(E, seed, ids[i], links[i])
  <2> DEFINE x == found[i]
             id == x.id
             rest == <<x.source>> \o x.affects
             first == <<<<seed, id, "exposed_in">>>>
  <2>1. id \in E /\ x.source \in E /\ x.affects \in Seq(E)
    BY <1>1 DEF Finds
  <2>2. ids[i] = items(x) /\ links[i] = first \o To(id, Tail(items(x)), "reported")
    BY <1>1
  <2>3. rest \in Seq(E) /\ Tail(items(x)) = rest /\ items(x) = <<id>> \o rest
    BY <2>1 DEF id
  <2>4. Tied(E, seed, <<id>>, first)
    <3> DEFINE one == <<id>>
    <3>1. one \in Seq(E) /\ To(seed, one, "exposed_in") = first
      BY <2>1 DEF To
    <3>2. "exposed_in" \in Relations
      BY DEF Relations
    <3> HIDE DEF one, first, id, E, seed
    <3>3. Tied(E, seed, one, To(seed, one, "exposed_in"))
      BY <1>2, <3>1, <3>2, TiedTo
    <3> QED
      BY <3>1, <3>3 DEF one
  <2>5. "reported" \in Relations
    BY DEF Relations
  <2>6. <<id>> # <<>> /\ <<id>>[1] = id
    OBVIOUS
  <2> HIDE DEF x, id, rest, first, ids, links, items, E, seed
  <2>7. Tied(E, seed, <<id>> \o rest, first \o To(<<id>>[1], rest, "reported"))
    BY <2>3, <2>4, <2>5, <2>6, TiedAfter
  <2> QED
    BY <2>2, <2>3, <2>6, <2>7
<1>4. Len(ids) = n /\ Len(links) = n /\ (ids = <<>> <=> n = 0) /\ (links = <<>> <=> n = 0)
  BY <1>1, EmptySeq, RowOf DEF Row
<1> HIDE DEF ids, links, n, seed, E
<1>5. Tied(E, seed, FlattenSeq(ids), FlattenSeq(links))
  BY <1>1, <1>3, <1>4, TiedFlat
<1>6. Outcome(seed, Output(ApiAnswers, 0, FlattenSeq(ids), FlattenSeq(links)))
  BY <1>5, OutcomeOf DEF E
<1> QED
  BY <1>6 DEF GraphItems, ids, links, seed

\* The requests to the lookup's providers can be counted.
LEMMA ApiCounted ==
  ASSUME ExposureOK
  PROVE  ApiAnswers \in Nat
<1>1. DOMAIN xobs = 1 .. Len(xobs) /\ Len(xobs) \in Nat
  BY RowDomain DEF ExposureOK
<1>2. IsFiniteSet(DOMAIN xobs)
  BY <1>1, FS_Interval
<1> DEFINE T == {i \in DOMAIN xobs : xproviders[xobs[i][1]].api /\ xobs[i][2] \in {"matched", "no_match"}}
<1>3. T \subseteq DOMAIN xobs
  OBVIOUS
<1> HIDE DEF T
<1>4. Cardinality(T) \in Nat
  BY <1>2, <1>3, FS_Subset, FS_CardinalityType
<1> QED
  BY <1>4 DEF ApiAnswers, T

\* What the lookup found is brought in.
LEMMA ExposedKeeps ==
  ASSUME InquiryInv, InvExposed
  PROVE  InquiryInv'
<1> DEFINE found == IF xphase = "reported" THEN xfound ELSE <<>>
           everyPair == Transforms \X Entities
           g == Graph
           out == GraphItems(found)
           seed == iworld.seed
<1>1. /\ Joined(g, out, 1, everyPair) /\ iphase' = "bridge" /\ UNCHANGED <<xvars, iworld, iexpanded, icontacted, imisses>>
      /\ ibridge' = IF iworld.network THEN Candidates(iedges') ELSE {}
  BY DEF InvExposed
<1>2. /\ iworld \in InvWorlds /\ GraphOK(g) /\ RootedIn(g) /\ ExposureOK /\ iexpanded \subseteq Transforms \X Entities
  BY AccountsNow
<1>3. found \in Seq(Finds)
  BY <1>2 DEF ExposureOK
<1>4. ApiAnswers \in Nat
  BY <1>2, ApiCounted
<1> HIDE DEF found
<1>5. Outcome(seed, out)
  BY <1>2, <1>3, <1>4, FindsTied
<1>6. seed \in FoundIn(g.depth) /\ g.edges = iedges
  BY <1>2 DEF GraphOK, Graph
<1> HIDE DEF g, out, everyPair, seed
<1>7. GraphOK(Graph)' /\ iedges \subseteq iedges' /\ RootedIn(Graph)'
  BY <1>1, <1>2, <1>5, <1>6, JoinedKeeps
<1>8. (ibridge \subseteq Candidates(iedges))' /\ (ibridge # {} => iworld.network)'
  BY <1>1 DEF Candidates, Entities, Kind
<1>9. PivotsAuthorized'
  BY <1>1, <1>7 DEF InquiryInv, PivotsAuthorized
<1>10. ExposureOK'
  BY <1>1, <1>2, LookupSame DEF xvars
<1>11. (iexpanded \subseteq Transforms \X Entities)'
  BY <1>1, <1>2 DEF Entities
<1> QED
  BY <1>1, <1>2, <1>7, <1>8, <1>9, <1>10, <1>11 DEF InquiryInv

\* The bridge goes to an address of the graph.
LEMMA NextBridged ==
  ASSUME InquiryInv, ibridge # {}
  PROVE  /\ NextAddress \in ibridge /\ NextAddress \in Entities /\ Kind(NextAddress) = "ip"
         /\ NextAddress \in FoundIn(idepth) /\ idepth[NextAddress] \in Nat
<1>1. ibridge \subseteq Candidates(iedges) /\ iworld \in InvWorlds /\ GraphOK(Graph)
  BY DEF InquiryInv
<1>2. ibridge \subseteq Nat
  BY <1>1, WorldLimits DEF Candidates
<1>3. NextAddress \in ibridge
  BY <1>2, NextIsBridged
<1> HIDE DEF NextAddress
<1>4. NextAddress \in Entities /\ Kind(NextAddress) = "ip" /\ \E edge \in iedges : edge[2] = NextAddress
  BY <1>1, <1>3 DEF Candidates
<1>5. NextAddress \in FoundIn(idepth)
  BY <1>1, <1>4 DEF GraphOK, Graph
<1>6. idepth \in [Entities -> Depths \cup {Absent}] /\ Depths \subseteq Nat
  BY <1>1, WorldLimits DEF GraphOK, GraphType, Graph
<1> QED
  BY <1>3, <1>4, <1>5, <1>6 DEF FoundIn

\* The open ports of an address are tied to it.
LEMMA PortsTied ==
  ASSUME NEW ip \in Entities, NEW open \in Seq(Entities), NEW n \in 0 .. Len(open),
         iworld.relationships - Cardinality(iedges) \in Nat
  PROVE  Outcome(ip, Ports(ip, SubSeq(open, 1, n)))
<1> DEFINE ports == SubSeq(open, 1, n)
           room == iworld.relationships - Cardinality(iedges)
           k == IF Len(ports) <= room THEN Len(ports) ELSE room + 1
           within == SubSeq(ports, 1, k)
           E == Entities
<1>1. Len(open) \in Nat /\ n \in Nat /\ n <= Len(open)
  BY LenProperties
<1>2. ports \in Seq(E) /\ Len(ports) = n
  BY <1>1
<1>3. k \in Nat /\ k <= n
  BY <1>1, <1>2 DEF room
<1> HIDE DEF ports, k
<1>4. within \in Seq(E)
  BY <1>2, <1>3
<1> HIDE DEF within, E
<1>5. Tied(E, ip, within, To(ip, within, "listens_on"))
  BY <1>4, TiedTo DEF Relations, E
<1>6. Outcome(ip, Output(0, 0, within, To(ip, within, "listens_on")))
  BY <1>5, OutcomeOf DEF E
<1> QED
  BY <1>6 DEF Ports, within, k, ports

\* A probe across the bridge goes where it may and brings in the open ports.
LEMMA ProbeKeeps ==
  ASSUME InquiryInv, BridgeProbe
  PROVE  InquiryInv'
<1> DEFINE ip == NextAddress
           open == IF ip \in iworld.private THEN <<>> ELSE About(ip).open
           acct == [iacct EXCEPT !.scans = @ + 1]
           g == [depth |-> idepth, edges |-> iedges, pending |-> ipending, acct |-> acct, truncated |-> itruncated]
<1>1. PICK n \in 0 .. Len(open) :
        Joined([Graph EXCEPT !.acct.scans = @ + 1], Ports(ip, SubSeq(open, 1, n)), idepth[ip], {})
  BY DEF BridgeProbe
<1>2. /\ ibridge # {} /\ iphase = "bridge" /\ ip \in iworld.scope /\ iacct.scans < iworld.pivots
      /\ icontacted' = IF ip \in iworld.private THEN icontacted ELSE icontacted \cup {ip}
      /\ ibridge' = ibridge \ {ip}
      /\ UNCHANGED <<xproviders, xphase, xnext, xacct, xobs, xfound, xchecked, iworld, iphase, iexpanded>>
  BY DEF BridgeProbe, Bridging
<1>3. /\ ip \in ibridge /\ ip \in Entities /\ Kind(ip) = "ip" /\ ip \in FoundIn(idepth) /\ idepth[ip] \in Nat
  BY <1>2, NextBridged
<1> HIDE DEF NextAddress, ip
<1>4. /\ iworld \in InvWorlds /\ GraphOK(Graph) /\ RootedIn(Graph) /\ ExposureOK
      /\ iacct \in Accounts /\ itruncated \subseteq Reasons /\ iexpanded \subseteq Transforms \X Entities
      /\ iacct.completed \in Nat /\ iacct.skipped \in Nat /\ iacct.cancelled \in Nat /\ iacct.unscanned \in Nat
      /\ iacct.scans \in Nat
  BY AccountsNow
<1>5. /\ Graph.depth = idepth /\ Graph.edges = iedges /\ Graph.pending = ipending /\ Graph.acct = iacct
      /\ Graph.truncated = itruncated
  BY DEF Graph
<1>6. [Graph EXCEPT !.acct.scans = @ + 1] = g
  BY DEF Graph
<1>7. open \in Seq(Entities)
  BY <1>3, <1>4, KnownAbout
<1>8. Outcome(ip, Ports(ip, SubSeq(open, 1, n)))
  <2>1. iworld.relationships - Cardinality(iedges) \in Nat
    <3>1. IsFiniteSet(iedges) /\ Cardinality(iedges) <= iworld.relationships
      BY <1>4, <1>5 DEF GraphOK
    <3>2. Cardinality(iedges) \in Nat /\ iworld.relationships \in Nat
      BY <1>4, <3>1, FS_CardinalityType, WorldLimits
    <3> QED
      BY <3>1, <3>2
  <2> HIDE DEF open
  <2> QED
    BY <1>3, <1>7, <2>1, PortsTied
<1>9. /\ acct \in Accounts /\ acct.requested = iacct.requested /\ acct.http = iacct.http /\ acct.dns = iacct.dns
      /\ acct.scans = iacct.scans + 1 /\ acct.completed = iacct.completed /\ acct.skipped = iacct.skipped
      /\ acct.cancelled = iacct.cancelled /\ acct.unscanned = iacct.unscanned
  BY <1>4 DEF Accounts
<1>10. acct.scans <= iworld.pivots
  BY <1>2, <1>4, <1>9, WorldLimits
<1> HIDE DEF acct, open
<1>11. GraphOK(g) /\ (RootedIn(Graph) => RootedIn(g)) /\ FoundIn(g.depth) = FoundIn(idepth) /\ g.edges = iedges
  <2>1. /\ g.depth = idepth /\ g.edges = iedges /\ g.pending = ipending /\ g.acct = acct /\ g.truncated = itruncated
        /\ g = [depth |-> g.depth, edges |-> g.edges, pending |-> g.pending, acct |-> g.acct, truncated |-> g.truncated]
    OBVIOUS
  <2>2. acct.completed + acct.skipped + acct.cancelled + acct.unscanned =
          iacct.completed + iacct.skipped + iacct.cancelled + iacct.unscanned + Cardinality(ipending \ ipending)
    <3> DEFINE none == Cardinality(ipending \ ipending)
    <3>1. ipending \ ipending = {} /\ Cardinality({}) = 0
      BY FS_EmptySet
    <3>2. none = 0
      BY <3>1
    <3> HIDE DEF none
    <3>3. acct.completed + acct.skipped + acct.cancelled + acct.unscanned =
            iacct.completed + iacct.skipped + iacct.cancelled + iacct.unscanned + none
      BY <1>4, <1>9, <3>2
    <3> QED
      BY <3>3 DEF none
  <2> HIDE DEF g
  <2>3. Counts(Graph, g)
    BY <1>4, <1>5, <1>9, <1>10, <2>1, <2>2 DEF Counts
  <2>4. TakenUp(Graph, g, iexpanded)
    BY <1>5, <2>1 DEF TakenUp
  <2>5. GraphOK(g) /\ (RootedIn(Graph) => RootedIn(g))
    BY <1>4, <2>3, <2>4, WorkCounted
  <2> QED
    BY <2>1, <2>5
<1> HIDE DEF g
<1>12. GraphOK(Graph)' /\ iedges \subseteq iedges' /\ RootedIn(Graph)'
  BY <1>1, <1>2, <1>3, <1>4, <1>6, <1>8, <1>11, JoinedKeeps
<1>13. (ibridge \subseteq Candidates(iedges))' /\ (ibridge # {} => iworld.network)' /\ PivotsAuthorized'
  BY <1>2, <1>3, <1>12, BridgeKeeps
<1>14. ExposureOK'
  BY <1>2, <1>4, LookupSame
<1>15. (iexpanded \subseteq Transforms \X Entities)'
  BY <1>2, <1>4 DEF Entities
<1> QED
  BY <1>2, <1>4, <1>12, <1>13, <1>14, <1>15 DEF InquiryInv

\* The bridge ends and leaves the graph as it is.
LEMMA BridgeEndKeeps ==
  ASSUME InquiryInv, BridgeStop \/ BridgeExhausted
  PROVE  InquiryInv'
<1>1. /\ UNCHANGED <<xvars, iworld, iphase, idepth, iedges, icontacted, ipending, iacct, iexpanded>>
      /\ ibridge' = {} /\ itruncated \subseteq itruncated'
  BY DEF BridgeStop, BridgeExhausted
<1>2. itruncated' \in SUBSET Reasons
  BY AccountsNow DEF BridgeStop, BridgeExhausted, Reasons
<1>3. /\ iacct \in Accounts /\ iexpanded \subseteq Transforms \X Entities /\ iacct.scans <= iworld.pivots
      /\ iacct.completed \in Nat /\ iacct.skipped \in Nat /\ iacct.cancelled \in Nat /\ iacct.unscanned \in Nat
  BY AccountsNow
<1>4. ipending \ ipending' = {} /\ Cardinality(ipending \ ipending') = 0
  BY <1>1, FS_EmptySet
<1>5. iacct'.completed + iacct'.skipped + iacct'.cancelled + iacct'.unscanned =
        iacct.completed + iacct.skipped + iacct.cancelled + iacct.unscanned + Cardinality(ipending \ ipending')
  BY <1>1, <1>3, <1>4
<1> QED
  BY <1>1, <1>2, <1>3, <1>4, <1>5, InquiryCounts

\* Every step of an investigation keeps the invariant.
LEMMA InquiryStep ==
  ASSUME InquiryInv, InvNext
  PROVE  InquiryInv'
<1>1. ExposureOK /\ iworld \in InvWorlds
  BY AccountsNow
<1>2. CASE InvExpanded
  BY <1>1, <1>2, InquiryIdle, WorldLimits DEF InvExpanded, Lookup, Lists, ExposureOK, Finds, Entities, Row,
     LookupsExact
<1>3. CASE InvExposure
  BY <1>1, <1>3, InquiryIdle, LookupKeeps DEF InvExposure, InquiryInv
<1>4. CASE BridgeReject
  BY <1>1, <1>4, InquiryIdle, LookupSame DEF BridgeReject, xvars, InquiryInv
<1>5. CASE InvDone
  BY <1>1, <1>5, InquiryIdle, LookupSame DEF InvDone, xvars, InquiryInv
<1>6. CASE Interrupt
  BY <1>1, <1>6, InquiryIdle, LookupSame DEF Interrupt, InquiryInv
<1> QED
  BY <1>2, <1>3, <1>4, <1>5, <1>6, StopKeeps, SkipKeeps, ExpandKeeps, ExposedKeeps, ProbeKeeps, BridgeEndKeeps
  DEF InvNext, InvStep

\* So does a step of another component.
LEMMA InquiryStutter ==
  ASSUME InquiryInv, UNCHANGED invvars
  PROVE  InquiryInv'
  BY AccountsNow, InquiryIdle, LookupSame DEF invvars, xvars, InquiryInv

-----------------------------------------------------------------------------
(* What follows from the invariant.                                        *)

\* The invariant holds throughout.
LEMMA InquiryHolds == MCSpec => []InquiryInv
<1>1. MCInit => InquiryInv
  BY InquiryInit DEF MCInit
<1>2. InquiryInv /\ [MCNext]_<<expvars, webvars, invvars, vars, focus>> => InquiryInv'
  BY InquiryStep, InquiryStutter DEF MCNext
<1> QED
  BY <1>1, <1>2, PTL DEF MCSpec

\* The invariant gives the types and the budgets.
LEMMA InquiryTyped ==
  ASSUME InquiryInv
  PROVE  InvTypeOK /\ InvWithinBudgets
  BY WorldLimits DEF InquiryInv, GraphOK, Graph, GraphType, FoundIn, Depths, InvWithinBudgets, InvTypeOK

\* It gives the accounts: an empty queue at the end leaves nothing uncounted.
LEMMA InquiryCounted ==
  ASSUME InquiryInv
  PROVE  AccountingExact /\ UntruncatedIsWhole /\ LookupsExact
  BY DEF InquiryInv, GraphOK, Graph, AccountingExact, WholeIn, UntruncatedIsWhole, ExposureOK

\* And it gives that all is explained: without an edge into it, an entity would
\* stay behind when the seed's relationships are followed.
LEMMA InquiryRooted ==
  ASSUME InquiryInv
  PROVE  GraphRooted /\ LeadsOffered
<1>1. GraphOK(Graph) /\ RootedIn(Graph)
  BY DEF InquiryInv
<1>2. iworld.seed \in FoundIn(idepth)
      /\ \A edge \in iedges : edge[1] \in FoundIn(idepth) /\ edge[2] \in FoundIn(idepth)
  BY <1>1 DEF GraphOK, Graph
<1>3. GraphRooted
  BY <1>1, <1>2 DEF RootedIn, Graph, GraphRooted, Explains
<1>4. ASSUME "relationship_budget" \notin itruncated, NEW e \in FoundIn(idepth) \ iobserved, Kind(e) \in Seedable,
             e # iworld.seed
      PROVE  e \in Pivots \cup {ReportedSeed}
  <2> DEFINE S == FoundIn(idepth) \ {e}
  <2>1. ASSUME ~\E edge \in iedges : edge[2] = e
        PROVE  FALSE
    <3>1. Explains(S)
      BY <1>2, <1>4, <2>1 DEF Explains
    <3>2. S = FoundIn(idepth)
      BY <1>3, <1>4, <3>1 DEF GraphRooted
    <3> QED
      BY <3>2
  <2> QED
    BY <1>4, <2>1 DEF Pivots
<1>5. LeadsOffered
  BY <1>4 DEF LeadsOffered
<1> QED
  BY <1>3, <1>5

\* The accounts of an investigation and of its exposure lookup add up whatever
\* the answers, the flag, the deadline and the budgets, and one that reports
\* no truncation took up every transform of every entity it found.
THEOREM InquiriesAreExact == MCSpec => []InquiryExact
<1>1. InquiryInv => InquiryExact
  BY InquiryCounted DEF InquiryExact
<1> QED
  BY <1>1, InquiryHolds, PTL

\* Every relationship is between entities of the graph, every entity can be
\* explained from the seed, and what was not looked at is offered as a next
\* step, unless a relationship was refused.
THEOREM InquiriesAreExplained == MCSpec => []InquiryExplained
<1>1. InquiryInv => InquiryExplained
  BY InquiryRooted DEF InquiryExplained
<1> QED
  BY <1>1, InquiryHolds, PTL

\* The bridge connects only when asked for, only into the authorised scope,
\* and only to addresses a domain was seen to resolve to.
THEOREM PivotsStayAuthorized == MCSpec => []PivotsAuthorized
<1>1. InquiryInv => PivotsAuthorized
  BY DEF InquiryInv
<1> QED
  BY <1>1, InquiryHolds, PTL

-----------------------------------------------------------------------------
(* Jobs: when they start, and that an outcome is final.                    *)

WorkerPlace == {"none", "spawned", "started", "stopping", "checked", "executing", "gone"}
JobState == {"Absent"} \cup Live \cup Terminal
AtWork == {"started", "stopping", "checked", "executing"}

\* A job is live exactly while its worker is, an accepted cancellation stays
\* raised, and a job cancelled while queued does not get past the flag.
WorkerInv ==
  /\ status \in [Job -> JobState]
  /\ worker \in [Job -> WorkerPlace]
  /\ cancel \in [Job -> BOOLEAN]
  /\ early \in SUBSET Job
  /\ \A j \in Job : status[j] = "Queued" <=> worker[j] = "spawned"
  /\ \A j \in Job : status[j] = "Running" <=> worker[j] \in AtWork
  /\ \A j \in early : cancel[j] /\ worker[j] \notin {"checked", "executing"}

\* What each step may do to a job's status, worker and flag.
Steps(j) ==
  \* Nothing but the flag, which is only ever raised.
  \/ /\ UNCHANGED <<status, worker>>
     /\ cancel' \in [Job -> BOOLEAN] /\ \A k \in Job : cancel[k] => cancel'[k]
     /\ \/ early' = early
        \/ status[j] = "Queued" /\ cancel'[j] /\ early' = early \cup {j}
  \* The job moves along with its worker.
  \/ /\ UNCHANGED <<cancel, early>>
     /\ \/ /\ worker[j] = "spawned" /\ worker' = [worker EXCEPT ![j] = "started"]
           /\ status' = [status EXCEPT ![j] = "Running"]
        \/ /\ worker[j] = "started" /\ UNCHANGED status
           /\ worker' = [worker EXCEPT ![j] = IF cancel[j] THEN "stopping" ELSE "checked"]
        \/ /\ worker[j] = "checked" /\ UNCHANGED status
           /\ worker' = [worker EXCEPT ![j] = "executing"]
        \/ /\ worker[j] \in {"stopping", "executing"} /\ worker' = [worker EXCEPT ![j] = "gone"]
           /\ \E outcome \in Terminal : status' = [status EXCEPT ![j] = outcome]
  \* The job is created, and finished ones make room.
  \/ /\ UNCHANGED <<cancel, early>>
     /\ status[j] = "Absent" /\ worker[j] = "none" /\ RunningCount < MaxRunning
     /\ worker' = [worker EXCEPT ![j] = "spawned"]
     /\ \E S \in SUBSET {k \in Job : status[k] \in Terminal} :
          status' = [k \in Job |-> IF k = j THEN "Queued"
                                   ELSE IF k \in S THEN "Absent" ELSE status[k]]

\* Every step of the server is one of these.
LEMMA StepsCover ==
  ASSUME WorkerInv, [JobNext]_vars
  PROVE  UNCHANGED <<status, worker, cancel, early>> \/ \E j \in Job : Steps(j)
<1>1. CASE UNCHANGED vars
  BY <1>1 DEF vars, store
<1>2. CASE Accept \/ HandleRefused \/ RaiseShutdown
  BY <1>2 DEF Accept, HandleRefused, RaiseShutdown, store
<1>3. CASE CancelRunning
  BY <1>3 DEF CancelRunning, store, WorkerInv, Steps
<1>4. ASSUME NEW c \in Client, PollStream(c) \/ Disconnect(c) \/ \E j \in Job : OpenStream(c, j)
      PROVE  UNCHANGED <<status, worker, cancel, early>>
  BY <1>4 DEF PollStream, Disconnect, OpenStream, store
<1>5. ASSUME NEW j \in Job, AnnounceCancel(j) \/ WorkerProgresses(j)
      PROVE  UNCHANGED <<status, worker, cancel, early>>
  BY <1>5 DEF AnnounceCancel, WorkerProgresses
<1>6. ASSUME NEW j \in Job, HandleCreate(j) PROVE Steps(j)
  <2> DEFINE S == Evicted \cap {k \in Job : status[k] \in Terminal}
  <2>1. \A k \in Evicted : status[k] \in Terminal
    BY DEF Evicted
  <2>2. status' = [k \in Job |-> IF k = j THEN "Queued"
                                 ELSE IF k \in S THEN "Absent" ELSE status[k]]
    BY <1>6, <2>1 DEF HandleCreate
  <2>3. /\ status[j] = "Absent" /\ worker[j] = "none" /\ RunningCount < MaxRunning
        /\ worker' = [worker EXCEPT ![j] = "spawned"] /\ UNCHANGED <<cancel, early>>
    BY <1>6 DEF HandleCreate
  <2>4. S \in SUBSET {k \in Job : status[k] \in Terminal}
    OBVIOUS
  <2> QED
    BY <2>2, <2>3, <2>4 DEF Steps
<1>7. ASSUME NEW j \in Job, HandleCancel(j) PROVE Steps(j)
  BY <1>7 DEF HandleCancel, store, WorkerInv, Steps
<1>8. ASSUME NEW j \in Job, WorkerStep(j) PROVE Steps(j)
  BY <1>8 DEF WorkerStarts, At, Steps, WorkerChecks, store, WorkerStops, FinishJob, Terminal, WorkerExecutes,
     WorkerFails, FinishWithWarning, ScanErrs, ScanEnds, SearchEnds, WorkerStep
<1> QED
  BY <1>1, <1>2, <1>3, <1>4, <1>5, <1>6, <1>7, <1>8 DEF JobNext

\* An empty store has no workers.
LEMMA WorkerInvInit == JobInit => WorkerInv
  BY DEF JobInit, WorkerInv, JobState, WorkerPlace, AtWork

\* Every step keeps jobs and workers together.
LEMMA WorkerInvNext == WorkerInv /\ [JobNext]_vars => WorkerInv'
<1> SUFFICES ASSUME WorkerInv, [JobNext]_vars PROVE WorkerInv'
  OBVIOUS
<1> USE DEF WorkerInv, JobState, WorkerPlace, AtWork, Live, Terminal
<1>1. CASE UNCHANGED <<status, worker, cancel, early>>
  BY <1>1
<1>2. ASSUME NEW j \in Job, Steps(j) PROVE WorkerInv'
  BY <1>2 DEF Steps
<1> QED
  BY <1>1, <1>2, StepsCover

-----------------------------------------------------------------------------

\* A job whose cancellation was accepted while it was queued is never executed.
LEMMA CancelledQueuedNeverRun == JobSpec => []QueuedCancelNeverExecutes
<1>1. WorkerInv => QueuedCancelNeverExecutes
  BY DEF WorkerInv, QueuedCancelNeverExecutes
<1> QED
  BY <1>1, WorkerInvInit, WorkerInvNext, PTL DEF JobSpec

\* A job that ended keeps its outcome until it is evicted: only its worker
\* ends it, and that worker is gone.
THEOREM OutcomesAreFinal == JobSpec => OutcomeIsFinal
<1>1. WorkerInv /\ [JobNext]_vars =>
        [\A j \in Job : status[j] \in Terminal => status'[j] \in {status[j], "Absent"}]_vars
  BY StepsCover DEF WorkerInv, AtWork, Terminal, Steps
<1> QED
  BY <1>1, WorkerInvInit, WorkerInvNext, PTL DEF JobSpec, OutcomeIsFinal

\* However creations, starts and ends interleave, the number of live jobs stays
\* within the limit: only a creation, which counts first, adds one.
LEMMA RunningStaysLimited == JobSpec => []RunningWithinLimit
<1> DEFINE LiveJobs == {j \in Job : status[j] \in Live}
<1>1. JobInit => RunningWithinLimit
  <2> SUFFICES ASSUME JobInit PROVE RunningWithinLimit
    OBVIOUS
  <2>1. LiveJobs = {}
    BY DEF JobInit, Live
  <2> QED
    BY <2>1, FS_EmptySet, JobConstants DEF RunningWithinLimit
<1>2. WorkerInv /\ RunningWithinLimit /\ [JobNext]_vars => RunningWithinLimit'
  <2> SUFFICES ASSUME WorkerInv, RunningWithinLimit, [JobNext]_vars PROVE RunningWithinLimit'
    OBVIOUS
  <2>1. IsFiniteSet(LiveJobs) /\ Cardinality(LiveJobs) \in Nat /\ MaxRunning \in Nat
    BY JobConstants, FS_Subset, FS_CardinalityType
  <2>2. ASSUME LiveJobs' \subseteq LiveJobs PROVE RunningWithinLimit'
    BY <2>1, <2>2, FS_CardinalityType, FS_Subset DEF RunningWithinLimit
  <2>3. ASSUME NEW j \in Job, LiveJobs' \subseteq LiveJobs \cup {j}, RunningCount < MaxRunning
        PROVE  RunningWithinLimit'
    <3>1. IsFiniteSet(LiveJobs \cup {j}) /\ Cardinality(LiveJobs \cup {j}) <= Cardinality(LiveJobs) + 1
      <4> HIDE DEF LiveJobs
      <4> QED
        BY <2>1, FS_AddElement
    <3>2. IsFiniteSet(LiveJobs') /\ Cardinality(LiveJobs') <= Cardinality(LiveJobs \cup {j})
      BY <2>3, <3>1, FS_Subset
    <3>3. Cardinality(LiveJobs') \in Nat /\ Cardinality(LiveJobs \cup {j}) \in Nat
      BY <3>1, <3>2, FS_CardinalityType
    <3>4. Cardinality(LiveJobs) < MaxRunning
      BY <2>3 DEF RunningCount
    <3> HIDE DEF LiveJobs
    <3>5. Cardinality(LiveJobs') <= MaxRunning
      BY <2>1, <3>1, <3>2, <3>3, <3>4
    <3> QED
      BY <3>5 DEF RunningWithinLimit, LiveJobs
  <2>4. ASSUME NEW j \in Job, Steps(j)
        PROVE  LiveJobs' \subseteq LiveJobs
               \/ (RunningCount < MaxRunning /\ LiveJobs' \subseteq LiveJobs \cup {j})
    BY <2>4 DEF Steps, WorkerInv, Live, Terminal, AtWork
  <2>5. CASE UNCHANGED <<status, worker, cancel, early>>
    BY <2>2, <2>5
  <2> QED
    BY <2>2, <2>3, <2>4, <2>5, StepsCover
<1> QED
  BY <1>1, <1>2, WorkerInvInit, WorkerInvNext, PTL DEF JobSpec

\* At most MaxRunning jobs are queued or running, and a job whose cancellation
\* was accepted while it was queued is never executed.
THEOREM JobsStartWhenAllowed == JobSpec => []StartsWhenAllowed
<1>1. StartsWhenAllowed <=> RunningWithinLimit /\ QueuedCancelNeverExecutes
  BY DEF StartsWhenAllowed
<1> QED
  BY <1>1, RunningStaysLimited, CancelledQueuedNeverRun, PTL

-----------------------------------------------------------------------------
(* Events and streams.                                                     *)

EventTypes == {"job_started", "progress", "warning", "terminal"}
Events == [seq : Nat, type : EventTypes]

\* The events kept of a job are the last ones, numbered up to n.
Numbered(s, n) ==
  /\ s \in Seq(Events) /\ n \in Nat /\ Len(s) <= n
  /\ \A i \in 1..Len(s) : s[i].seq = n - Len(s) + i

\* The next event, when nothing is dropped.
LEMMA AppendNumbered ==
  ASSUME NEW s, NEW n, Numbered(s, n), NEW e \in Events, e.seq = n + 1
  PROVE  Numbered(Append(s, e), n + 1) /\ Len(Append(s, e)) = Len(s) + 1
<1> DEFINE m == Len(s)
           r == Append(s, e)
<1>1. m \in Nat /\ n \in Nat /\ m <= n /\ s \in Seq(Events) /\ \A i \in 1 .. m : s[i].seq = n - m + i
  BY DEF Numbered
<1>2. r \in Seq(Events) /\ Len(r) = m + 1 /\ r[m + 1] = e /\ \A i \in 1 .. m : r[i] = s[i]
  BY <1>1
<1> HIDE DEF m, r
<1>3. \A i \in 1 .. m + 1 : r[i].seq = (n + 1) - (m + 1) + i
  <2> TAKE i \in 1 .. m + 1
  <2>1. CASE i = m + 1
    BY <1>1, <1>2, <2>1
  <2>2. CASE i # m + 1
    <3>1. i \in 1 .. m
      BY <1>1, <2>2
    <3>2. r[i].seq = n - m + i
      BY <1>1, <1>2, <3>1
    <3> QED
      BY <1>1, <3>2
  <2> QED
    BY <2>1, <2>2
<1>4. n + 1 \in Nat /\ m + 1 <= n + 1
  BY <1>1
<1>5. Numbered(r, n + 1) /\ Len(r) = m + 1
  BY <1>2, <1>3, <1>4 DEF Numbered
<1> QED
  BY <1>5 DEF r, m

\* The next event, when the oldest is dropped to keep within the cap.
LEMMA PushedNumbered ==
  ASSUME NEW s, NEW n, Numbered(s, n), NEW e \in Events, e.seq = n + 1
  PROVE  /\ Numbered(Pushed(s, e), n + 1)
         /\ Len(Pushed(s, e)) = IF Len(s) + 1 > MaxEvents THEN MaxEvents ELSE Len(s) + 1
<1> DEFINE all == Append(s, e)
           m == Len(s) + 1
           d == m - MaxEvents
           r == SubSeq(all, d + 1, m)
<1>1. MaxEvents \in Nat
  BY JobConstants
<1>2. /\ Numbered(all, n + 1) /\ Len(all) = m /\ all \in Seq(Events)
      /\ m \in Nat /\ n + 1 \in Nat /\ m <= n + 1
      /\ \A i \in 1 .. m : all[i].seq = (n + 1) - m + i
  <2>1. Numbered(all, n + 1) /\ Len(all) = m
    BY AppendNumbered
  <2> QED
    BY <2>1 DEF Numbered
<1>3. CASE ~ (m > MaxEvents)
  BY <1>2, <1>3 DEF Pushed
<1>4. CASE m > MaxEvents
  <2>1. Pushed(s, e) = r
    BY <1>2, <1>4 DEF Pushed
  <2>2. d \in Nat /\ d + 1 <= m + 1 /\ \A i \in 1 .. MaxEvents : d + i \in 1 .. m
    BY <1>1, <1>2, <1>4
  <2>3. r \in Seq(Events) /\ Len(r) = MaxEvents /\ \A i \in 1 .. MaxEvents : r[i] = all[d + i]
    <3> HIDE DEF all
    <3>1. \A i \in d + 1 .. m : all[i] \in Events
      BY <1>2, <2>2, ElementOfSeq
    <3>2. r = [i \in 1 .. m - (d + 1) + 1 |-> all[i + (d + 1) - 1]]
      BY <1>1, <1>2, <2>2
    <3>3. m - (d + 1) + 1 = MaxEvents /\ \A i \in 1 .. MaxEvents : i + (d + 1) - 1 = d + i
      BY <1>1, <1>2, <2>2
    <3>4. r = [i \in 1 .. MaxEvents |-> all[d + i]]
      BY <3>2, <3>3
    <3>5. \A i \in 1 .. MaxEvents : all[d + i] \in Events
      BY <1>2, <2>2, ElementOfSeq
    <3> HIDE DEF r, d, m
    <3> QED
      BY <1>1, <3>4, <3>5
  <2> HIDE DEF r, all
  <2>4. \A i \in 1 .. MaxEvents : r[i].seq = (n + 1) - MaxEvents + i
    <3> TAKE i \in 1 .. MaxEvents
    <3>1. r[i].seq = (n + 1) - m + (d + i)
      BY <1>2, <2>2, <2>3
    <3> QED
      BY <1>1, <1>2, <2>2, <3>1
  <2>5. MaxEvents <= n + 1
    BY <1>1, <1>2, <1>4
  <2>6. Numbered(r, n + 1)
    BY <1>2, <2>3, <2>4, <2>5 DEF Numbered
  <2> QED
    BY <1>4, <2>1, <2>3, <2>6
<1> QED
  BY <1>3, <1>4

\* Where the streams are.
Streams == [job : Job \cup {NoStream.job}, phase : {"closed", "open", "ended"}, cursor : Nat, seen : SUBSET Nat]

\* A job has its terminal event exactly when its worker is gone, and the event
\* is kept unless as many came after it as are kept at all.
EndKept(j) ==
  /\ ended[j] # 0 <=> worker[j] = "gone"
  /\ ended[j] <= eventSeq[j]
  /\ status[j] # "Absent" => worker[j] # "none"
  /\ ended[j] # 0 => \/ eventSeq[j] - ended[j] < Len(events[j])
                     \/ eventSeq[j] - ended[j] >= MaxEvents
  /\ ended[j] # 0 => Len(events[j]) >= 1

EventsInv ==
  /\ WorkerInv
  /\ events \in [Job -> Seq(Events)] /\ eventSeq \in [Job -> Nat] /\ ended \in [Job -> Nat]
  /\ \A j \in Job : Numbered(events[j], eventSeq[j]) /\ EndKept(j)

\* What the other threads see of a step: nobody's worker goes away or comes
\* back, and who is stored has one.
WorkersStay(S) ==
  \A k \in S : /\ worker'[k] = "gone" <=> worker[k] = "gone"
               /\ worker[k] # "none" => worker'[k] # "none"
               /\ status'[k] # "Absent" => status[k] # "Absent" \/ worker'[k] # "none"

\* What a step may do to events: nothing; one more, before the end of the job
\* or for a late cancellation; the last of the worker.
Quiet == UNCHANGED <<events, eventSeq, ended>> /\ WorkersStay(Job)
Pushes(j) ==
  /\ \E type \in EventTypes : PushEvent(j, type)
  /\ ended' = ended /\ WorkersStay(Job)
Finishes(j) ==
  /\ \E outcome \in Terminal : FinishJob(j, outcome) \/ FinishWithWarning(j, outcome)
  /\ worker[j] \in {"stopping", "executing"} /\ worker' = [worker EXCEPT ![j] = "gone"]

\* Every step is one of the three.
LEMMA EventSteps ==
  ASSUME EventsInv, [JobNext]_vars
  PROVE  Quiet \/ \E j \in Job : Pushes(j) \/ Finishes(j)
<1> USE DEF EventsInv, WorkerInv, EndKept
<1>1. CASE UNCHANGED vars
  BY <1>1 DEF vars, store, Quiet, WorkersStay
<1>2. CASE Accept \/ HandleRefused \/ RaiseShutdown \/ CancelRunning
  BY <1>2 DEF Accept, HandleRefused, RaiseShutdown, CancelRunning, store, Quiet, WorkersStay
<1>3. ASSUME NEW c \in Client, PollStream(c) \/ Disconnect(c) \/ \E j \in Job : OpenStream(c, j)
      PROVE  Quiet
  BY <1>3 DEF PollStream, Disconnect, OpenStream, store, Quiet, WorkersStay
<1>4. ASSUME NEW j \in Job, HandleCreate(j) PROVE Pushes(j)
  BY <1>4 DEF HandleCreate, WorkersStay, Pushes, EventTypes
<1>5. ASSUME NEW j \in Job, HandleCancel(j) PROVE Quiet
  BY <1>5 DEF HandleCancel, store, Quiet, WorkersStay
<1>6. ASSUME NEW j \in Job, AnnounceCancel(j) PROVE Quiet \/ Pushes(j)
  BY <1>6 DEF AnnounceCancel, Quiet, Pushes, WorkersStay, EventTypes
<1>7. ASSUME NEW j \in Job, WorkerProgresses(j) PROVE Pushes(j)
  BY <1>7 DEF WorkerProgresses, Pushes, WorkersStay, EventTypes
<1>8. ASSUME NEW j \in Job, WorkerStarts(j) PROVE Pushes(j)
  BY <1>8 DEF WorkerStarts, At, WorkersStay, Pushes, EventTypes
<1>9. ASSUME NEW j \in Job, WorkerChecks(j) PROVE Quiet
  BY <1>9 DEF WorkerChecks, At, store, Quiet, WorkersStay
<1>10. ASSUME NEW j \in Job, WorkerExecutes(j) PROVE Pushes(j)
  BY <1>10 DEF WorkerExecutes, At, WorkersStay, Pushes, EventTypes
<1>11. ASSUME NEW j \in Job, WorkerStops(j) \/ WorkerFails(j) \/ ScanErrs(j) PROVE Finishes(j)
  BY <1>11 DEF WorkerStops, WorkerFails, ScanErrs, At, Terminal, Finishes
<1>12. ASSUME NEW j \in Job, ScanEnds(j) PROVE Finishes(j)
  BY <1>12 DEF ScanEnds, Terminal, At, Finishes
<1>13. ASSUME NEW j \in Job, SearchEnds(j) PROVE Finishes(j)
  BY <1>13 DEF SearchEnds, Terminal, At, Finishes
<1> QED
  BY <1>1, <1>2, <1>3, <1>4, <1>5, <1>6, <1>7, <1>8, <1>9, <1>10, <1>11, <1>12, <1>13 DEF JobNext, WorkerStep

\* No job has a history at the beginning.
LEMMA EventsInvInit == JobInit => EventsInv
  BY WorkerInvInit DEF Numbered, JobInit, EventsInv, EndKept

\* One more event leaves the terminal one where it was, or makes it too old.
LEMMA PushKeeps ==
  ASSUME EventsInv, NEW j \in Job, Pushes(j)
  PROVE  /\ eventSeq' = [eventSeq EXCEPT ![j] = @ + 1]
         /\ events' \in [Job -> Seq(Events)]
         /\ \A k \in Job : k # j => events'[k] = events[k]
         /\ Numbered(events'[j], eventSeq[j] + 1)
         /\ ended[j] # 0 => \/ eventSeq[j] + 1 - ended[j] < Len(events'[j])
                            \/ eventSeq[j] + 1 - ended[j] >= MaxEvents
         /\ Len(events'[j]) >= 1
<1>1. PICK type \in EventTypes : PushEvent(j, type)
  BY DEF Pushes
<1> DEFINE e == Event(j, type)
<1>2. events' = [events EXCEPT ![j] = Pushed(events[j], e)] /\ eventSeq' = [eventSeq EXCEPT ![j] = @ + 1]
  BY <1>1 DEF PushEvent
<1>3. Numbered(events[j], eventSeq[j]) /\ eventSeq[j] \in Nat /\ ended[j] \in Nat /\ MaxEvents \in Nat /\ MaxEvents > 0
  BY JobConstants DEF EventsInv
<1>4. e \in Events /\ e.seq = eventSeq[j] + 1
  BY <1>3 DEF Event, Events, EventTypes
<1> HIDE DEF e
<1>5. /\ Numbered(Pushed(events[j], e), eventSeq[j] + 1)
      /\ Len(Pushed(events[j], e)) = IF Len(events[j]) + 1 > MaxEvents THEN MaxEvents ELSE Len(events[j]) + 1
  BY <1>3, <1>4, PushedNumbered
<1>6. events'[j] = Pushed(events[j], e) /\ events' \in [Job -> Seq(Events)]
  BY <1>2, <1>5 DEF EventsInv, Numbered
<1>7. Len(events[j]) \in Nat
  BY <1>3 DEF Numbered
<1>8. ended[j] # 0 => \/ eventSeq[j] - ended[j] < Len(events[j])
                      \/ eventSeq[j] - ended[j] >= MaxEvents
  BY DEF EventsInv, EndKept
<1>9. ended[j] # 0 => \/ eventSeq[j] + 1 - ended[j] < Len(events'[j])
                      \/ eventSeq[j] + 1 - ended[j] >= MaxEvents
  BY <1>3, <1>5, <1>6, <1>7, <1>8
<1>10. Len(events'[j]) >= 1
  BY <1>3, <1>5, <1>6, <1>7
<1> QED
  BY <1>2, <1>5, <1>6, <1>9, <1>10 DEF EventsInv

\* The last event of the worker is the newest.
LEMMA FinishKeeps ==
  ASSUME EventsInv, NEW j \in Job, Finishes(j)
  PROVE  \E n \in Nat :
           /\ n >= eventSeq[j]
           /\ eventSeq' = [eventSeq EXCEPT ![j] = n + 1] /\ ended' = [ended EXCEPT ![j] = n + 1]
           /\ events' \in [Job -> Seq(Events)]
           /\ \A k \in Job : k # j => events'[k] = events[k]
           /\ Numbered(events'[j], n + 1) /\ Len(events'[j]) >= 1
<1>1. PICK outcome \in Terminal : FinishJob(j, outcome) \/ FinishWithWarning(j, outcome)
  BY DEF Finishes
<1>2. Numbered(events[j], eventSeq[j]) /\ eventSeq[j] \in Nat
  BY DEF EventsInv
<1>3. CASE FinishJob(j, outcome)
  <2> DEFINE e == Event(j, "terminal")
  <2>1. /\ events' = [events EXCEPT ![j] = Append(events[j], e)]
        /\ eventSeq' = [eventSeq EXCEPT ![j] = @ + 1] /\ ended' = [ended EXCEPT ![j] = eventSeq'[j]]
    BY <1>3 DEF FinishJob
  <2>2. e \in Events /\ e.seq = eventSeq[j] + 1
    BY <1>2 DEF Event, Events, EventTypes
  <2> HIDE DEF e
  <2>3. Numbered(Append(events[j], e), eventSeq[j] + 1) /\ Len(Append(events[j], e)) = Len(events[j]) + 1
    BY <1>2, <2>2, AppendNumbered
  <2>4. Len(events[j]) \in Nat
    BY <1>2 DEF Numbered
  <2>5. events'[j] = Append(events[j], e) /\ events' \in [Job -> Seq(Events)] /\ eventSeq'[j] = eventSeq[j] + 1
    BY <2>1, <2>3 DEF EventsInv, Numbered
  <2>6. \A k \in Job : k # j => events'[k] = events[k]
    BY <2>1 DEF EventsInv
  <2> DEFINE n == eventSeq[j]
  <2>7. eventSeq' = [eventSeq EXCEPT ![j] = n + 1] /\ ended' = [ended EXCEPT ![j] = n + 1]
    BY <2>1, <2>5
  <2>8. Numbered(events'[j], n + 1)
    BY <2>3, <2>5
  <2>9. Len(events'[j]) >= 1
    BY <2>3, <2>4, <2>5
  <2>10. n \in Nat /\ n >= eventSeq[j]
    BY <1>2
  <2> HIDE DEF n
  <2> QED
    BY <2>5, <2>6, <2>7, <2>8, <2>9, <2>10
<1>4. CASE FinishWithWarning(j, outcome)
  <2> DEFINE w == Event(j, "warning")
             s == Pushed(events[j], w)
             e == [seq |-> eventSeq[j] + 2, type |-> "terminal"]
  <2>1. /\ events' = [events EXCEPT ![j] = Append(s, e)]
        /\ eventSeq' = [eventSeq EXCEPT ![j] = @ + 2] /\ ended' = [ended EXCEPT ![j] = eventSeq'[j]]
    BY <1>4 DEF FinishWithWarning
  <2>2. w \in Events /\ w.seq = eventSeq[j] + 1 /\ e \in Events /\ e.seq = eventSeq[j] + 2
    BY <1>2 DEF Event, Events, EventTypes
  <2> HIDE DEF e, w
  <2>3. Numbered(s, eventSeq[j] + 1)
    BY <1>2, <2>2, PushedNumbered
  <2> HIDE DEF s
  <2> DEFINE m == eventSeq[j] + 1
  <2>7. e.seq = m + 1 /\ m + 1 = eventSeq[j] + 2 /\ Numbered(s, m)
    BY <1>2, <2>2, <2>3
  <2> HIDE DEF m
  <2>12. Numbered(Append(s, e), m + 1) /\ Len(Append(s, e)) = Len(s) + 1
    BY <2>2, <2>7, AppendNumbered
  <2>13. Len(s) \in Nat
    BY <2>7 DEF Numbered
  <2>4. Numbered(Append(s, e), (eventSeq[j] + 1) + 1) /\ Len(Append(s, e)) = Len(s) + 1 /\ Len(s) \in Nat
    BY <2>12, <2>13 DEF m
  <2>5. events'[j] = Append(s, e) /\ events' \in [Job -> Seq(Events)] /\ eventSeq'[j] = eventSeq[j] + 2
    BY <2>1, <2>4 DEF EventsInv, Numbered
  <2>6. \A k \in Job : k # j => events'[k] = events[k]
    BY <2>1 DEF EventsInv
  <2>8. eventSeq[j] + 1 \in Nat /\ eventSeq[j] + 1 >= eventSeq[j]
    BY <1>2
  <2> DEFINE n == eventSeq[j] + 1
  <2>14. n + 1 = eventSeq[j] + 2
    BY <1>2
  <2>9. eventSeq' = [eventSeq EXCEPT ![j] = n + 1] /\ ended' = [ended EXCEPT ![j] = n + 1]
    BY <2>1, <2>5, <2>14
  <2>10. Numbered(events'[j], n + 1)
    BY <2>4, <2>5
  <2>11. Len(events'[j]) >= 1
    BY <2>4, <2>5
  <2> HIDE DEF n
  <2> QED
    BY <2>5, <2>6, <2>8, <2>9, <2>10, <2>11 DEF n
<1> QED
  BY <1>1, <1>3, <1>4

\* Every step keeps the numbers and the terminal event.
LEMMA EventsInvNext == EventsInv /\ [JobNext]_vars => EventsInv'
<1> SUFFICES ASSUME EventsInv, [JobNext]_vars PROVE EventsInv'
  OBVIOUS
<1>1. WorkerInv'
  BY WorkerInvNext DEF EventsInv
<1>2. CASE Quiet
  BY <1>1, <1>2 DEF Quiet, EventsInv, EndKept, WorkersStay
<1>3. ASSUME NEW j \in Job, Pushes(j) PROVE EventsInv'
  <2>1. /\ eventSeq' = [eventSeq EXCEPT ![j] = @ + 1]
        /\ events' \in [Job -> Seq(Events)]
        /\ \A k \in Job : k # j => events'[k] = events[k]
        /\ Numbered(events'[j], eventSeq[j] + 1)
        /\ ended[j] # 0 => \/ eventSeq[j] + 1 - ended[j] < Len(events'[j])
                           \/ eventSeq[j] + 1 - ended[j] >= MaxEvents
        /\ Len(events'[j]) >= 1
    BY <1>3, PushKeeps
  <2>2. ended' = ended /\ WorkersStay(Job)
    BY <1>3 DEF Pushes
  <2>3. eventSeq' \in [Job -> Nat] /\ eventSeq'[j] = eventSeq[j] + 1 /\ \A k \in Job : k # j => eventSeq'[k] = eventSeq[k]
    BY <2>1 DEF EventsInv
  <2>4. \A k \in Job : Numbered(events[k], eventSeq[k])'
    BY <2>1, <2>3 DEF EventsInv
  <2>5. \A k \in Job : EndKept(k)'
    BY <2>1, <2>2, <2>3 DEF EventsInv, EndKept, WorkersStay
  <2> QED
    BY <1>1, <2>1, <2>2, <2>3, <2>4, <2>5 DEF EventsInv
<1>4. ASSUME NEW j \in Job, Finishes(j) PROVE EventsInv'
  <2>1. PICK n \in Nat :
           /\ n >= eventSeq[j]
           /\ eventSeq' = [eventSeq EXCEPT ![j] = n + 1] /\ ended' = [ended EXCEPT ![j] = n + 1]
           /\ events' \in [Job -> Seq(Events)]
           /\ \A k \in Job : k # j => events'[k] = events[k]
           /\ Numbered(events'[j], n + 1) /\ Len(events'[j]) >= 1
    BY <1>4, FinishKeeps
  <2>2. /\ worker' = [worker EXCEPT ![j] = "gone"]
        /\ \E outcome \in Terminal : status' = [status EXCEPT ![j] = outcome]
    BY <1>4 DEF Finishes, FinishJob, FinishWithWarning
  <2>3. /\ eventSeq' \in [Job -> Nat] /\ eventSeq'[j] = n + 1 /\ \A k \in Job : k # j => eventSeq'[k] = eventSeq[k]
        /\ ended' \in [Job -> Nat] /\ ended'[j] = n + 1 /\ \A k \in Job : k # j => ended'[k] = ended[k]
    BY <2>1 DEF EventsInv
  <2>4. \A k \in Job : Numbered(events[k], eventSeq[k])'
    BY <2>1, <2>3 DEF EventsInv
  <2>5. \A k \in Job : EndKept(k)'
    BY <2>1, <2>2, <2>3 DEF EventsInv, WorkerInv, Numbered, EndKept
  <2> QED
    BY <1>1, <2>1, <2>3, <2>4, <2>5 DEF EventsInv
<1> QED
  BY <1>2, <1>3, <1>4, EventSteps

\* A stream is behind the terminal event or has delivered it, unless as many
\* events came after it as are kept; and it ends after the job did.
Delivers(c) ==
  LET s == stream[c]
  IN  /\ s.phase # "closed" => s.job \in Job /\ worker[s.job] # "none"
      /\ s.job \in Job =>
           /\ s.cursor <= eventSeq[s.job]
           /\ ended[s.job] # 0 /\ s.cursor >= ended[s.job] =>
                \/ ended[s.job] \in s.seen
                \/ eventSeq[s.job] >= ended[s.job] + MaxEvents
      /\ s.phase = "ended" => /\ ended[s.job] # 0
                              /\ ended[s.job] \in s.seen \/ s.cursor >= ended[s.job] + MaxEvents

StreamInv ==
  /\ EventsInv
  /\ stream \in [Client -> Streams]
  /\ \A c \in Client : Delivers(c)

\* No stream is open at first.
LEMMA StreamInvInit == JobInit => StreamInv
  BY EventsInvInit, JobConstants DEF NoStream, Streams, JobInit, Delivers, StreamInv

\* What a step leaves of the events a stream may still read.
LEMMA EventsGrow ==
  ASSUME EventsInv, [JobNext]_vars, NEW k \in Job
  PROVE  /\ eventSeq'[k] >= eventSeq[k] /\ eventSeq[k] \in Nat /\ eventSeq'[k] \in Nat
         /\ ended[k] \in Nat /\ ended'[k] \in Nat
         /\ ended[k] # 0 => ended'[k] = ended[k]
         /\ ended[k] = 0 /\ ended'[k] # 0 => ended'[k] > eventSeq[k] /\ ended'[k] = eventSeq'[k]
         /\ worker[k] # "none" => worker'[k] # "none"
<1>1. EventsInv'
  BY EventsInvNext
<1>2. eventSeq[k] \in Nat /\ eventSeq'[k] \in Nat /\ ended[k] \in Nat /\ ended'[k] \in Nat
  BY <1>1 DEF EventsInv
<1>3. CASE Quiet
  BY <1>2, <1>3 DEF Quiet, WorkersStay
<1>4. ASSUME NEW j \in Job, Pushes(j)
      PROVE  ended' = ended /\ eventSeq'[k] \in {eventSeq[k], eventSeq[k] + 1}
  BY <1>4, PushKeeps DEF Pushes, EventsInv
<1>5. ASSUME NEW j \in Job, Finishes(j)
      PROVE  \/ ended'[k] = ended[k] /\ eventSeq'[k] = eventSeq[k]
             \/ ended[k] = 0 /\ ended'[k] > eventSeq[k] /\ ended'[k] = eventSeq'[k]
  <2>1. PICK n \in Nat :
           /\ n >= eventSeq[j]
           /\ eventSeq' = [eventSeq EXCEPT ![j] = n + 1] /\ ended' = [ended EXCEPT ![j] = n + 1]
    BY <1>5, FinishKeeps
  <2>2. ended[j] = 0
    BY <1>5 DEF Finishes, EventsInv, EndKept
  <2>3. CASE k = j
    BY <1>2, <2>1, <2>2, <2>3 DEF EventsInv
  <2>4. CASE k # j
    BY <2>1, <2>4 DEF EventsInv
  <2> QED
    BY <2>3, <2>4
<1>6. Quiet \/ \E j \in Job : Pushes(j) \/ Finishes(j)
  BY EventSteps
<1>7. worker[k] # "none" => worker'[k] # "none"
  BY <1>6 DEF Quiet, Pushes, Finishes, WorkersStay, EventsInv, WorkerInv
<1> QED
  BY <1>2, <1>3, <1>4, <1>5, <1>6, <1>7

\* Before its terminal event, and after it when that is kept, what a poll of
\* the stream delivers includes it.
LEMMA PollDelivers ==
  ASSUME EventsInv, NEW k \in Job, ended[k] # 0, eventSeq[k] - ended[k] < Len(events[k])
  PROVE  \E e \in Range(events[k]) : e.seq = ended[k]
<1> DEFINE m == Len(events[k])
           i == ended[k] - (eventSeq[k] - m)
<1>1. /\ m \in Nat /\ eventSeq[k] \in Nat /\ m <= eventSeq[k] /\ ended[k] \in Nat /\ ended[k] <= eventSeq[k]
      /\ \A n \in 1 .. m : events[k][n].seq = eventSeq[k] - m + n
  BY DEF EventsInv, Numbered, EndKept
<1>2. i \in 1 .. m
  BY <1>1
<1>3. eventSeq[k] - m + i = ended[k]
  BY <1>1
<1>4. events[k][i].seq = ended[k]
  BY <1>1, <1>2, <1>3
<1>5. events[k] \in Seq(Events)
  BY DEF EventsInv
<1>6. i \in DOMAIN events[k]
  BY <1>2, <1>5
<1> HIDE DEF i
<1> QED
  BY <1>4, <1>6 DEF Range

\* A stream that is not touched stays as far as it was.
LEMMA Untouched ==
  ASSUME StreamInv, [JobNext]_vars, NEW c \in Client, stream'[c] = stream[c]
  PROVE  Delivers(c)'
<1> DEFINE k == stream[c].job
<1>1. stream[c] \in Streams /\ Delivers(c) /\ EventsInv /\ MaxEvents \in Nat
  BY JobConstants DEF StreamInv
<1>2. CASE k \in Job
  <2>1. /\ eventSeq'[k] >= eventSeq[k] /\ eventSeq[k] \in Nat /\ eventSeq'[k] \in Nat
        /\ ended[k] \in Nat /\ ended'[k] \in Nat
        /\ ended[k] # 0 => ended'[k] = ended[k]
        /\ ended[k] = 0 /\ ended'[k] # 0 => ended'[k] > eventSeq[k]
        /\ worker[k] # "none" => worker'[k] # "none"
    BY <1>1, <1>2, EventsGrow
  <2> QED
    BY <1>1, <1>2, <2>1 DEF Delivers, Streams
<1>3. CASE k \notin Job
  BY <1>1, <1>3 DEF Delivers
<1> QED
  BY <1>2, <1>3

\* A poll, or what went out before a client went away, delivers the terminal
\* event as soon as the cursor passes it, if it is still kept.
LEMMA DeliversPolled ==
  ASSUME StreamInv, [JobNext]_vars, NEW c \in Client, PollStream(c) \/ Disconnect(c)
  PROVE  Delivers(c)'
<1> DEFINE s == stream[c]
           k == s.job
<1>1. k \in Job /\ worker[k] # "none" /\ s.phase = "open"
  BY DEF StreamInv, Delivers, PollStream, Disconnect
<1>2. /\ EventsInv /\ s \in Streams /\ s.cursor \in Nat /\ s.seen \subseteq Nat
      /\ s.cursor <= eventSeq[k]
      /\ eventSeq[k] \in Nat /\ ended[k] \in Nat /\ EndKept(k) /\ MaxEvents \in Nat
  BY <1>1, JobConstants DEF StreamInv, Delivers, Streams, EventsInv
<1>3. ended[k] # 0 /\ s.cursor >= ended[k] => ended[k] \in s.seen \/ eventSeq[k] >= ended[k] + MaxEvents
  BY <1>1 DEF StreamInv, Delivers
<1>4. events' = events /\ eventSeq' = eventSeq /\ ended' = ended /\ worker' = worker
  BY DEF PollStream, Disconnect, store
<1>5. ended[k] # 0 => (\E e \in Range(events[k]) : e.seq = ended[k]) \/ eventSeq[k] >= ended[k] + MaxEvents
  <2>1. ended[k] # 0 /\ eventSeq[k] - ended[k] < Len(events[k]) => \E e \in Range(events[k]) : e.seq = ended[k]
    BY <1>1, <1>2, PollDelivers
  <2>2. eventSeq[k] - ended[k] >= MaxEvents => eventSeq[k] >= ended[k] + MaxEvents
    BY <1>2
  <2> QED
    BY <1>2, <2>1, <2>2 DEF EndKept
\* The newest event is kept: a poll that finds nothing new is up to date.
<1>6. ended[k] # 0 => \E e \in Range(events[k]) : e.seq = eventSeq[k]
  <2> DEFINE n == Len(events[k])
  <2>1. ASSUME ended[k] # 0 PROVE n \in Nat /\ n >= 1 /\ events[k][n].seq = eventSeq[k] - n + n
    BY <1>1, <1>2, <2>1 DEF EventsInv, Numbered, EndKept
  <2>2. events[k] \in Seq(Events)
    BY <1>1, <1>2 DEF EventsInv
  <2>3. ASSUME ended[k] # 0 PROVE n \in DOMAIN events[k] /\ events[k][n].seq = eventSeq[k]
    BY <1>2, <2>1, <2>2, <2>3
  <2> HIDE DEF n
  <2> QED
    BY <2>3 DEF Range
<1>7. CASE PollStream(c)
  <2> DEFINE fresh == {e \in Range(events[k]) : e.seq > s.cursor}
             cursor == IF fresh = {} THEN s.cursor ELSE eventSeq[k]
             seen == s.seen \cup {e.seq : e \in fresh}
             phase == IF status[k] \notin Live THEN "ended" ELSE IF shutdown # "up" THEN "closed" ELSE "open"
  <2>1. stream'[c] = [job |-> k, phase |-> phase, cursor |-> cursor, seen |-> seen]
    BY <1>7 DEF PollStream, StreamInv
  <2>2. cursor \in Nat /\ cursor <= eventSeq[k]
    BY <1>2
  <2>3. ended[k] # 0 => cursor = eventSeq[k]
    BY <1>2, <1>6
  <2>4. ended[k] # 0 => ended[k] \in seen \/ eventSeq[k] >= ended[k] + MaxEvents
    BY <1>2, <1>3, <1>5
  <2>5. phase = "ended" => ended[k] # 0
    BY <1>1, <1>2 DEF EventsInv, WorkerInv, WorkerPlace, AtWork, Live, EndKept
  <2> HIDE DEF cursor, seen, phase
  <2> QED
    BY <1>1, <1>2, <1>4, <2>1, <2>2, <2>3, <2>4, <2>5 DEF Delivers
<1>8. CASE Disconnect(c)
  <2>1. PICK last \in s.cursor .. eventSeq[k] :
          stream' = [stream EXCEPT ![c] =
            [job |-> k, phase |-> "closed", cursor |-> last,
             seen |-> s.seen \cup {e.seq : e \in
                        {f \in Range(events[k]) : f.seq > s.cursor /\ f.seq <= last}}]]
    BY <1>8 DEF Disconnect
  <2> DEFINE seen == s.seen \cup {e.seq : e \in {f \in Range(events[k]) : f.seq > s.cursor /\ f.seq <= last}}
  <2>2. stream'[c] = [job |-> k, phase |-> "closed", cursor |-> last, seen |-> seen]
    BY <2>1 DEF StreamInv
  <2>3. last \in Nat /\ last >= s.cursor /\ last <= eventSeq[k]
    BY <1>2
  <2>4. ended[k] # 0 /\ last >= ended[k] => ended[k] \in seen \/ eventSeq[k] >= ended[k] + MaxEvents
    BY <1>2, <1>3, <1>5, <2>3
  <2> HIDE DEF seen
  <2> QED
    BY <1>1, <1>2, <1>4, <2>2, <2>3, <2>4 DEF Delivers
<1> QED
  BY <1>7, <1>8

\* Every step keeps what the streams rely on.
LEMMA StreamInvNext ==
  ASSUME StreamInv, [JobNext]_vars
  PROVE  StreamInv'
<1>1. EventsInv'
  BY EventsInvNext DEF StreamInv
<1>4. ASSUME NEW c \in Client, PollStream(c) \/ Disconnect(c)
      PROVE  /\ stream' \in [Client -> Streams] /\ Delivers(c)'
             /\ \A d \in Client : d # c => stream'[d] = stream[d]
  <2> DEFINE s == stream[c]
             k == s.job
  <2>1. k \in Job /\ s \in Streams /\ eventSeq[k] \in Nat /\ \A e \in Range(events[k]) : e.seq \in Nat
    <3>1. k \in Job
      BY <1>4 DEF StreamInv, Delivers, PollStream, Disconnect
    <3>2. events[k] \in Seq(Events)
      BY <3>1 DEF StreamInv, EventsInv
    <3>3. \A e \in Range(events[k]) : e \in Events
      BY <3>2 DEF Range
    <3> QED
      BY <3>1, <3>3 DEF StreamInv, EventsInv, Events
  <2>2. \E r \in Streams : stream' = [stream EXCEPT ![c] = r]
    <3>1. CASE PollStream(c)
      BY <2>1, <3>1 DEF PollStream, Streams
    <3>2. CASE Disconnect(c)
      <4>1. PICK last \in s.cursor .. eventSeq[k] :
              stream' = [stream EXCEPT ![c] =
                [job |-> k, phase |-> "closed", cursor |-> last,
                 seen |-> s.seen \cup {e.seq : e \in
                            {f \in Range(events[k]) : f.seq > s.cursor /\ f.seq <= last}}]]
        BY <3>2 DEF Disconnect
      <4> DEFINE seen == s.seen \cup {e.seq : e \in {f \in Range(events[k]) : f.seq > s.cursor /\ f.seq <= last}}
                 r == [job |-> k, phase |-> "closed", cursor |-> last, seen |-> seen]
      <4>2. seen \in SUBSET Nat
        BY <2>1 DEF Streams
      <4>3. last \in Nat
        BY <2>1 DEF Streams
      <4>4. r \in Streams
        BY <2>1, <4>2, <4>3 DEF Streams
      <4> QED
        BY <4>1, <4>4
    <3> QED
      BY <1>4, <3>1, <3>2
  <2>3. stream' \in [Client -> Streams] /\ \A d \in Client : d # c => stream'[d] = stream[d]
    BY <2>2 DEF StreamInv
  <2> QED
    BY <1>4, <2>3, DeliversPolled
<1>5. ASSUME NEW c \in Client, NEW j \in Job, OpenStream(c, j)
      PROVE  /\ stream' \in [Client -> Streams] /\ Delivers(c)'
             /\ \A d \in Client : d # c => stream'[d] = stream[d]
  <2> DEFINE new == [job |-> j, phase |-> "open", cursor |-> 0, seen |-> {}]
             s == stream[c]
  <2>1. /\ eventSeq' = eventSeq /\ ended' = ended /\ worker' = worker /\ status[j] # "Absent"
        /\ \/ stream' = [stream EXCEPT ![c] = new]
           \/ s.job = j /\ stream' = [stream EXCEPT ![c].phase = "open"]
    BY <1>5 DEF OpenStream, store
  <2>2. new \in Streams /\ s \in Streams /\ ended[j] \in Nat /\ eventSeq[j] \in Nat /\ Delivers(c)
        /\ worker'[j] # "none"
    BY <2>1 DEF Streams, StreamInv, EventsInv, EndKept
  <2>3. CASE stream' = [stream EXCEPT ![c] = new]
    BY <2>1, <2>2, <2>3 DEF StreamInv, Delivers
  <2>4. CASE s.job = j /\ stream' = [stream EXCEPT ![c].phase = "open"]
    BY <2>1, <2>2, <2>4 DEF Streams, StreamInv, Delivers
  <2> QED
    BY <2>1, <2>3, <2>4
<1>6. ASSUME stream' = stream PROVE stream' \in [Client -> Streams] /\ \A c \in Client : Delivers(c)'
  BY <1>6, Untouched DEF StreamInv
<1>7. stream' \in [Client -> Streams] /\ \A c \in Client : Delivers(c)'
  BY <1>4, <1>5, <1>6, Untouched DEF JobNext, vars, Accept, HandleRefused, RaiseShutdown, CancelRunning,
     HandleCreate, HandleCancel, AnnounceCancel, WorkerProgresses, WorkerStep, WorkerStarts, WorkerChecks,
     WorkerStops, WorkerExecutes, WorkerFails, ScanErrs, ScanEnds, SearchEnds
<1> QED
  BY <1>1, <1>7 DEF StreamInv

\* StreamSeesTheEnd of JobStore: whatever the order in which creations,
\* cancellations, disconnections, workers and the shutdown come, and however
\* many they are, a stream that ends because its job did has delivered the job's
\* terminal event, the one that says how it ended, unless at least MaxEvents
\* events came after that one before the stream's last poll.
THEOREM StreamsDeliverTheEnd == JobSpec => []StreamSeesTheEnd
<1>1. JobInit => StreamInv
  BY StreamInvInit
<1>2. StreamInv /\ [JobNext]_vars => StreamInv'
  BY StreamInvNext
<1>3. StreamInv => StreamSeesTheEnd
  BY DEF StreamInv, Delivers, StreamSeesTheEnd
<1> QED
  BY <1>1, <1>2, <1>3, PTL DEF JobSpec

-----------------------------------------------------------------------------
(* Expansion: the first tasks and the follow-ups of a task.                *)

\* A range gives tasks for permitted hosts, or for a permitted network.
LEMMA RangePermitted ==
  ASSUME NEW plan, NEW target, NEW room, NEW t \in LowerRange(plan, target, room).tasks
  PROVE  t.at \in plan.permitted
<1>1. \A n, k : Expanded(plan, target, n) \subseteq plan.permitted
  BY DEF Expanded, Leading
<1>2. \A kind, n : \A u \in OfRange(kind, target, Expanded(plan, target, n)) : u.at \in plan.permitted
  BY <1>1 DEF OfRange, Task
<1>3. \A kind : \A u \in WholeRange(plan, target, kind) : u.at \in plan.permitted
  BY DEF WholeRange, Task
<1>4. \A kind, n : \A u \in Spread(plan, target, kind, n).tasks : u.at \in plan.permitted
  BY <1>2, <1>3 DEF Spread
<1> QED
  BY <1>2, <1>3, <1>4 DEF LowerRange

\* The first tasks of a plan go where the scope permits.
LEMMA LoweredPermitted ==
  ASSUME NEW plan, NEW t \in Lowered(plan)
  PROVE  t.at \in plan.permitted
<1>1. ~ Refused(plan)
  BY DEF Lowered
<1>2. \A i \in 1 .. Len(plan.targets) : plan.targets[i].form # "cidr" => plan.targets[i].at \in plan.permitted
  BY <1>1 DEF Refused
<1> QED
  BY <1>1, <1>2, RangePermitted DEF Lowered, SeedOf, Task

\* A task asks about finitely many others.
LEMMA FollowUpsFinite ==
  ASSUME NEW t, NEW depth
  PROVE  IsFiniteSet(FollowUps(t, depth))
<1>1. IsFiniteSet(Hosts) /\ IsFiniteSet(Names)
  BY ExpansionAssumption, FS_Subset
<1>2. IsFiniteSet(AddressOf(t))
  <2>1. CASE t.at \in Hosts
    BY <1>1, <2>1, FS_Subset DEF AddressOf
  <2>2. CASE t.at \notin Hosts
    <3> DEFINE s == xworld.resolves[t.at]
    <3>1. IsFiniteSet({1})
      BY FS_Singleton
    <3>2. AddressOf(t) \subseteq {s[1]}
      BY <2>2 DEF AddressOf
    <3>3. IsFiniteSet({s[1]})
      BY FS_Singleton
    <3> QED
      BY <3>2, <3>3, FS_Subset
  <2> QED
    BY <2>1, <2>2
<1>3. \A s : Some(s, Hosts) \subseteq Hosts /\ Some(s, Names) \subseteq Names
  BY DEF Some
<1>4. IsFiniteSet(HostRule(t))
  <2> DEFINE A == {h \in AddressOf(t) : /\ PortEligible(Plan) /\ Permitted(h)
                                        /\ \/ xworld.state[h] = "alive"
                                           \/ xworld.state[h] = "unknown" /\ (Plan.explicit \/ Plan.level >= 3)}
  <2>1. IsFiniteSet(A)
    BY <1>2, FS_Subset
  <2> DEFINE f == [h \in A |-> Task("port", h, t.label, <<"none">>)]
  <2>2. HostRule(t) = {f[h] : h \in A}
    BY DEF HostRule
  <2>3. DOMAIN f = A /\ f = [h \in A |-> f[h]]
    OBVIOUS
  <2> HIDE DEF A, f
  <2> QED
    BY <2>1, <2>2, <2>3, FiniteImage
<1>5. IsFiniteSet(PortRule(t))
  <2> DEFINE A == {h \in AddressOf(t) \cap xworld.listening :
                     Plan.goal \in {"recon", "services", "web", "full"} /\ Permitted(h)}
  <2>1. IsFiniteSet(A)
    BY <1>2, FS_Subset
  <2> DEFINE f == [h \in A |-> Task("service", h, h, <<"port">>)]
  <2>2. PortRule(t) = {f[h] : h \in A}
    BY DEF PortRule
  <2>3. DOMAIN f = A /\ f = [h \in A |-> f[h]]
    OBVIOUS
  <2> HIDE DEF A, f
  <2> QED
    BY <2>1, <2>2, <2>3, FiniteImage
<1>6. IsFiniteSet(WebRule(t))
  BY FS_Singleton, FS_EmptySet DEF WebRule
<1>7. IsFiniteSet(CertRule(t, depth))
  <2> DEFINE A == {n \in Some(xworld.san[t.at], Names) : Permitted(n)}
             B == {h \in Some(xworld.san[t.at], Hosts) : Permitted(h)}
             f == [n \in A |-> Task("dns", n, n, <<"san">>)]
             g == [h \in B |-> Task("host", h, h, <<"cert-san">>)]
             X == {f[n] : n \in A}
             Y == {g[h] : h \in B}
  <2>1. A \subseteq Names /\ B \subseteq Hosts
    BY <1>3
  <2>2. IsFiniteSet(A) /\ IsFiniteSet(B)
    BY <1>1, <2>1, FS_Subset
  <2>3. CertRule(t, depth) \in {{}, X \cup Y}
    BY DEF CertRule
  <2>4. DOMAIN f = A /\ f = [n \in A |-> f[n]] /\ DOMAIN g = B /\ g = [h \in B |-> g[h]]
    OBVIOUS
  <2> HIDE DEF A, B, f, g
  <2>6. IsFiniteSet(X) /\ IsFiniteSet(Y)
    BY <2>2, <2>4, FiniteImage
  <2> HIDE DEF X, Y
  <2>5. IsFiniteSet(X \cup Y)
    BY <2>6, FS_Union
  <2> QED
    BY <2>3, <2>5, FS_EmptySet
<1>8. IsFiniteSet(DnsRule(t, depth))
  <2> DEFINE A == {h \in Some(xworld.resolves[t.at], Hosts) : Permitted(h)}
             f == [h \in A |-> Task("host", h, h, <<"dns", t.at>>)]
             X == {f[h] : h \in A}
  <2>1. A \subseteq Hosts
    BY <1>3
  <2>2. IsFiniteSet(A)
    BY <1>1, <2>1, FS_Subset
  <2>3. DnsRule(t, depth) \in {{}, X}
    BY DEF DnsRule
  <2>4. DOMAIN f = A /\ f = [h \in A |-> f[h]]
    OBVIOUS
  <2> HIDE DEF A, f
  <2>5. IsFiniteSet(X)
    BY <2>2, <2>4, FiniteImage
  <2> QED
    BY <2>3, <2>5, FS_EmptySet
<1> HIDE DEF FollowUps
<1>9. FollowUps(t, depth) \in {HostRule(t), PortRule(t), WebRule(t) \cup CertRule(t, depth), DnsRule(t, depth), {}}
  BY DEF FollowUps
<1>10. IsFiniteSet(WebRule(t) \cup CertRule(t, depth))
  BY <1>6, <1>7, FS_Union
<1> QED
  BY <1>4, <1>5, <1>8, <1>9, <1>10, FS_EmptySet

\* What the follow-ups of a task can be, and where they go.
LEMMA FollowUpKinds ==
  ASSUME NEW t, NEW depth, NEW u \in FollowUps(t, depth)
  PROVE  /\ Permitted(u.at)
         /\ u.kind = "service" => u.source = <<"port">>
         /\ u.kind = "dns" => u.source = <<"san">> /\ t.kind = "service"
  BY DEF HostRule, Task, PortRule, WebRule, CertRule, DnsRule, FollowUps

\* Service tasks carry no depth and name tasks at most one, so the depth cuts
\* no follow-up off.
Shallow(t, depth) == (t.kind = "service" => depth = 0) /\ (t.kind = "dns" => depth \in {0, 1})

\* So what follows them is what follows at depth 0.
LEMMA ShallowFollowUps ==
  ASSUME NEW t, NEW depth, Shallow(t, depth)
  PROVE  FollowUps(t, depth) = FollowUps(t, 0)
  BY ExpansionAssumption DEF Shallow, DnsRule, FollowUps

\* The tasks of one name lead to the same.
LEMMA SameName ==
  ASSUME NEW t, NEW u, t.kind = "dns", u.kind = "dns", t.at = u.at
  PROVE  FollowUps(t, 0) = FollowUps(u, 0)
  BY DEF DnsRule, FollowUps

-----------------------------------------------------------------------------
(* Expansion: its invariant.                                               *)

Tasks == DOMAIN xadmitted

\* The tasks that are done and led to their follow-ups.
Spoke == {t \in xdone : t.kind = "dns" => t \in xheard}

\* A set of admitted tasks with the seeds and what those of its members led to.
Supported(S) ==
  /\ S \subseteq Tasks /\ Lowered(Plan) \subseteq S
  /\ \A t \in S \cap Spoke : FollowUps(t, 0) \cap Tasks \subseteq S

\* The budget and the scope hold; what is done has had its follow-ups admitted
\* unless the budget refused some; and every task goes back to a seed.
TreeInv ==
  /\ xworld \in Worlds
  /\ IsFiniteSet(Tasks) /\ Cardinality(Tasks) <= MaxTasks
  /\ Lowered(Plan) \subseteq Tasks
  /\ xdone \subseteq Tasks /\ xfailed \subseteq Tasks /\ xdone \cap xfailed = {}
  /\ xtruncated \in BOOLEAN
  /\ \A t \in Tasks : Permitted(t.at) /\ Shallow(t, xadmitted[t].depth)
  /\ ~ xtruncated => \A t \in Spoke : FollowUps(t, 0) \subseteq Tasks
  /\ \A S \in SUBSET Tasks : Supported(S) => S = Tasks

\* The registry of names: what was asked for is on the way of a name that
\* counts; a name that counts was heard, or shares its way with another one;
\* and a name task that made no claim never can.
NamesInv ==
  /\ xresolving \subseteq Tasks /\ xheard \subseteq xresolving
  /\ \A t \in xresolving : t.kind = "dns" /\ (t.at \in xclaimed \/ ~ DomainGrants(t.at))
  /\ \A t \in xdone : t.kind = "dns" => t \in xresolving
  /\ IsFiniteSet(xclaimed)
  /\ \A n \in xclaimed : Cardinality(InDomain(n)) <= PerDomain[Plan.level]
  /\ \A n \in xasked : \E m \in xclaimed : n \in Range(Path(m))
  /\ \A n \in xclaimed : \/ \E t \in xheard : t.at = n
                         \/ \E m \in xclaimed \ {n} : Range(Path(m)) \cap Range(Path(n)) # {}

ExpansionInv == TreeInv /\ NamesInv

\* The seeds alone.
LEMMA ExpansionInvInit == ExpInit => ExpansionInv
<1> SUFFICES ASSUME ExpInit PROVE TreeInv /\ NamesInv
  BY DEF ExpansionInv
<1>1. xworld \in Worlds /\ Tasks = Lowered(Plan) /\ \A t \in Tasks : xadmitted[t].depth = 0
  BY DEF ExpInit, Plan, Tasks
<1>2. xdone = {} /\ xfailed = {} /\ xasked = {} /\ xtruncated = FALSE /\ Spoke = {}
  BY DEF ExpInit, Spoke
<1>3. IsFiniteSet(Tasks) /\ Cardinality(Tasks) <= MaxTasks
  BY <1>1, WorldAssumption DEF WorldType, Plan
<1>4. \A t \in Tasks : Permitted(t.at)
  BY <1>1, LoweredPermitted DEF Permitted
<1>5. \A t \in Tasks : Shallow(t, xadmitted[t].depth)
  BY <1>1 DEF Shallow
<1>6. \A S \in SUBSET Tasks : Supported(S) => S = Tasks
  BY <1>1 DEF Supported
<1>7. TreeInv
  BY <1>1, <1>2, <1>3, <1>4, <1>5, <1>6 DEF TreeInv
<1>8. NamesInv
  BY FS_EmptySet DEF ExpInit, NamesInv
<1> QED
  BY <1>7, <1>8

\* A task completes.
LEMMA CompleteKeeps ==
  ASSUME TreeInv, NEW t \in Waiting, Complete(t)
  PROVE  TreeInv'
<1> DEFINE depth == xadmitted[t].depth
           silent == t.kind = "dns" /\ t \notin xheard
           proposed == IF silent THEN {} ELSE FollowUps(t, depth)
           fresh == Fresh(proposed)
           room == MaxTasks - Cardinality(Tasks)
<1>1. PICK taken \in SUBSET fresh :
        /\ Cardinality(taken) = (IF Cardinality(fresh) < room THEN Cardinality(fresh) ELSE room)
        /\ xadmitted' = [u \in Tasks \cup taken |->
                           IF u \in Tasks THEN xadmitted[u]
                           ELSE [depth |-> ChildDepth(u, depth), hops |-> ChildHops(u, xadmitted[t].hops)]]
        /\ xtruncated' = (xtruncated \/ taken # fresh)
  BY DEF Complete, Tasks
<1>2. xdone' = xdone \cup {t} /\ xfailed' = xfailed /\ xworld' = xworld /\ xheard' = xheard
  BY DEF Complete, DoneWith
<1>3. t \in Tasks /\ t \notin xdone /\ t \notin xfailed
  BY DEF Waiting, Tasks
<1>4. Tasks' = Tasks \cup taken /\ taken \cap Tasks = {}
  BY <1>1 DEF Tasks, Fresh
<1>5. FollowUps(t, depth) = FollowUps(t, 0)
  BY <1>3, ShallowFollowUps DEF TreeInv
<1>6. taken \subseteq proposed /\ proposed \subseteq FollowUps(t, 0)
  BY <1>1, <1>5 DEF Fresh
<1>7. \A u, d : (FollowUps(u, d))' = FollowUps(u, d) /\ Plan' = Plan /\ Permitted(u)' = Permitted(u)
  BY <1>2, SMTT(40) DEF FollowUps, HostRule, PortRule, WebRule, CertRule, DnsRule, AddressOf, Some,
                        Plan, Permitted, Deep, PortEligible
<1>8. IsFiniteSet(Tasks') /\ Cardinality(Tasks') <= MaxTasks
  <2>1. IsFiniteSet(fresh)
    BY FS_Subset, FollowUpsFinite, FS_EmptySet DEF Fresh
  <2>2. IsFiniteSet(taken) /\ IsFiniteSet(Tasks)
    BY <2>1, FS_Subset DEF TreeInv
  <2>3. /\ IsFiniteSet(Tasks \cup taken) /\ Cardinality(Tasks \cup taken) = Cardinality(Tasks) + Cardinality(taken)
        /\ Cardinality(Tasks) \in Nat /\ Cardinality(taken) \in Nat
    BY <1>4, <2>2, DisjointCount
  <2>4. Cardinality(fresh) \in Nat
    BY <2>1, FS_CardinalityType
  <2>5. MaxTasks \in Nat
    BY ExpansionAssumption
  <2>6. Cardinality(taken) <= room
    BY <1>1, <2>3, <2>4, <2>5
  <2>7. Cardinality(Tasks) + Cardinality(taken) <= MaxTasks
    BY <2>3, <2>5, <2>6
  <2> QED
    BY <1>4, <2>3, <2>7
<1>9. Lowered(Plan)' = Lowered(Plan)
  BY <1>7
<1>10. Lowered(Plan)' \subseteq Tasks' /\ xdone' \subseteq Tasks' /\ xfailed' \subseteq Tasks' /\ (xdone \cap xfailed)' = {}
  BY <1>2, <1>3, <1>4, <1>9 DEF TreeInv
<1>11. \A u \in Tasks' : Permitted(u.at)'
  BY <1>4, <1>6, <1>7, FollowUpKinds DEF TreeInv
<1>12. \A u \in Tasks' : Shallow(u, xadmitted'[u].depth)
  BY <1>1, <1>3, <1>4, <1>6, FollowUpKinds DEF TreeInv, Shallow, ChildDepth, ByEvidence
<1>13. Spoke' = IF silent THEN Spoke ELSE Spoke \cup {t}
  BY <1>2 DEF Spoke
<1>14. ~ xtruncated' => \A u \in Spoke' : FollowUps(u, 0) \subseteq Tasks'
  <2> SUFFICES ASSUME ~ xtruncated', NEW u \in Spoke' PROVE FollowUps(u, 0) \subseteq Tasks'
    OBVIOUS
  <2>1. ~ xtruncated /\ taken = fresh
    BY <1>1 DEF TreeInv
  <2>2. CASE u \in Spoke
    BY <1>4, <2>1, <2>2 DEF TreeInv
  <2>3. CASE u = t /\ ~ silent
    BY <1>4, <1>5, <2>1, <2>3 DEF Fresh, Tasks
  <2> QED
    BY <1>13, <2>2, <2>3
<1>15. ASSUME NEW S \in SUBSET Tasks', Supported(S)' PROVE S = Tasks'
  <2> DEFINE X == S \cap Tasks
  <2>1. Lowered(Plan) \subseteq S /\ \A u \in S \cap Spoke' : FollowUps(u, 0) \cap Tasks' \subseteq S
    BY <1>7, <1>9, <1>15 DEF Supported
  <2>2. Spoke \subseteq Spoke'
    BY <1>13
  <2>3. Supported(X)
    BY <1>4, <2>1, <2>2 DEF Supported, TreeInv
  <2>4. X = Tasks
    BY <2>3 DEF TreeInv
  <2>5. taken \subseteq S
    BY <1>3, <1>4, <1>6, <1>13, <2>1, <2>4
  <2> QED
    BY <1>4, <2>4, <2>5
<1>16. xworld' \in Worlds /\ xtruncated' \in BOOLEAN
  BY <1>1, <1>2 DEF TreeInv
<1> HIDE DEF depth, silent, proposed, fresh, room
<1>17. ~ xtruncated' => \A u \in Spoke' : FollowUps(u, 0)' \subseteq Tasks'
  BY <1>7, <1>14
<1> QED
  BY <1>8, <1>10, <1>11, <1>12, <1>15, <1>16, <1>17 DEF TreeInv

\* A step that completes no task leaves the tree of tasks as it is.
LEMMA OthersKeep ==
  ASSUME TreeInv, xworld' = xworld, xadmitted' = xadmitted, xdone' = xdone, xtruncated' = xtruncated,
         xfailed' \subseteq Tasks, xdone \cap xfailed' = {}, Spoke' = Spoke
  PROVE  TreeInv'
<1>1. \A u, d : (FollowUps(u, d))' = FollowUps(u, d) /\ Plan' = Plan /\ Permitted(u)' = Permitted(u)
  BY DEF FollowUps, HostRule, PortRule, WebRule, CertRule, DnsRule, AddressOf, Some, Plan, Permitted, Deep, PortEligible
<1>2. Tasks' = Tasks
  BY DEF Tasks
<1>3. Lowered(Plan)' = Lowered(Plan)
  BY <1>1
<1>4. \A S : Supported(S)' <=> Supported(S)
  BY <1>1, <1>2, <1>3 DEF Supported
<1>5. \A S \in SUBSET Tasks' : Supported(S)' => S = Tasks'
  BY <1>2, <1>4 DEF TreeInv
<1>6. ~ xtruncated' => \A u \in Spoke' : FollowUps(u, 0)' \subseteq Tasks'
  BY <1>1, <1>2 DEF TreeInv
<1>7. \A u \in Tasks' : Permitted(u.at)' /\ Shallow(u, xadmitted'[u].depth)
  BY <1>1, <1>2 DEF TreeInv
<1>8. IsFiniteSet(Tasks') /\ Cardinality(Tasks') <= MaxTasks
  BY <1>2 DEF TreeInv
<1>9. Lowered(Plan)' \subseteq Tasks' /\ xdone' \subseteq Tasks' /\ xfailed' \subseteq Tasks' /\ (xdone \cap xfailed)' = {}
  BY <1>2, <1>3 DEF TreeInv
<1>10. xworld' \in Worlds /\ xtruncated' \in BOOLEAN
  BY DEF TreeInv
<1> QED
  BY <1>5, <1>6, <1>7, <1>8, <1>9, <1>10 DEF TreeInv

\* A step that claims nothing leaves the registry of names as it is.
LEMMA NamesKept ==
  ASSUME NamesInv, Tasks \subseteq Tasks', xworld' = xworld,
         UNCHANGED <<xasked, xclaimed, xresolving, xheard>>,
         \A t \in xdone' : t \in xdone \/ (t.kind = "dns" => t \in xresolving)
  PROVE  NamesInv'
<1>1. \A n : /\ InDomain(n)' = InDomain(n) /\ DomainGrants(n)' = DomainGrants(n) /\ Path(n)' = Path(n)
             /\ PerDomain[Plan.level]' = PerDomain[Plan.level]
  BY DEF InDomain, DomainGrants, Path, Plan
<1>2. \A t \in xresolving' : t.kind = "dns" /\ (t.at \in xclaimed' \/ ~ DomainGrants(t.at)')
  BY <1>1 DEF NamesInv
<1>3. xresolving' \subseteq Tasks' /\ xheard' \subseteq xresolving' /\ \A t \in xdone' : t.kind = "dns" => t \in xresolving'
  BY DEF NamesInv
<1>4. IsFiniteSet(xclaimed') /\ \A n \in xclaimed' : Cardinality(InDomain(n)') <= PerDomain[Plan.level]'
  BY <1>1 DEF NamesInv
<1>5. \A n \in xasked' : \E m \in xclaimed' : n \in Range(Path(m)')
  BY <1>1 DEF NamesInv
<1>6. \A n \in xclaimed' : \/ \E t \in xheard' : t.at = n
                           \/ \E m \in xclaimed' \ {n} : Range(Path(m)') \cap Range(Path(n)') # {}
  BY <1>1 DEF NamesInv
<1> QED
  BY <1>2, <1>3, <1>4, <1>5, <1>6 DEF NamesInv

\* What a domain refuses it refuses from then on.
LEMMA RefusalsStay ==
  ASSUME IsFiniteSet(xclaimed), xworld \in Worlds, xworld' = xworld,
         NEW c, DomainGrants(c), xclaimed' = xclaimed \cup {c},
         NEW n, n \notin xclaimed, ~ DomainGrants(n)
  PROVE  n \notin xclaimed' /\ ~ DomainGrants(n)'
<1> DEFINE dom == xworld.domain
           Keys(S) == {dom[m] : m \in S}
<1>1. Plan' = Plan /\ Plan.level \in 1 .. 5 /\ PerDomain[Plan.level] \in Nat \ {0} /\ MaxDomains \in Nat
  BY WorldAssumption, ExpansionAssumption DEF WorldType, Plan
<1>2. n # c
  OBVIOUS
<1>3. IsFiniteSet(xclaimed')
  BY FS_AddElement
<1>4. CASE InDomain(n) # {}
  <2>1. InDomain(n) \subseteq InDomain(n)' /\ InDomain(n)' \subseteq xclaimed' /\ InDomain(n) \subseteq xclaimed
    BY DEF InDomain
  <2>2. /\ IsFiniteSet(InDomain(n)') /\ Cardinality(InDomain(n)) <= Cardinality(InDomain(n)')
        /\ Cardinality(InDomain(n)) \in Nat /\ Cardinality(InDomain(n)') \in Nat
    BY <1>3, <2>1, FS_Subset, FS_CardinalityType
  <2>3. ~ (Cardinality(InDomain(n)) < PerDomain[Plan.level]) /\ InDomain(n)' # {}
    BY <1>4, <2>1 DEF DomainGrants
  <2>4. ~ (Cardinality(InDomain(n)') < PerDomain[Plan.level])
    BY <1>1, <2>2, <2>3
  <2>5. n \notin xclaimed'
    BY <1>2
  <2> QED
    BY <1>1, <2>3, <2>4, <2>5 DEF DomainGrants
<1>5. CASE InDomain(n) = {}
  <2>1. ~ (Cardinality(Keys(xclaimed)) < MaxDomains)
    BY <1>5 DEF DomainGrants
  <2>2. dom[c] # dom[n]
    <3> SUFFICES ASSUME dom[c] = dom[n] PROVE FALSE
      OBVIOUS
    <3>1. InDomain(c) = {} /\ c \notin xclaimed
      BY <1>5 DEF InDomain
    <3> QED
      BY <2>1, <3>1 DEF DomainGrants
  <2>3. InDomain(n)' = {}
    BY <1>5, <2>2 DEF InDomain
  <2>4. Keys(xclaimed) \subseteq Keys(xclaimed')
    OBVIOUS
  <2>5. IsFiniteSet(Keys(xclaimed'))
    <3> DEFINE f == [m \in xclaimed' |-> dom[m]]
    <3>1. Keys(xclaimed') = {f[m] : m \in xclaimed'} /\ DOMAIN f = xclaimed' /\ f = [m \in xclaimed' |-> f[m]]
      OBVIOUS
    <3> HIDE DEF f, Keys
    <3> QED
      BY <1>3, <3>1, FiniteImage
  <2> HIDE DEF Keys
  <2>6. /\ Cardinality(Keys(xclaimed)) <= Cardinality(Keys(xclaimed'))
        /\ Cardinality(Keys(xclaimed)) \in Nat /\ Cardinality(Keys(xclaimed')) \in Nat
    BY <2>4, <2>5, FS_Subset, FS_CardinalityType
  <2>7. ~ (Cardinality(Keys(xclaimed')) < MaxDomains)
    BY <1>1, <2>1, <2>6
  <2>8. n \notin xclaimed'
    BY <1>2
  <2> USE DEF Keys
  <2> QED
    BY <2>3, <2>7, <2>8 DEF DomainGrants
<1> QED
  BY <1>4, <1>5

\* A name counts in its domain as far as there is room.
LEMMA DomainKept ==
  ASSUME IsFiniteSet(xclaimed), xworld \in Worlds, xworld' = xworld,
         \A n \in xclaimed : Cardinality(InDomain(n)) <= PerDomain[Plan.level],
         NEW c, DomainGrants(c), c \notin xclaimed, xclaimed' = xclaimed \cup {c}
  PROVE  \A n \in xclaimed' : Cardinality(InDomain(n)') <= PerDomain[Plan.level]
<1> SUFFICES ASSUME NEW n \in xclaimed' PROVE Cardinality(InDomain(n)') <= PerDomain[Plan.level]
  OBVIOUS
<1>1. Plan.level \in 1 .. 5 /\ PerDomain[Plan.level] \in Nat \ {0}
  BY WorldAssumption, ExpansionAssumption DEF WorldType, Plan
<1>2. CASE xworld.domain[c] # xworld.domain[n]
  <2>1. InDomain(n)' = InDomain(n) /\ n \in xclaimed
    BY <1>2 DEF InDomain
  <2> QED
    BY <2>1
<1>3. CASE xworld.domain[c] = xworld.domain[n]
  <2>1. InDomain(n)' = InDomain(c) \cup {c} /\ c \notin InDomain(c) /\ InDomain(c) \subseteq xclaimed
    BY <1>3 DEF InDomain
  <2>2. IsFiniteSet(InDomain(c)) /\ Cardinality(InDomain(c)) \in Nat
    BY <2>1, FS_Subset, FS_CardinalityType
  <2>3. Cardinality(InDomain(n)') = Cardinality(InDomain(c)) + 1
    BY <2>1, <2>2, FS_AddElement
  <2>4. CASE InDomain(c) = {}
    BY <1>1, <2>3, <2>4, FS_EmptySet
  <2>5. CASE InDomain(c) # {}
    <3>1. Cardinality(InDomain(c)) < PerDomain[Plan.level]
      BY <2>5 DEF DomainGrants
    <3> QED
      BY <1>1, <2>2, <2>3, <3>1
  <2> QED
    BY <2>4, <2>5
<1> QED
  BY <1>2, <1>3

\* The way of a name is a sequence.
LEMMA PathSeq ==
  ASSUME xworld \in Worlds, NEW n
  PROVE  \E k \in Nat : DOMAIN Path(n) = 1 .. k
<1>1. xworld.alias \in [Names -> Seq(Names)]
  BY WorldAssumption DEF WorldType
<1>2. CASE n \in Names
  <2>1. <<n>> \in Seq(Names) /\ xworld.alias[n] \in Seq(Names)
    BY <1>1, <1>2
  <2>2. Path(n) \in Seq(Names)
    BY <1>2, <2>1 DEF Path
  <2> QED
    BY <2>2
<1>3. CASE n \notin Names
  BY <1>3 DEF Path
<1> QED
  BY <1>2, <1>3

\* A name task makes its claims.
LEMMA ResolveKeeps ==
  ASSUME TreeInv, NamesInv, NEW t \in Waiting, Resolve(t)
  PROVE  NamesInv'
<1> DEFINE path == Path(t.at)
           unasked == {i \in DOMAIN path : \A j \in 1 .. i : path[j] \notin xasked}
<1>1. /\ t \in Tasks /\ t.kind = "dns" /\ xresolving' = xresolving \cup {t}
      /\ xworld' = xworld /\ xdone' = xdone /\ xworld \in Worlds /\ Tasks' = Tasks
  BY DEF Resolve, Waiting, Tasks, TreeInv
<1>2. IF DomainGrants(t.at)
      THEN /\ xclaimed' = xclaimed \cup {t.at} /\ xasked' = xasked \cup {path[i] : i \in unasked}
           /\ xheard' = IF unasked = DOMAIN path THEN xheard \cup {t} ELSE xheard
      ELSE xclaimed' = xclaimed /\ xasked' = xasked /\ xheard' = xheard
  BY DEF Resolve
<1>3. \A n : Path(n)' = Path(n) /\ PerDomain[Plan.level]' = PerDomain[Plan.level]
  BY <1>1 DEF Path, Plan
<1>4. \A n : n \in Range(path) <=> \E i \in DOMAIN path : path[i] = n
  BY DEF Range
<1> HIDE DEF path, unasked
<1>5. \A n : xclaimed' = xclaimed => InDomain(n)' = InDomain(n) /\ DomainGrants(n)' = DomainGrants(n)
  BY <1>1 DEF InDomain, DomainGrants, Plan
<1>6. xresolving' \subseteq Tasks' /\ xheard' \subseteq xresolving' /\ \A u \in xdone' : u.kind = "dns" => u \in xresolving'
  BY <1>1, <1>2 DEF NamesInv
<1>7. IsFiniteSet(xclaimed')
  BY <1>2, FS_AddElement DEF NamesInv
<1>8. \A n \in xclaimed' : Cardinality(InDomain(n)') <= PerDomain[Plan.level]'
  <2>1. CASE xclaimed' = xclaimed
    BY <1>3, <1>5, <2>1 DEF NamesInv
  <2>2. CASE xclaimed' # xclaimed
    BY <1>1, <1>2, <1>3, <2>2, DomainKept DEF NamesInv
  <2> QED
    BY <2>1, <2>2
<1>9. \A u \in xresolving' : u.kind = "dns" /\ (u.at \in xclaimed' \/ ~ DomainGrants(u.at)')
  <2> SUFFICES ASSUME NEW u \in xresolving' PROVE u.at \in xclaimed' \/ ~ DomainGrants(u.at)'
    BY <1>1 DEF NamesInv
  <2>1. CASE xclaimed' = xclaimed
    BY <1>1, <1>2, <1>5, <2>1 DEF NamesInv
  <2>2. CASE xclaimed' # xclaimed /\ u = t
    BY <1>2, <2>2
  <2>3. CASE xclaimed' # xclaimed /\ u \in xresolving
    BY <1>1, <1>2, <2>3, RefusalsStay DEF NamesInv
  <2> QED
    BY <1>1, <2>1, <2>2, <2>3
<1>10. \A n \in xasked' : \E m \in xclaimed' : n \in Range(Path(m)')
  <2> SUFFICES ASSUME NEW n \in xasked' PROVE \E m \in xclaimed' : n \in Range(Path(m))
    BY <1>3
  <2>1. CASE n \in xasked
    BY <1>2, <2>1 DEF NamesInv
  <2>2. CASE n \notin xasked
    <3>1. t.at \in xclaimed' /\ n \in Range(path)
      BY <1>2, <1>4, <2>2 DEF unasked
    <3> QED
      BY <3>1 DEF path
  <2> QED
    BY <2>1, <2>2
<1>11. ASSUME NEW n \in xclaimed'
       PROVE  \/ \E u \in xheard' : u.at = n
              \/ \E m \in xclaimed' \ {n} : Range(Path(m)) \cap Range(Path(n)) # {}
  <2>1. CASE n \in xclaimed
    BY <1>2, <2>1 DEF NamesInv
  <2>2. CASE n \notin xclaimed /\ unasked = DOMAIN path
    <3>1. n = t.at /\ t \in xheard'
      BY <1>2, <2>2
    <3> QED
      BY <3>1
  <2>3. CASE n \notin xclaimed /\ unasked # DOMAIN path
    <3>1. n = t.at
      BY <1>2, <2>3
    <3>2. PICK i \in DOMAIN path : i \notin unasked
      BY <2>3 DEF unasked
    <3>3. PICK j \in 1 .. i : path[j] \in xasked
      BY <3>2 DEF unasked
    <3>4. j \in DOMAIN path
      BY <1>1, <3>2, <3>3, PathSeq DEF path
    <3>5. PICK m \in xclaimed : path[j] \in Range(Path(m))
      BY <3>3 DEF NamesInv
    <3>6. path[j] \in Range(Path(n))
      BY <1>4, <3>1, <3>4 DEF path
    <3>7. m \in xclaimed' \ {n}
      BY <1>2, <2>3, <3>5
    <3> QED
      BY <3>5, <3>6, <3>7
  <2> QED
    BY <2>1, <2>2, <2>3
<1>12. \A n \in xclaimed' : \/ \E u \in xheard' : u.at = n
                            \/ \E m \in xclaimed' \ {n} : Range(Path(m)') \cap Range(Path(n)') # {}
  BY <1>3, <1>11
<1> QED
  BY <1>6, <1>7, <1>8, <1>9, <1>10, <1>12 DEF NamesInv

\* Every step keeps the invariant.
LEMMA ExpansionInvNext == ExpansionInv /\ [ExpNext]_expvars => ExpansionInv'
<1> SUFFICES ASSUME TreeInv, NamesInv, [ExpNext]_expvars PROVE TreeInv' /\ NamesInv'
  BY DEF ExpansionInv
<1>1. ASSUME NEW t \in Waiting, Complete(t) PROVE TreeInv' /\ NamesInv'
  <2>1. TreeInv'
    BY <1>1, CompleteKeeps
  <2>2. Tasks \subseteq Tasks'
    BY <1>1 DEF Complete, Tasks
  <2>3. /\ xworld' = xworld /\ UNCHANGED <<xasked, xclaimed, xresolving, xheard>>
        /\ \A u \in xdone' : u \in xdone \/ (u.kind = "dns" => u \in xresolving)
    BY <1>1 DEF Complete, DoneWith
  <2> QED
    BY <2>1, <2>2, <2>3, NamesKept
<1>2. ASSUME NEW t \in Waiting, Resolve(t) PROVE TreeInv' /\ NamesInv'
  <2>1. t \notin xdone /\ xdone' = xdone /\ xheard \subseteq xheard' /\ xheard' \subseteq xheard \cup {t}
    BY <1>2 DEF Resolve, Waiting
  <2>2. Spoke' = Spoke
    BY <2>1 DEF Spoke
  <2>3. /\ xworld' = xworld /\ xadmitted' = xadmitted /\ xtruncated' = xtruncated
        /\ xfailed' \subseteq Tasks /\ xdone \cap xfailed' = {}
    BY <1>2 DEF Resolve, TreeInv
  <2> QED
    BY <1>2, <2>1, <2>2, <2>3, OthersKeep, ResolveKeeps
<1>3. ASSUME NEW t \in Waiting, Fail(t) PROVE TreeInv' /\ NamesInv'
  <2>1. /\ xworld' = xworld /\ xadmitted' = xadmitted /\ xdone' = xdone /\ xtruncated' = xtruncated
        /\ xfailed' \subseteq Tasks /\ xdone \cap xfailed' = {} /\ UNCHANGED <<xasked, xclaimed, xresolving, xheard>>
    BY <1>3 DEF Fail, Waiting, TreeInv, Tasks
  <2>2. Spoke' = Spoke /\ Tasks' = Tasks
    BY <2>1 DEF Spoke, Tasks
  <2> QED
    BY <2>1, <2>2, OthersKeep, NamesKept
<1>4. CASE UNCHANGED expvars
  <2>1. /\ xworld' = xworld /\ xadmitted' = xadmitted /\ xdone' = xdone /\ xtruncated' = xtruncated
        /\ xfailed' \subseteq Tasks /\ xdone \cap xfailed' = {} /\ UNCHANGED <<xasked, xclaimed, xresolving, xheard>>
    BY <1>4 DEF expvars, TreeInv
  <2>2. Spoke' = Spoke /\ Tasks' = Tasks
    BY <2>1 DEF Spoke, Tasks
  <2> QED
    BY <2>1, <2>2, OthersKeep, NamesKept
<1> QED
  BY <1>1, <1>2, <1>3, <1>4 DEF ExpNext, ExpStep

\* Whatever evidence names an address or a name, every task of the scan goes
\* where the scope permits: the lowering and each rule ask for themselves.
THEOREM ExpansionStaysInScope == ExpSpec => []ExpInScope
<1>1. ExpansionInv => ExpInScope
  BY DEF ExpansionInv, TreeInv, ExpInScope, Tasks
<1> QED
  BY <1>1, ExpansionInvInit, ExpansionInvNext, PTL DEF ExpSpec

-----------------------------------------------------------------------------
(* Expansion: what the seeds lead to.                                      *)

\* One round: what is known, and what it leads to.
Round(known, failed) == known \cup UNION {FollowUps(t, 0) : t \in known \ failed}

\* The rounds up to the n-th, as Reached counts them.
RoundsUpTo(grow, n, failed) ==
  grow = [i \in 0 .. n |-> IF i = 0 THEN Lowered(Plan) ELSE Round(grow[i - 1], failed)]

\* There are as many rounds as one likes.
LEMMA RoundsExist ==
  ASSUME NEW failed, NEW n \in Nat
  PROVE  \E grow : RoundsUpTo(grow, n, failed)
<1> DEFINE S == {k \in Nat : \E grow : RoundsUpTo(grow, k, failed)}
<1> HIDE DEF Lowered, Round
<1>1. 0 \in S
  <2> DEFINE g == [i \in 0 .. 0 |-> Lowered(Plan)]
  <2>1. RoundsUpTo(g, 0, failed)
    BY DEF RoundsUpTo
  <2> QED
    BY <2>1
<1>2. ASSUME NEW k \in Nat, k \in S PROVE k + 1 \in S
  <2>1. PICK g : RoundsUpTo(g, k, failed)
    BY <1>2
  <2> DEFINE h == [i \in 0 .. k + 1 |-> IF i <= k THEN g[i] ELSE Round(g[k], failed)]
  <2>2. \A i \in 0 .. k : h[i] = g[i] /\ g[i] = IF i = 0 THEN Lowered(Plan) ELSE Round(g[i - 1], failed)
    BY <2>1 DEF RoundsUpTo
  <2>3. h[k + 1] = Round(h[k], failed)
    OBVIOUS
  <2>4. \A i \in 0 .. k + 1 : h[i] = IF i = 0 THEN Lowered(Plan) ELSE Round(h[i - 1], failed)
    <3> SUFFICES ASSUME NEW i \in 0 .. k + 1
                 PROVE  h[i] = IF i = 0 THEN Lowered(Plan) ELSE Round(h[i - 1], failed)
      OBVIOUS
    <3>1. CASE i = k + 1
      BY <2>3, <3>1
    <3>2. CASE i = 0
      <4>1. 0 \in 0 .. k
        OBVIOUS
      <4> QED
        BY <2>2, <3>2, <4>1
    <3>3. CASE i # 0 /\ i # k + 1
      <4>1. i \in 0 .. k /\ i - 1 \in 0 .. k
        BY <3>3
      <4> HIDE DEF h
      <4>2. h[i] = g[i] /\ h[i - 1] = g[i - 1] /\ g[i] = Round(g[i - 1], failed)
        BY <2>2, <3>3, <4>1
      <4> QED
        BY <3>3, <4>2
    <3> QED
      BY <3>1, <3>2, <3>3
  <2>5. h = [i \in 0 .. k + 1 |-> h[i]]
    OBVIOUS
  <2> HIDE DEF h
  <2>6. RoundsUpTo(h, k + 1, failed)
    BY <2>4, <2>5 DEF RoundsUpTo
  <2> QED
    BY <2>6
<1> HIDE DEF S
<1>3. Nat \subseteq S
  BY <1>1, <1>2, SetInduction
<1> QED
  BY <1>3 DEF S

\* The last round is what Reached means.
LEMMA ReachedRounds ==
  ASSUME NEW failed
  PROVE  \E grow : RoundsUpTo(grow, MaxTasks + 1, failed) /\ Reached(failed) = grow[MaxTasks + 1]
<1> DEFINE grow == CHOOSE g : RoundsUpTo(g, MaxTasks + 1, failed)
<1>1. MaxTasks + 1 \in Nat
  BY ExpansionAssumption
<1>2. RoundsUpTo(grow, MaxTasks + 1, failed)
  BY <1>1, RoundsExist
<1>3. Reached(failed) = grow[MaxTasks + 1]
  BY DEF Reached, RoundsUpTo, Round
<1> QED
  BY <1>2, <1>3

\* Without a refusal, no round finds a task that was not admitted.
LEMMA RoundsAdmitted ==
  ASSUME TreeInv, NamesInv, Waiting = {}, ~ xtruncated,
         NEW grow, NEW n \in Nat, RoundsUpTo(grow, n, Silent)
  PROVE  grow[n] \subseteq Tasks
<1> DEFINE S == {i \in Nat : i <= n => grow[i] \subseteq Tasks}
<1>1. 0 \in S
  BY DEF RoundsUpTo, TreeInv
<1>2. ASSUME NEW i \in Nat, i \in S PROVE i + 1 \in S
  <2> SUFFICES ASSUME i + 1 <= n PROVE grow[i + 1] \subseteq Tasks
    OBVIOUS
  <2>1. grow[i] \subseteq Tasks
    BY <1>2
  <2>2. i + 1 \in 0 .. n /\ i + 1 # 0 /\ (i + 1) - 1 = i
    OBVIOUS
  <2>3. grow[i + 1] = Round(grow[i], Silent)
    BY <2>2 DEF RoundsUpTo
  <2>4. ASSUME NEW t \in grow[i] \ Silent PROVE FollowUps(t, 0) \subseteq Tasks
    <3>1. t \in xdone /\ (t.kind = "dns" => t.at \in HeardNames)
      BY <2>1, <2>4 DEF Silent, Waiting, Tasks
    <3>2. CASE t.kind # "dns"
      BY <3>1, <3>2 DEF TreeInv, Spoke
    <3>3. CASE t.kind = "dns"
      <4>1. PICK u \in xheard \cap xdone : u.at = t.at
        BY <3>1, <3>3 DEF HeardNames
      <4>2. u.kind = "dns" /\ u \in Spoke
        BY <4>1 DEF NamesInv, Spoke
      <4>3. FollowUps(t, 0) = FollowUps(u, 0)
        BY <3>3, <4>1, <4>2, SameName
      <4> QED
        BY <4>2, <4>3 DEF TreeInv
    <3> QED
      BY <3>2, <3>3
  <2> QED
    BY <2>1, <2>3, <2>4 DEF Round
<1> HIDE DEF S
<1>3. Nat \subseteq S
  BY <1>1, <1>2, SetInduction
<1>4. n \in S /\ n <= n
  BY <1>3
<1> QED
  BY <1>4 DEF S

\* Each round finds one more of the tasks, until it has them all.
LEMMA RoundsCover ==
  ASSUME TreeInv, NEW grow, NEW n \in Nat, RoundsUpTo(grow, n, Silent)
  PROVE  Tasks \subseteq grow[n] \/ Cardinality(grow[n] \cap Tasks) >= n
<1> DEFINE Ahead(i) == Tasks \subseteq grow[i] \/ Cardinality(grow[i] \cap Tasks) >= i
           S == {i \in Nat : i <= n => Lowered(Plan) \subseteq grow[i] /\ Ahead(i)}
<1>1. \A X : IsFiniteSet(X \cap Tasks) /\ Cardinality(X \cap Tasks) \in Nat
  BY FS_Subset, FS_CardinalityType DEF TreeInv
<1>2. 0 \in S
  BY <1>1 DEF RoundsUpTo
<1>3. ASSUME NEW i \in Nat, i \in S PROVE i + 1 \in S
  <2> SUFFICES ASSUME i + 1 <= n PROVE Lowered(Plan) \subseteq grow[i + 1] /\ Ahead(i + 1)
    OBVIOUS
  <2>1. Lowered(Plan) \subseteq grow[i] /\ Ahead(i)
    BY <1>3
  <2>2. i + 1 \in 0 .. n /\ i + 1 # 0 /\ (i + 1) - 1 = i
    OBVIOUS
  <2>3. grow[i + 1] = Round(grow[i], Silent)
    BY <2>2 DEF RoundsUpTo
  <2>4. grow[i] \subseteq grow[i + 1]
    BY <2>3 DEF Round
  <2>5. CASE Tasks \subseteq grow[i]
    BY <2>1, <2>4, <2>5
  <2>6. CASE ~ (Tasks \subseteq grow[i])
    <3> DEFINE X == grow[i] \cap Tasks
    <3>1. Lowered(Plan) \subseteq X /\ X \subseteq Tasks /\ X # Tasks
      BY <2>1, <2>6 DEF TreeInv
    <3>2. ~ Supported(X)
      BY <3>1 DEF TreeInv
    <3>3. PICK t \in X \cap Spoke : ~ (FollowUps(t, 0) \cap Tasks \subseteq X)
      BY <3>1, <3>2 DEF Supported
    <3>4. PICK u \in FollowUps(t, 0) \cap Tasks : u \notin X
      BY <3>3
    <3>5. t \in grow[i] \ Silent
      BY <3>3 DEF TreeInv, Spoke, Silent, HeardNames
    <3>6. u \in grow[i + 1]
      BY <2>3, <3>4, <3>5 DEF Round
    <3>7. X \cup {u} \subseteq grow[i + 1] \cap Tasks
      BY <2>4, <3>4, <3>6
    <3>8. IsFiniteSet(X) /\ Cardinality(X) \in Nat /\ Cardinality(X) >= i
      BY <1>1, <2>1, <2>6
    <3>9. Cardinality(X \cup {u}) = Cardinality(X) + 1
      BY <3>4, <3>8, FS_AddElement
    <3>10. Cardinality(X \cup {u}) <= Cardinality(grow[i + 1] \cap Tasks)
      BY <1>1, <3>7, FS_Subset
    <3>11. Cardinality(grow[i + 1] \cap Tasks) \in Nat
      BY <1>1
    <3> HIDE DEF X
    <3>12. Cardinality(grow[i + 1] \cap Tasks) >= i + 1
      BY <3>8, <3>9, <3>10, <3>11
    <3> QED
      BY <2>1, <2>4, <3>12
  <2> QED
    BY <2>5, <2>6
<1> HIDE DEF S
<1>4. Nat \subseteq S
  BY <1>2, <1>3, SetInduction
<1>5. n \in S /\ n <= n
  BY <1>4
<1> QED
  BY <1>5 DEF S

\* A name task that completed was heard, by itself or through another task of
\* its name, or there is a reason why not.
LEMMA UnheardForAReason ==
  ASSUME TreeInv, NamesInv, Waiting = {}, NEW t \in xdone, t.kind = "dns"
  PROVE  t.at \in HeardNames \/ Unheard(t.at)
<1>1. t.at \in xclaimed \/ ~ DomainGrants(t.at)
  BY DEF NamesInv
<1>2. CASE t.at \notin xclaimed
  BY <1>1, <1>2 DEF Unheard
<1>3. CASE \E m \in xclaimed \ {t.at} : Range(Path(m)) \cap Range(Path(t.at)) # {}
  BY <1>3 DEF Unheard
<1>4. ASSUME NEW u \in xheard, u.at = t.at PROVE t.at \in HeardNames \/ Unheard(t.at)
  <2>1. u \in xresolving /\ (u \in xdone \/ u \in xfailed)
    BY <1>4 DEF NamesInv, Waiting, Tasks
  <2> QED
    BY <1>4, <2>1 DEF HeardNames, Unheard
<1> QED
  BY <1>2, <1>3, <1>4 DEF NamesInv

\* However the tasks of a scan are ordered and whichever fail: when all have
\* ended, those admitted are what the seeds and the evidence lead to, and all
\* of it if the budget refused nothing, up to the names that were not heard:
\* those refused by a domain that holds as many names as its limit allows, or
\* by a full table of domains, those whose task failed after its claims, and
\* those with a query that belongs to another name (dns.rs, DnsRegistry).
THEOREM ExpansionIsConfluent == ExpSpec => []ExpConfluent
<1>1. ExpansionInv => ExpConfluent
  <2> SUFFICES ASSUME TreeInv, NamesInv, Waiting = {}
               PROVE  /\ Tasks \subseteq Reached(Silent)
                      /\ ~ xtruncated => Tasks = Reached(Silent)
                      /\ \A t \in xdone : t.kind = "dns" => t.at \in HeardNames \/ Unheard(t.at)
                      /\ \A n \in xclaimed : Cardinality(InDomain(n)) <= PerDomain[Plan.level]
    BY DEF ExpConfluent, ExpansionInv, Tasks
  <2>1. PICK grow : /\ RoundsUpTo(grow, MaxTasks + 1, Silent)
                    /\ Reached(Silent) = grow[MaxTasks + 1]
    BY ReachedRounds
  <2>2. MaxTasks \in Nat /\ MaxTasks + 1 \in Nat
    BY ExpansionAssumption
  <2>3. /\ IsFiniteSet(grow[MaxTasks + 1] \cap Tasks)
        /\ Cardinality(grow[MaxTasks + 1] \cap Tasks) <= Cardinality(Tasks)
    BY FS_Subset DEF TreeInv
  <2>4. /\ Cardinality(grow[MaxTasks + 1] \cap Tasks) \in Nat
        /\ Cardinality(Tasks) \in Nat /\ Cardinality(Tasks) <= MaxTasks
    BY <2>3, FS_CardinalityType DEF TreeInv
  <2>5. Tasks \subseteq Reached(Silent)
    <3>1. Tasks \subseteq grow[MaxTasks + 1] \/ Cardinality(grow[MaxTasks + 1] \cap Tasks) >= MaxTasks + 1
      BY <2>1, <2>2, RoundsCover
    <3>2. ~ (Cardinality(grow[MaxTasks + 1] \cap Tasks) >= MaxTasks + 1)
      BY <2>2, <2>3, <2>4
    <3> QED
      BY <2>1, <3>1, <3>2
  <2>6. ~ xtruncated => Reached(Silent) \subseteq Tasks
    BY <2>1, <2>2, RoundsAdmitted
  <2>7. \A t \in xdone : t.kind = "dns" => t.at \in HeardNames \/ Unheard(t.at)
    BY UnheardForAReason
  <2>8. \A n \in xclaimed : Cardinality(InDomain(n)) <= PerDomain[Plan.level]
    BY DEF NamesInv
  <2> QED
    BY <2>5, <2>6, <2>7, <2>8
<1> QED
  BY <1>1, ExpansionInvInit, ExpansionInvNext, PTL DEF ExpSpec

-----------------------------------------------------------------------------
(* The hosts of the ranges.                                                *)

\* The tasks for single hosts of a range.
Spreads(tasks) == {t \in tasks : t.source = <<"cidr">> /\ t.at # t.label}

\* From so much room for hosts, tasks were made that leave rest of it.
Fills(tasks, room, rest) ==
  /\ rest \in Nat /\ IsFiniteSet(Spreads(tasks)) /\ Cardinality(Spreads(tasks)) \in Nat
  /\ Cardinality(Spreads(tasks)) + rest <= room

\* Tasks that are for no single host take no room.
LEMMA FitsNone ==
  ASSUME NEW tasks, NEW room \in Nat, Spreads(tasks) = {}
  PROVE  Fills(tasks, room, room)
  BY FS_EmptySet DEF Fills

\* What takes room after the other takes the sum.
LEMMA FitsBoth ==
  ASSUME NEW one, NEW other, NEW room \in Nat, NEW middle, NEW rest,
         Fills(one, room, middle), Fills(other, middle, rest)
  PROVE  Fills(one \cup other, room, rest)
<1> DEFINE S == Spreads(one)
           T == Spreads(other)
<1>1. Spreads(one \cup other) = S \cup T
  BY DEF Spreads
<1>2. /\ IsFiniteSet(S) /\ IsFiniteSet(T) /\ Cardinality(S) \in Nat /\ Cardinality(T) \in Nat
      /\ middle \in Nat /\ rest \in Nat /\ Cardinality(S) + middle <= room /\ Cardinality(T) + rest <= middle
  BY DEF Fills
<1> HIDE DEF S, T
<1>3. IsFiniteSet(S \cup T) /\ IsFiniteSet(S \cap T)
  BY <1>2, FS_Union, FS_Intersection
<1>4. Cardinality(S \cup T) = Cardinality(S) + Cardinality(T) - Cardinality(S \cap T)
  BY <1>2, FS_Union
<1>5. Cardinality(S \cup T) \in Nat /\ Cardinality(S \cap T) \in Nat
  BY <1>3, FS_CardinalityType
<1> DEFINE c == Cardinality(S \cup T)
           s == Cardinality(S)
           t == Cardinality(T)
           b == Cardinality(S \cap T)
<1>6. c = s + t - b /\ c \in Nat /\ s \in Nat /\ t \in Nat /\ b \in Nat /\ s + middle <= room /\ t + rest <= middle
  BY <1>2, <1>4, <1>5
<1> HIDE DEF c, s, t, b
<1>7. c + rest <= room
  BY <1>2, <1>6
<1> QED
  BY <1>1, <1>2, <1>3, <1>5, <1>7 DEF Fills, c

\* expand_cidr_bounded: no more hosts than there is room for.
LEMMA ExpandedFew ==
  ASSUME NEW plan, NEW target, target.hosts \in Seq(Hosts), NEW room \in Nat
  PROVE  /\ IsFiniteSet(Expanded(plan, target, room)) /\ Cardinality(Expanded(plan, target, room)) \in Nat
         /\ Cardinality(Expanded(plan, target, room)) <= room
<1> DEFINE hosts == target.hosts
           n == Len(hosts)
           N == {i \in DOMAIN hosts : hosts[i] \in plan.permitted}
           I == Firsts(N, room)
           f == [i \in I |-> hosts[i]]
<1>1. n \in Nat /\ DOMAIN hosts = 1 .. n
  BY LenProperties
<1>2. N \subseteq 1 .. n
  BY <1>1
<1>3. IsFiniteSet(I) /\ Cardinality(I) \in Nat /\ Cardinality(I) <= room
  BY <1>1, <1>2, FirstsFew
<1>4. Expanded(plan, target, room) = {f[i] : i \in I}
  BY DEF Expanded, Leading, Firsts
<1>5. DOMAIN f = I /\ f = [x \in I |-> f[x]]
  OBVIOUS
<1> DEFINE E == {f[i] : i \in I}
<1> HIDE DEF f, I
<1>6. IsFiniteSet(E) /\ Cardinality(E) <= Cardinality(I)
  BY <1>3, <1>5, FiniteImage
<1>7. Cardinality(E) \in Nat
  BY <1>6, FS_CardinalityType
<1> HIDE DEF E
<1>8. Cardinality(E) <= room
  BY <1>3, <1>6, <1>7
<1> QED
  BY <1>4, <1>6, <1>7, <1>8 DEF E

\* The tasks of one kind for hosts of a range.
LEMMA OfRangeFew ==
  ASSUME NEW kind, NEW target, NEW hosts, IsFiniteSet(hosts), NEW room \in Nat, Cardinality(hosts) \in Nat,
         Cardinality(hosts) <= room
  PROVE  Fills(OfRange(kind, target, hosts), room, room - Cardinality(hosts))
<1> DEFINE f == [h \in hosts |-> Task(kind, h, target.at, <<"cidr">>)]
           tasks == {f[h] : h \in hosts}
           S == Spreads(tasks)
<1>1. OfRange(kind, target, hosts) = tasks
  BY DEF OfRange
<1>2. DOMAIN f = hosts /\ f = [h \in hosts |-> f[h]]
  OBVIOUS
<1> HIDE DEF f
<1>3. IsFiniteSet(tasks) /\ Cardinality(tasks) <= Cardinality(hosts)
  BY <1>2, FiniteImage
<1> HIDE DEF tasks
<1>4. S \subseteq tasks
  BY DEF Spreads
<1> HIDE DEF S
<1>5. IsFiniteSet(S) /\ Cardinality(S) <= Cardinality(tasks) /\ Cardinality(S) \in Nat /\ Cardinality(tasks) \in Nat
  BY <1>3, <1>4, FS_Subset, FS_CardinalityType
<1>6. Cardinality(S) + (room - Cardinality(hosts)) <= room /\ room - Cardinality(hosts) \in Nat
  BY <1>3, <1>5
<1> QED
  BY <1>1, <1>5, <1>6 DEF Fills, S

\* A range scanned whole makes no task for a single host.
LEMMA WholeRangeNone ==
  ASSUME NEW plan, NEW target, NEW kind
  PROVE  Spreads(WholeRange(plan, target, kind)) = {}
  BY DEF Spreads, WholeRange, Task

\* One kind of a range.
LEMMA SpreadFew ==
  ASSUME NEW plan, NEW target, target.hosts \in Seq(Hosts), NEW kind, NEW room \in Nat
  PROVE  Fills(Spread(plan, target, kind, room).tasks, room, Spread(plan, target, kind, room).room)
  BY ExpandedFew, FS_EmptySet, FitsNone, OfRangeFew, WholeRangeNone DEF Spread

\* lower_cidr_target: all the tasks of a range.
LEMMA RangeFew ==
  ASSUME NEW plan, NEW target, target.hosts \in Seq(Hosts), NEW room \in Nat
  PROVE  Fills(LowerRange(plan, target, room).tasks, room, LowerRange(plan, target, room).room)
<1> DEFINE kinds == Eligible(plan)
           single(some) == UNION {WholeRange(plan, target, k) : k \in some}
           nothing == [tasks |-> {}, room |-> room]
           tcp == IF "port" \in kinds THEN Spread(plan, target, "port", room) ELSE nothing
           udp == IF "udp" \in kinds THEN Spread(plan, target, "udp", tcp.room) ELSE [nothing EXCEPT !.room = tcp.room]
           hosts == Expanded(plan, target, room)
           r == LowerRange(plan, target, room)
<1>1. \A some : Spreads(single(some)) = {}
  BY DEF Spreads, WholeRange, Task
<1>2. CASE "host" \in kinds
  <2>1. /\ r.tasks = OfRange("host", target, hosts) \cup single({"validate"})
        /\ r.room = room - Cardinality(hosts)
    BY <1>2 DEF LowerRange
  <2>2. IsFiniteSet(hosts) /\ Cardinality(hosts) \in Nat /\ Cardinality(hosts) <= room
    BY ExpandedFew
  <2>3. Fills(OfRange("host", target, hosts), room, r.room)
    BY <2>1, <2>2, OfRangeFew
  <2>4. r.room \in Nat
    BY <2>3 DEF Fills
  <2>5. Fills(single({"validate"}), r.room, r.room)
    BY <1>1, <2>4, FitsNone
  <2> HIDE DEF single, r, hosts
  <2>6. Fills(r.tasks, room, r.room)
    BY <2>1, <2>3, <2>5, FitsBoth
  <2> QED
    BY <2>6 DEF r
<1>3. CASE "host" \notin kinds
  <2>1. r.tasks = tcp.tasks \cup udp.tasks \cup single(kinds \ {"port", "udp"}) /\ r.room = udp.room
    BY <1>3 DEF LowerRange
  <2>2. Spreads({}) = {}
    BY DEF Spreads
  <2>3. Fills(tcp.tasks, room, tcp.room)
    BY <2>2, FitsNone, SpreadFew
  <2>4. tcp.room \in Nat
    BY <2>3 DEF Fills
  <2> HIDE DEF tcp
  <2>5. Fills(udp.tasks, tcp.room, udp.room)
    BY <2>2, <2>4, FitsNone, SpreadFew
  <2>6. udp.room \in Nat
    BY <2>5 DEF Fills
  <2> HIDE DEF udp
  <2>7. Fills(single(kinds \ {"port", "udp"}), udp.room, udp.room)
    BY <1>1, <2>6, FitsNone
  <2> HIDE DEF single, r, hosts, kinds
  <2>8. Fills(tcp.tasks \cup udp.tasks, room, udp.room)
    BY <2>3, <2>5, FitsBoth
  <2>9. Fills(r.tasks, room, r.room)
    <3> DEFINE others == single(kinds \ {"port", "udp"})
               spread == tcp.tasks \cup udp.tasks
    <3>1. r.tasks = spread \cup others /\ r.room = udp.room
      BY <2>1
    <3>2. Fills(spread, room, udp.room) /\ Fills(others, udp.room, udp.room)
      BY <2>7, <2>8
    <3> HIDE DEF others, spread
    <3> QED
      BY <3>1, <3>2, FitsBoth
  <2> QED
    BY <2>9 DEF r
<1> QED
  BY <1>2, <1>3

\* The room left after each of the first n targets.
RoomsUpTo(room, n, plan) ==
  room = [i \in 0 .. n |->
            IF i = 0 THEN IF plan.maxHosts = 0 THEN 1 ELSE plan.maxHosts
            ELSE IF plan.targets[i].form = "cidr" THEN LowerRange(plan, plan.targets[i], room[i - 1]).room
                 ELSE room[i - 1]]

\* The room left before each target exists as a function.
LEMMA RoomsExist ==
  ASSUME NEW plan, NEW n \in Nat
  PROVE  \E room : RoomsUpTo(room, n, plan)
<1> DEFINE S == {k \in Nat : \E room : RoomsUpTo(room, k, plan)}
           first == IF plan.maxHosts = 0 THEN 1 ELSE plan.maxHosts
           after(i, left) == IF plan.targets[i].form = "cidr" THEN LowerRange(plan, plan.targets[i], left).room ELSE left
<1>0. \A room, k : RoomsUpTo(room, k, plan) <=> room = [i \in 0 .. k |-> IF i = 0 THEN first ELSE after(i, room[i - 1])]
  BY DEF RoomsUpTo
<1> HIDE DEF first, after
<1>1. 0 \in S
  <2> DEFINE g == [i \in 0 .. 0 |-> first]
  <2>1. g = [i \in 0 .. 0 |-> IF i = 0 THEN first ELSE after(i, g[i - 1])]
    OBVIOUS
  <2> HIDE DEF g
  <2>2. RoomsUpTo(g, 0, plan)
    BY <1>0, <2>1
  <2> QED
    BY <2>2
<1>2. ASSUME NEW k \in Nat, k \in S PROVE k + 1 \in S
  <2>1. PICK g : RoomsUpTo(g, k, plan)
    BY <1>2
  <2>2. g = [i \in 0 .. k |-> IF i = 0 THEN first ELSE after(i, g[i - 1])]
    BY <1>0, <2>1
  <2> DEFINE h == [i \in 0 .. k + 1 |-> IF i <= k THEN g[i] ELSE after(k + 1, g[k])]
  <2>3. \A i \in 0 .. k : h[i] = g[i] /\ g[i] = IF i = 0 THEN first ELSE after(i, g[i - 1])
    BY <2>2
  <2>4. h[k + 1] = after(k + 1, h[k])
    OBVIOUS
  <2>5. \A i \in 0 .. k + 1 : h[i] = IF i = 0 THEN first ELSE after(i, h[i - 1])
    <3> SUFFICES ASSUME NEW i \in 0 .. k + 1
                 PROVE  h[i] = IF i = 0 THEN first ELSE after(i, h[i - 1])
      OBVIOUS
    <3>1. CASE i = k + 1
      BY <2>4, <3>1
    <3>2. CASE i = 0
      <4>1. 0 \in 0 .. k
        OBVIOUS
      <4> HIDE DEF h
      <4> QED
        BY <2>3, <3>2, <4>1
    <3>3. CASE i # 0 /\ i # k + 1
      BY <2>3, <3>3
    <3> QED
      BY <3>1, <3>2, <3>3
  <2>6. h = [i \in 0 .. k + 1 |-> h[i]]
    OBVIOUS
  <2> HIDE DEF h
  <2>7. h = [i \in 0 .. k + 1 |-> IF i = 0 THEN first ELSE after(i, h[i - 1])]
    BY <2>5, <2>6
  <2>8. RoomsUpTo(h, k + 1, plan)
    BY <1>0, <2>7
  <2> QED
    BY <2>8
<1> HIDE DEF S
<1>3. Nat \subseteq S
  BY <1>1, <1>2, SetInduction
<1> QED
  BY <1>3 DEF S

\* The tasks of one target.
LoweredOne(plan, room, i) ==
  IF plan.targets[i].form = "cidr" THEN LowerRange(plan, plan.targets[i], room[i - 1]).tasks
  ELSE {SeedOf(k, plan.targets[i]) : k \in Eligible(plan)}

\* A plan is lowered target by target.
LEMMA LoweredByTarget ==
  ASSUME NEW plan, Len(plan.targets) \in Nat
  PROVE  \E room : /\ RoomsUpTo(room, Len(plan.targets), plan)
                   /\ Lowered(plan) \subseteq UNION {LoweredOne(plan, room, i) : i \in 1 .. Len(plan.targets)}
<1> DEFINE room == CHOOSE r : RoomsUpTo(r, Len(plan.targets), plan)
<1>1. RoomsUpTo(room, Len(plan.targets), plan)
  BY RoomsExist
<1>2. Lowered(plan) \subseteq UNION {LoweredOne(plan, room, i) : i \in 1 .. Len(plan.targets)}
  BY DEF Lowered, RoomsUpTo, LoweredOne
<1> QED
  BY <1>1, <1>2

\* The first tasks of a plan are for no more single hosts than its budget.
LEMMA LoweredFew ==
  ASSUME NEW w \in Worlds
  PROVE  /\ IsFiniteSet(Spreads(Lowered(w.plan))) /\ Cardinality(Spreads(Lowered(w.plan))) \in Nat
         /\ Cardinality(Spreads(Lowered(w.plan))) <= w.plan.maxHosts
<1> DEFINE plan == w.plan
           n == Len(plan.targets)
           T == [form : {"addr", "name", "cidr"}, at : Hosts \cup Names, hosts : Seq(Hosts)]
<1>1. plan.targets \in Seq(T) /\ plan.maxHosts \in Nat /\ plan.maxHosts # 0
  BY WorldAssumption DEF WorldType
<1>2. n \in Nat /\ \A i \in 1 .. n : plan.targets[i].hosts \in Seq(Hosts)
  <2>1. n \in Nat /\ \A i \in 1 .. n : plan.targets[i] \in T
    BY <1>1, ElementOfSeq, LenProperties
  <2> QED
    BY <2>1
<1> HIDE DEF T
<1>3. PICK room : /\ RoomsUpTo(room, n, plan)
                  /\ Lowered(plan) \subseteq UNION {LoweredOne(plan, room, i) : i \in 1 .. n}
  BY <1>2, LoweredByTarget
<1> DEFINE upto(k) == UNION {LoweredOne(plan, room, i) : i \in 1 .. k}
           S == {k \in Nat : k <= n => Fills(upto(k), plan.maxHosts, room[k])}
<1>4. room[0] = plan.maxHosts
  BY <1>1, <1>2, <1>3 DEF RoomsUpTo
<1>5. 0 \in S
  BY <1>1, <1>4, FitsNone DEF Spreads
<1>6. ASSUME NEW k \in Nat, k \in S PROVE k + 1 \in S
  <2> SUFFICES ASSUME k + 1 <= n PROVE Fills(upto(k + 1), plan.maxHosts, room[k + 1])
    OBVIOUS
  <2>1. Fills(upto(k), plan.maxHosts, room[k])
    BY <1>2, <1>6
  <2>2. room[k] \in Nat
    BY <2>1 DEF Fills
  <2> DEFINE target == plan.targets[k + 1]
             one == LoweredOne(plan, room, k + 1)
  <2>3. k + 1 \in 1 .. n /\ k + 1 \in 0 .. n /\ k + 1 # 0 /\ (k + 1) - 1 = k
    BY <1>2
  <2>4. room[k + 1] = IF target.form = "cidr" THEN LowerRange(plan, target, room[k]).room ELSE room[k]
    BY <1>3, <2>3 DEF RoomsUpTo
  <2>5. one = IF target.form = "cidr" THEN LowerRange(plan, target, room[k]).tasks
              ELSE {SeedOf(q, target) : q \in Eligible(plan)}
    BY <2>3 DEF LoweredOne
  <2>6. upto(k + 1) = upto(k) \cup one
    BY DEF one
  <2>7. Fills(one, room[k], room[k + 1])
    BY <1>2, <2>2, <2>3, <2>4, <2>5, FitsNone, RangeFew DEF SeedOf, Task, Spreads
  <2> HIDE DEF upto, one, plan
  <2>8. Fills(upto(k) \cup one, plan.maxHosts, room[k + 1])
    BY <1>1, <2>1, <2>7, FitsBoth
  <2> QED
    BY <2>6, <2>8
<1> HIDE DEF S
<1>7. Nat \subseteq S
  BY <1>5, <1>6, SetInduction
<1>8. Fills(upto(n), plan.maxHosts, room[n])
  <2>1. n \in S
    BY <1>2, <1>7
  <2>2. n <= n
    BY <1>2
  <2> HIDE DEF upto, plan, n
  <2> QED
    BY <2>1, <2>2 DEF S
<1> DEFINE A == Spreads(Lowered(plan))
           B == Spreads(upto(n))
<1>9. A \subseteq B
  BY <1>3 DEF Spreads
<1>10. IsFiniteSet(B) /\ Cardinality(B) \in Nat /\ Cardinality(B) <= plan.maxHosts
  BY <1>1, <1>8 DEF Fills
<1> HIDE DEF A, B
<1>11. IsFiniteSet(A) /\ Cardinality(A) \in Nat /\ Cardinality(A) <= Cardinality(B)
  BY <1>9, <1>10, FS_Subset, FS_CardinalityType
<1> HIDE DEF plan
<1>12. Cardinality(A) <= plan.maxHosts
  BY <1>1, <1>10, <1>11
<1> QED
  BY <1>11, <1>12 DEF A, plan

-----------------------------------------------------------------------------
(* Expansion: depths and the hosts of the ranges stay within bounds.        *)

\* A task that evidence proposes comes from one below the limit, and none is
\* for a host of a range.
LEMMA FollowUpSources ==
  ASSUME NEW t, NEW depth, NEW u \in FollowUps(t, depth)
  PROVE  u.source # <<"cidr">> /\ (ByEvidence(u) => ~ (depth >= MaxDepth))
  BY DEF HostRule, Task, PortRule, WebRule, CertRule, DnsRule, FollowUps, ByEvidence

\* No task is deeper than the limit, and those for hosts of ranges are first
\* tasks.
DepthInv ==
  \A t \in Tasks : xadmitted[t].depth \in 0 .. MaxDepth /\ (t.source = <<"cidr">> => t \in Lowered(Plan))

\* The tasks of the plan itself are of depth 0,
LEMMA DepthInit == ExpInit => DepthInv
  BY ExpansionAssumption DEF ExpInit, Plan, Tasks, DepthInv

\* and what follows from them goes no deeper than the limit.
LEMMA DepthNext == DepthInv /\ [ExpNext]_expvars => DepthInv'
<1> SUFFICES ASSUME DepthInv, [ExpNext]_expvars PROVE DepthInv'
  OBVIOUS
<1>1. ASSUME xadmitted' = xadmitted, xworld' = xworld PROVE DepthInv'
  BY <1>1 DEF DepthInv, Tasks, Plan
<1>2. ASSUME NEW t \in Waiting, Complete(t) PROVE DepthInv'
  BY <1>2, ExpansionAssumption, FollowUpSources DEF Complete, Tasks, Waiting, DepthInv, Plan, Fresh, ChildDepth
<1> QED
  BY <1>1, <1>2 DEF ExpNext, ExpStep, Resolve, Fail, expvars

\* The parts of DecisionsWithinBounds about the expansion.
LEMMA ExpansionBounded ==
  ASSUME ExpansionInv, DepthInv
  PROVE  ExpTypeOK /\ SeedsWithinBudget
  BY FS_CardinalityType, FS_Subset, LoweredFew, WorldAssumption DEF ExpansionInv, TreeInv, NamesInv, DepthInv,
     ExpTypeOK, Tasks, Spreads, Plan, WorldType, SeedsWithinBudget

-----------------------------------------------------------------------------
(* The registry of contacts.                                               *)

\* The purposes, and that a crawl's is first.
LEMMA PurposesAre ==
  /\ Purposes = {"crawl", "primary", "synthetic", "content", "redirect", "fuzz"}
  /\ Rank \in [Purposes -> 1 .. 6] /\ Rank["crawl"] = 1
  /\ \A p \in Purposes : Rank[p] = 1 => p = "crawl"
  BY DEF Purposes, Rank

Claims == Urls \X Purposes

\* Addresses and claims are finitely many.
LEMMA ClaimsFinite == IsFiniteSet(Urls) /\ IsFiniteSet(Claims) /\ Urls \subseteq Nat
<1>1. IsFiniteSet(Urls) /\ Urls = 1 .. Cardinality(Urls) /\ Cardinality(Urls) \in Nat
  BY ContactsAssumption, FS_CardinalityType
<1>2. IsFiniteSet(Purposes)
  <2>1. Purposes \subseteq {"crawl", "primary", "synthetic", "content", "redirect", "fuzz"}
    BY PurposesAre
  <2>2. IsFiniteSet({"crawl"}) /\ IsFiniteSet({"primary"}) /\ IsFiniteSet({"synthetic"})
        /\ IsFiniteSet({"content"}) /\ IsFiniteSet({"redirect"}) /\ IsFiniteSet({"fuzz"})
    BY FS_Singleton
  <2>3. IsFiniteSet({"crawl"} \cup {"primary"}) /\ IsFiniteSet({"synthetic"} \cup {"content"})
        /\ IsFiniteSet({"redirect"} \cup {"fuzz"})
    BY <2>2, FS_Union
  <2>4. IsFiniteSet(({"crawl"} \cup {"primary"}) \cup ({"synthetic"} \cup {"content"}))
    BY <2>3, FS_Union
  <2>5. IsFiniteSet((({"crawl"} \cup {"primary"}) \cup ({"synthetic"} \cup {"content"})) \cup ({"redirect"} \cup {"fuzz"}))
    BY <2>3, <2>4, FS_Union
  <2>6. Purposes \subseteq (({"crawl"} \cup {"primary"}) \cup ({"synthetic"} \cup {"content"})) \cup ({"redirect"} \cup {"fuzz"})
    BY <2>1
  <2> QED
    BY <2>5, <2>6, FS_Subset
<1>3. IsFiniteSet(Claims)
  BY <1>1, <1>2, FS_Product DEF Claims
<1> QED
  BY <1>1, <1>3

\* What a registry is always: full when it holds the limit, and what an
\* address is remembered for are claims it holds; for a crawl if there was one.
RegistryOK(c) ==
  /\ c \in [exact : SUBSET Claims, by : [Urls -> Purposes \cup {"none"}], full : BOOLEAN]
  /\ c.full <=> Cardinality(c.exact) >= ContactsMax
  /\ \A u \in Urls : /\ c.by[u] = "crawl" <=> <<u, "crawl">> \in c.exact
                     /\ c.by[u] = "content" => <<u, "content">> \in c.exact

\* So the claims alone decide what is granted.
LEMMA GrantedByClaims ==
  ASSUME NEW c, RegistryOK(c), NEW u \in Urls, NEW p \in Purposes
  PROVE  Granted(c, u, p) <=> \/ c.full
                              \/ /\ <<u, p>> \notin c.exact
                                 /\ p = "content" => <<u, "crawl">> \notin c.exact
  BY DEF RegistryOK, Granted, Held

\* A new registry.
LEMMA NoContactsOK == RegistryOK(NoContacts)
  BY ContactsAssumption, FS_EmptySet DEF NoContacts, RegistryOK

\* restore: what was saved is granted and refused as before.
LEMMA RestoredOK ==
  ASSUME NEW exact \in SUBSET Claims
  PROVE  RegistryOK(Restored(exact)) /\ Restored(exact).exact = exact
         /\ (Restored(exact).full <=> Cardinality(exact) >= ContactsMax)
<1> DEFINE of(u) == {p \in Purposes : <<u, p>> \in exact}
           r == Restored(exact)
<1>1. /\ r.exact = exact /\ (r.full <=> Cardinality(exact) >= ContactsMax) /\ r.full \in BOOLEAN
      /\ DOMAIN r.by = Urls /\ r.by = [u \in Urls |-> r.by[u]]
      /\ r = [exact |-> r.exact, by |-> r.by, full |-> r.full]
  <2> DEFINE by == [u \in Urls |-> IF of(u) = {} THEN "none" ELSE CHOOSE p \in of(u) : \A q \in of(u) : Rank[p] <= Rank[q]]
             full == Cardinality(exact) >= ContactsMax
  <2>1. r = [exact |-> exact, by |-> by, full |-> full]
    BY Zenon DEF Restored
  <2>2. full \in BOOLEAN
    OBVIOUS
  <2>3. DOMAIN by = Urls /\ by = [u \in Urls |-> by[u]]
    OBVIOUS
  <2> HIDE DEF r, by, full
  <2>4. r.exact = exact /\ r.by = by /\ r.full = full
    BY <2>1
  <2>5. r.full <=> full
    BY <2>4, Zenon
  <2>6. r.full <=> Cardinality(exact) >= ContactsMax
    BY <2>5, Zenon DEF full
  <2>7. r = [exact |-> r.exact, by |-> r.by, full |-> r.full]
    BY <2>1, <2>4
  <2> QED
    BY <2>2, <2>3, <2>4, <2>6, <2>7
<1>2. \A u \in Urls : r.by[u] = IF of(u) = {} THEN "none" ELSE CHOOSE p \in of(u) : \A q \in of(u) : Rank[p] <= Rank[q]
  <2>1. r.by = [u \in Urls |-> IF of(u) = {} THEN "none" ELSE CHOOSE p \in of(u) : \A q \in of(u) : Rank[p] <= Rank[q]]
    BY Zenon DEF Restored
  <2> HIDE DEF r
  <2> QED
    BY <2>1, Zenon
<1>3. ASSUME NEW u \in Urls
      PROVE  /\ r.by[u] \in Purposes \cup {"none"}
             /\ r.by[u] # "none" => <<u, r.by[u]>> \in exact
             /\ <<u, "crawl">> \in exact => r.by[u] = "crawl"
  <2>1. CASE of(u) = {}
    BY <1>2, <2>1, PurposesAre
  <2>2. CASE of(u) # {}
    <3> DEFINE ranks == {Rank[p] : p \in of(u)}
               b == CHOOSE p \in of(u) : \A q \in of(u) : Rank[p] <= Rank[q]
    <3>1. ranks \subseteq Nat /\ ranks # {}
      <4>1. \A p \in of(u) : Rank[p] \in 1 .. 6
        BY PurposesAre
      <4>2. \A p \in of(u) : Rank[p] \in Nat
        BY <4>1
      <4> HIDE DEF of
      <4> QED
        BY <2>2, <4>2
    <3>2. PICK m \in ranks : \A n \in ranks : m <= n
      BY <3>1, Smallest
    <3>3. \E p \in of(u) : \A q \in of(u) : Rank[p] <= Rank[q]
      BY <3>2
    <3>4. b \in of(u) /\ \A q \in of(u) : Rank[b] <= Rank[q]
      BY <3>3
    <3>5. r.by[u] = b
      BY <1>2, <2>2
    <3> HIDE DEF b
    <3>6. b \in Purposes /\ <<u, b>> \in exact
      BY <3>4
    <3>7. ASSUME <<u, "crawl">> \in exact PROVE b = "crawl"
      BY <3>4, <3>6, <3>7, PurposesAre
    <3> QED
      BY <3>5, <3>6, <3>7
  <2> QED
    BY <2>1, <2>2
<1> HIDE DEF r, of
<1>4. r.by \in [Urls -> Purposes \cup {"none"}]
  BY <1>1, <1>3
<1>5. r \in [exact : SUBSET Claims, by : [Urls -> Purposes \cup {"none"}], full : BOOLEAN]
  BY <1>1, <1>4
<1>6. \A u \in Urls : /\ r.by[u] = "crawl" <=> <<u, "crawl">> \in r.exact
                      /\ r.by[u] = "content" => <<u, "content">> \in r.exact
  BY <1>1, <1>3
<1> QED
  BY <1>1, <1>5, <1>6 DEF RegistryOK, r

\* claim: one claim more, unless the registry is full.
LEMMA ClaimedOK ==
  ASSUME NEW c, RegistryOK(c), NEW u \in Urls, NEW p \in Purposes, Granted(c, u, p)
  PROVE  LET d == Claimed(c, u, p)
         IN  /\ RegistryOK(d)
             /\ c.full => d = c
             /\ ~ c.full => d.exact = c.exact \cup {<<u, p>>} /\ <<u, p>> \notin c.exact
<1> DEFINE d == Claimed(c, u, p)
<1>1. CASE c.full
  BY <1>1 DEF Claimed
<1>2. CASE ~ c.full
  <2> DEFINE by == IF p \in {"crawl", "content"} \/ c.by[u] = "none" THEN [c.by EXCEPT ![u] = p] ELSE c.by
             exact == c.exact \cup {<<u, p>>}
  <2>1. d = [exact |-> exact, by |-> by, full |-> Cardinality(c.exact) + 1 >= ContactsMax]
    BY <1>2 DEF Claimed
  <2>2. c.exact \in SUBSET Claims /\ c.by \in [Urls -> Purposes \cup {"none"}]
    BY DEF RegistryOK
  <2>3. <<u, p>> \notin c.exact /\ (p = "content" => <<u, "crawl">> \notin c.exact)
    BY <1>2, GrantedByClaims
  <2>4. <<u, p>> \in Claims
    BY DEF Claims
  <2>5. by \in [Urls -> Purposes \cup {"none"}]
    BY <2>2
  <2>6. Cardinality(exact) = Cardinality(c.exact) + 1
    BY <2>2, <2>3, ClaimsFinite, FS_AddElement, FS_Subset
  <2>7. \A v \in Urls : /\ c.by[v] = "crawl" <=> <<v, "crawl">> \in c.exact
                        /\ c.by[v] = "content" => <<v, "content">> \in c.exact
    BY DEF RegistryOK
  <2>8. ASSUME NEW v \in Urls
        PROVE  /\ by[v] = "crawl" <=> <<v, "crawl">> \in exact
               /\ by[v] = "content" => <<v, "content">> \in exact
    BY <2>2, <2>3, <2>7
  <2>9. exact \in SUBSET Claims
    BY <2>2, <2>4
  <2> HIDE DEF by, exact
  <2>13. d.full = (Cardinality(c.exact) + 1 >= ContactsMax)
    BY <2>1
  <2>14. d.full <=> Cardinality(exact) >= ContactsMax
    BY <2>6, <2>13, Zenon
  <2>15. d.full \in BOOLEAN
    <3>1. (Cardinality(c.exact) + 1 >= ContactsMax) \in BOOLEAN
      OBVIOUS
    <3> QED
      BY <2>13, <3>1, Zenon
  <2>10. d.exact = exact /\ d.by = by /\ (d.full <=> Cardinality(exact) >= ContactsMax) /\ d.full \in BOOLEAN
    <3>1. d.exact = exact /\ d.by = by
      BY <2>1
    <3> QED
      BY <2>14, <2>15, <3>1, Zenon
  <2>11. d \in [exact : SUBSET Claims, by : [Urls -> Purposes \cup {"none"}], full : BOOLEAN]
    BY <2>1, <2>5, <2>9
  <2> HIDE DEF d
  <2>12. RegistryOK(d)
    BY <2>8, <2>10, <2>11 DEF RegistryOK
  <2> QED
    BY <1>2, <2>3, <2>10, <2>12 DEF d, exact
<1> QED
  BY <1>1, <1>2

-----------------------------------------------------------------------------
(* Requests.                                                               *)

Sent == Purposes \ {"synthetic"}
Requests == [at : Urls, purpose : Sent, hop : Nat, visited : SUBSET Urls]
Runs == [req : Requests, todo : Seq(Urls), found : Seq(Urls), open : BOOLEAN]

\* What was claimed was requested, once while the registry kept its claims.
FetchesOK(c, fetches) ==
  /\ fetches \in [Claims -> Nat]
  /\ \A x \in Urls \X Sent : /\ x \in c.exact => fetches[x] >= 1
                             /\ ~ c.full => fetches[x] = IF x \in c.exact THEN 1 ELSE 0

\* What the assumption says of the site that was chosen.
LEMMA SiteFacts ==
  ASSUME wsite \in Sites
  PROVE  /\ wsite.answer \in [Urls -> Urls \cup {0}] /\ wsite.links \in [Urls -> Seq(Urls)]
         /\ wsite.words \in Seq(Urls) /\ wsite.words # <<>> /\ wsite.permitted \subseteq Urls
         /\ wsite.depth \in Nat /\ wsite.pages \in Nat /\ 0 \notin Urls /\ 1 \in Urls
<1>1. SiteType(wsite)
  BY SurveyAssumption
<1>2. 0 \notin Urls /\ 1 \in Urls
  <2>1. Urls = 1 .. Cardinality(Urls) /\ 1 \in Urls
    BY ContactsAssumption
  <2>2. 0 \notin 1 .. Cardinality(Urls)
    OBVIOUS
  <2> QED
    BY <2>1, <2>2, Zenon
<1> QED
  BY <1>1, <1>2 DEF SiteType

\* A hop asks the scope and the registry, and counts what it sends.
LEMMA HopKeeps ==
  ASSUME wsite \in Sites, RegistryOK(wcontacts), FetchesOK(wcontacts, wfetches),
         NEW t, NEW run \in Runs, Hop(t, run)
  PROVE  /\ RegistryOK(wcontacts') /\ FetchesOK(wcontacts', wfetches')
         /\ \A x \in Claims : wfetches'[x] >= wfetches[x]
         /\ DOMAIN wrunning' = DOMAIN wrunning \cup {t} /\ wrunning'[t] \in Runs
         /\ \A u \in DOMAIN wrunning : u # t => wrunning'[u] = wrunning[u]
         /\ (Ok(run.req.at) /\ run.req.hop = 0 /\ run.req.visited = {} /\ run.req.purpose = "crawl") =>
              wfetches'[<<run.req.at, "crawl">>] >= 1
<1> DEFINE req == run.req
           purpose == IF req.hop = 0 THEN req.purpose ELSE "redirect"
           allowed == Ok(req.at) /\ req.at \notin req.visited /\ req.hop <= MaxRedirects
           granted == allowed /\ Granted(wcontacts, req.at, purpose)
           to == wsite.answer[req.at]
           follow == granted /\ to \notin {0, req.at} /\ Ok(to)
           doc == CASE ~ granted \/ to = 0 \/ follow -> 0
                    [] to # req.at /\ t.kind = "crawl" -> 0
                    [] OTHER -> req.at
           next == IF follow
                   THEN [run EXCEPT !.req.at = to, !.req.hop = @ + 1, !.req.visited = @ \cup {req.at}]
                   ELSE [run EXCEPT !.open = FALSE, !.found = IF doc = 0 THEN @ ELSE Append(@, doc)]
           x == <<req.at, purpose>>
<1>1. /\ wrunning' = [u \in DOMAIN wrunning \cup {t} |-> IF u = t THEN next ELSE wrunning[u]]
      /\ wcontacts' = IF granted THEN Claimed(wcontacts, req.at, purpose) ELSE wcontacts
      /\ wfetches' = IF granted THEN [wfetches EXCEPT ![x] = @ + 1] ELSE wfetches
  BY DEF Hop
<1>2. /\ req \in Requests /\ req.at \in Urls /\ req.hop \in Nat /\ req.visited \subseteq Urls /\ req.purpose \in Sent
      /\ run.todo \in Seq(Urls) /\ run.found \in Seq(Urls)
  BY DEF Runs, Requests
<1>3. purpose \in Sent /\ purpose \in Purposes /\ x \in Claims /\ x \in Urls \X Sent
  BY <1>2, PurposesAre DEF Sent, Claims
<1>4. next \in Runs
  <2>1. CASE follow
    <3>1. to \in Urls
      BY <1>2, <2>1, SiteFacts
    <3> DEFINE r == [req EXCEPT !.at = to, !.hop = @ + 1, !.visited = @ \cup {req.at}]
    <3>2. r \in Requests
      <4>1. req.hop + 1 \in Nat /\ req.visited \cup {req.at} \in SUBSET Urls
        BY <1>2
      <4> HIDE DEF to, req
      <4> QED
        BY <1>2, <3>1, <4>1 DEF Requests
    <3>3. next = [run EXCEPT !.req = r]
      BY <2>1 DEF Runs, Requests
    <3> HIDE DEF r, next
    <3> QED
      BY <3>2, <3>3 DEF Runs
  <2>2. CASE ~ follow
    <3> DEFINE f == IF doc = 0 THEN run.found ELSE Append(run.found, doc)
    <3>1. doc = 0 \/ doc = req.at
      OBVIOUS
    <3>2. f \in Seq(Urls)
      BY <1>2, <3>1
    <3>3. next = [run EXCEPT !.open = FALSE, !.found = f]
      BY <2>2
    <3> HIDE DEF f, next
    <3> QED
      BY <3>2, <3>3 DEF Runs
  <2> QED
    BY <2>1, <2>2
<1> HIDE DEF next
<1>5. /\ DOMAIN wrunning' = DOMAIN wrunning \cup {t} /\ wrunning'[t] \in Runs
      /\ \A u \in DOMAIN wrunning : u # t => wrunning'[u] = wrunning[u]
  BY <1>1, <1>4
<1>6. wfetches \in [Claims -> Nat]
  BY DEF FetchesOK
<1>7. CASE granted
  <2> DEFINE d == wcontacts'
  <2>1. d = Claimed(wcontacts, req.at, purpose) /\ wfetches' = [wfetches EXCEPT ![x] = @ + 1]
    BY <1>1, <1>7
  <2>2. Granted(wcontacts, req.at, purpose)
    BY <1>7
  <2> HIDE DEF purpose, granted, x, req
  <2>3. /\ RegistryOK(d) /\ (wcontacts.full => d = wcontacts)
        /\ ~ wcontacts.full => d.exact = wcontacts.exact \cup {x} /\ x \notin wcontacts.exact
    BY <1>2, <1>3, <2>1, <2>2, ClaimedOK DEF x
  <2> HIDE DEF d
  <2>4. wfetches' \in [Claims -> Nat] /\ wfetches'[x] = wfetches[x] + 1 /\ wfetches[x] \in Nat
        /\ \A y \in Claims : y # x => wfetches'[y] = wfetches[y]
    BY <1>3, <1>6, <2>1
  <2>5. \A y \in Claims : wfetches'[y] >= wfetches[y]
    BY <1>6, <2>4
  <2>6. Urls \X Sent \subseteq Claims
    BY DEF Sent, Claims
  <2>7. \A y \in Urls \X Sent : /\ y \in wcontacts.exact => wfetches[y] >= 1
                                /\ ~ wcontacts.full => wfetches[y] = IF y \in wcontacts.exact THEN 1 ELSE 0
    BY DEF FetchesOK
  <2>8. ASSUME NEW y \in Urls \X Sent
        PROVE  /\ y \in d.exact => wfetches'[y] >= 1
               /\ ~ d.full => wfetches'[y] = IF y \in d.exact THEN 1 ELSE 0
    BY <1>6, <2>3, <2>4, <2>5, <2>6, <2>7
  <2>9. FetchesOK(d, wfetches')
    BY <2>4, <2>8 DEF FetchesOK
  <2>10. wfetches'[x] >= 1
    BY <2>4
  <2>11. (req.hop = 0 /\ req.purpose = "crawl") => wfetches'[<<req.at, "crawl">>] >= 1
    BY <2>10 DEF x, purpose
  <2> QED
    BY <1>5, <2>3, <2>5, <2>9, <2>11 DEF d, req
<1>8. CASE ~ granted
  <2>1. wcontacts' = wcontacts /\ wfetches' = wfetches
    BY <1>1, <1>8
  <2>2. ASSUME Ok(req.at), req.hop = 0, req.visited = {}, req.purpose = "crawl"
        PROVE  wfetches'[<<req.at, "crawl">>] >= 1
    <3>1. purpose = "crawl" /\ allowed
      BY <2>2, SurveyAssumption
    <3>2. ~ Granted(wcontacts, req.at, "crawl")
      BY <1>8, <3>1
    <3>3. "crawl" \in Purposes /\ "crawl" \in Sent
      BY PurposesAre DEF Sent
    <3>4. <<req.at, "crawl">> \in wcontacts.exact
      BY <1>2, <3>2, <3>3, GrantedByClaims
    <3>5. <<req.at, "crawl">> \in Urls \X Sent
      BY <1>2, <3>3
    <3> HIDE DEF req
    <3>6. wfetches[<<req.at, "crawl">>] >= 1
      BY <3>4, <3>5 DEF FetchesOK
    <3> QED
      BY <2>1, <3>6
  <2>3. \A y \in Claims : wfetches'[y] >= wfetches[y]
    BY <1>6, <2>1
  <2> HIDE DEF granted
  <2> QED
    BY <1>5, <2>1, <2>2, <2>3
<1> QED
  BY <1>7, <1>8

-----------------------------------------------------------------------------
(* Shares of an allowance.                                                 *)

CrawlTasks == [kind : {"crawl"}, url : Urls,
               about : [parent : Urls, depth : Nat, left : Nat, visited : SUBSET Urls]]
Crawls(S) == {t \in S : t.kind = "crawl"}

\* A crawl that has not ended stands for all it may still lead to; one that
\* has ended for itself.
Allowance(t) == IF t.about.left = 0 THEN 1 ELSE t.about.left
OpenShares(S) == {x \in Crawls(S) \X Nat : x[2] \in 1 .. Allowance(x[1])}
DoneShares(S) == Crawls(S) \X {1}

\* What is shared out is no more than what there is.
LEMMA ShareOut ==
  ASSUME NEW r \in Nat, NEW n \in Nat, n # 0, n <= r, NEW k \in Nat, k <= n
  PROVE  r \div n \in Nat /\ r \div n >= 1 /\ k * (r \div n) <= r
<1> DEFINE q == r \div n
<1>1. q \in Nat /\ n * q <= r /\ r < n * q + n
  BY SMTT(40)
<1> HIDE DEF q
<1>2. q >= 1
  BY <1>1
<1>3. k * q <= n * q
  BY <1>1, SMTT(40)
<1>4. k * q \in Nat /\ n * q \in Nat
  BY <1>1
<1> QED
  BY <1>1, <1>2, <1>3, <1>4 DEF q

\* plan_followups: nothing from nothing, and otherwise equal shares of what is
\* left after the page itself.
LEMMA FollowupShares ==
  ASSUME NEW pages \in SUBSET Urls, NEW depth \in Nat, NEW left \in Nat, PlanFollowups(pages, depth, left) # {}
  PROVE  \E first \in SUBSET pages, q \in Nat :
           /\ depth - 1 \in Nat /\ left # 0 /\ q # 0
           /\ IsFiniteSet(first) /\ Cardinality(first) \in Nat /\ Cardinality(first) * q <= left - 1
           /\ PlanFollowups(pages, depth, left) = {[url |-> u, depth |-> depth - 1, left |-> q] : u \in first}
<1> DEFINE remaining == AllowanceLeft(left)
           wanted == Cardinality(pages)
           take == CHOOSE n \in {wanted, remaining, MaxProposals} : \A m \in {wanted, remaining, MaxProposals} : n <= m
           first == {u \in pages : Cardinality({v \in pages : v <= u}) <= take}
           q == remaining \div take
<1>1. PlanFollowups(pages, depth, left) =
        IF depth = 0 \/ take = 0 THEN {} ELSE {[url |-> u, depth |-> depth - 1, left |-> q] : u \in first}
  BY DEF PlanFollowups
<1>2. depth # 0 /\ take # 0
  BY <1>1
<1>3. wanted \in Nat /\ remaining \in Nat /\ MaxProposals \in Nat
  <2>1. IsFiniteSet(pages)
    BY ClaimsFinite, FS_Subset
  <2> QED
    BY <2>1, FS_CardinalityType, SurveyAssumption DEF AllowanceLeft
<1>4. take \in Nat /\ take <= remaining
  BY <1>3
<1>5. first = Firsts(pages, take)
  BY DEF Firsts
<1>6. Cardinality(Urls) \in Nat /\ pages \subseteq 1 .. Cardinality(Urls)
  BY ContactsAssumption, FS_CardinalityType
<1> HIDE DEF take, first
<1>7. IsFiniteSet(first) /\ first \subseteq pages /\ Cardinality(first) \in Nat /\ Cardinality(first) <= take
  BY <1>4, <1>5, <1>6, FirstsFew
<1>8. left # 0 /\ remaining = left - 1
  BY <1>2, <1>3, <1>4 DEF AllowanceLeft
<1> HIDE DEF remaining
<1>9. q \in Nat /\ q # 0 /\ Cardinality(first) * q <= remaining
  BY <1>2, <1>3, <1>4, <1>7, ShareOut
<1> HIDE DEF q
<1>10. depth - 1 \in Nat
  BY <1>2
<1> QED
  BY <1>1, <1>2, <1>7, <1>8, <1>9, <1>10

\* A crawl's children are no roots, and their shares fit into its own, with
\* one to spare for itself.
LEMMA ChildShares ==
  ASSUME wsite \in Sites, NEW t \in CrawlTasks, NEW doc \in Urls
  PROVE  /\ \A c \in CrawlRule(t, doc) : c \in CrawlTasks /\ c.about.visited # {}
         /\ IsFiniteSet(OpenShares(CrawlRule(t, doc)))
         /\ Cardinality(OpenShares(CrawlRule(t, doc))) \in Nat
         /\ Cardinality(OpenShares(CrawlRule(t, doc))) + 1 <= Allowance(t)
<1> DEFINE seen == t.about.visited \cup {t.url}
           pages == {u \in ToSet(wsite.links[doc]) : Ok(u) /\ u \notin seen}
           P == PlanFollowups(pages, t.about.depth, t.about.left)
           K == CrawlRule(t, doc)
           S == OpenShares(K)
<1>1. K = {WebTask("crawl", p.url, [parent |-> doc, depth |-> p.depth, left |-> p.left, visited |-> seen]) : p \in P}
  BY DEF CrawlRule
<1>2. /\ t.about.depth \in Nat /\ t.about.left \in Nat /\ seen \subseteq Urls /\ seen # {}
      /\ Allowance(t) \in Nat /\ Allowance(t) >= 1 /\ (t.about.left # 0 => Allowance(t) = t.about.left)
  BY DEF CrawlTasks, Allowance
<1>3. pages \in SUBSET Urls
  BY SiteFacts DEF ToSet
<1> HIDE DEF seen, pages
<1>4. CASE P = {}
  <2>1. K = {}
    BY <1>1, <1>4
  <2>2. S = {}
    BY <2>1 DEF OpenShares, Crawls
  <2> HIDE DEF K, S
  <2>3. IsFiniteSet(S) /\ Cardinality(S) = 0
    BY <2>2, FS_EmptySet
  <2> QED
    BY <1>2, <2>1, <2>3 DEF K, S
<1>5. CASE P # {}
  <2>1. PICK first \in SUBSET pages, q \in Nat :
           /\ t.about.depth - 1 \in Nat /\ t.about.left # 0 /\ q # 0
           /\ IsFiniteSet(first) /\ Cardinality(first) \in Nat /\ Cardinality(first) * q <= t.about.left - 1
           /\ P = {[url |-> u, depth |-> t.about.depth - 1, left |-> q] : u \in first}
    BY <1>2, <1>3, <1>5, FollowupShares
  <2> DEFINE f == [u \in first |-> WebTask("crawl", u, [parent |-> doc, depth |-> t.about.depth - 1, left |-> q, visited |-> seen])]
  <2>2. K = {f[u] : u \in first}
    <3> DEFINE g(p) == WebTask("crawl", p.url, [parent |-> doc, depth |-> p.depth, left |-> p.left, visited |-> seen])
               h(u) == [url |-> u, depth |-> t.about.depth - 1, left |-> q]
    <3>1. K = {g(p) : p \in P} /\ P = {h(u) : u \in first}
      BY <1>1, <2>1
    <3>2. \A u \in first : g(h(u)) = f[u]
      OBVIOUS
    <3> HIDE DEF g, h, f, K, P
    <3> QED
      BY <3>1, <3>2
  <2>3. \A u \in first : /\ f[u] \in CrawlTasks /\ f[u].about.left = q /\ f[u].about.visited = seen
    BY <1>2, <1>3, <2>1 DEF WebTask, CrawlTasks
  <2>4. \A c \in K : c \in CrawlTasks /\ c.about.visited # {} /\ c.about.left = q
    BY <1>2, <2>2, <2>3
  <2>5. DOMAIN f = first /\ f = [u \in first |-> f[u]]
    OBVIOUS
  <2> HIDE DEF f, K
  <2>6. IsFiniteSet(K) /\ Cardinality(K) <= Cardinality(first)
    BY <2>1, <2>2, <2>5, FiniteImage
  <2>7. S = K \X (1 .. q)
    BY <2>1, <2>4 DEF CrawlTasks, Allowance, Crawls, OpenShares
  <2>8. IsFiniteSet(1 .. q) /\ Cardinality(1 .. q) = q
    BY FS_Interval
  <2>9. IsFiniteSet(S) /\ Cardinality(S) = Cardinality(K) * q /\ Cardinality(K) \in Nat
    <3> HIDE DEF S
    <3>1. IsFiniteSet(K \X (1 .. q)) /\ Cardinality(K \X (1 .. q)) = Cardinality(K) * Cardinality(1 .. q)
      BY <2>6, <2>8, FS_Product
    <3> QED
      BY <2>6, <2>7, <2>8, <3>1, FS_CardinalityType
  <2> HIDE DEF S
  <2> DEFINE k == Cardinality(K)
             n == Cardinality(first)
  <2>10. k \in Nat /\ n \in Nat /\ k <= n /\ n * q <= t.about.left - 1
    BY <2>1, <2>6, <2>9
  <2>11. k * q \in Nat /\ k * q <= t.about.left - 1
    <3> HIDE DEF k, n
    <3>1. k * q <= n * q /\ k * q \in Nat /\ n * q \in Nat
      BY <2>10, SMTT(40)
    <3> QED
      BY <1>2, <2>10, <3>1
  <2>12. Cardinality(S) \in Nat /\ Cardinality(S) + 1 <= Allowance(t)
    BY <1>2, <2>1, <2>9, <2>11
  <2> QED
    BY <2>4, <2>9, <2>12 DEF K, S
<1> QED
  BY <1>4, <1>5

-----------------------------------------------------------------------------
(* Tasks, and what an ended one leads to.                                  *)

Http == WebTask("http", 1, [url |-> 1])

\* What is admitted: one http task, crawls with their share, plans to fuzz, and
\* above level 2 content discoveries that know the answer to what is missing.
TaskOK(t) ==
  /\ t.kind \in {"http", "crawl", "baseline", "content", "fuzz"} /\ t.url \in Urls
  /\ t.kind = "http" => t = Http
  /\ t.kind = "crawl" => t \in CrawlTasks
  /\ t.kind = "content" /\ wsite.level >= 3 => t.about.hashes

\* The rules one by one.
LEMMA BaselineFacts ==
  ASSUME NEW urls \in SUBSET Urls, NEW first, NEW source, NEW x \in BaselineRule(urls, first, source)
  PROVE  TaskOK(x) /\ x.kind = "baseline"
  BY DEF BaselineRule, WebTask, TaskOK

\* A content discovery comes with what is known, above level 2 from a baseline.
LEMMA ContentFacts ==
  ASSUME wsite \in Sites, NEW kind, NEW urls, NEW observed, NEW x \in ContentRule(kind, urls, observed)
  PROVE  TaskOK(x) /\ x.kind = "content"
<1> DEFINE known == observed \/ wbaseline
<1>1. x = [kind |-> "content", url |-> 1, about |-> [hashes |-> known]]
  BY DEF ContentRule, WebTask
<1>2. wsite.level = 2 \/ observed
  BY DEF ContentRule
<1>3. x.kind = "content" /\ x.url = 1 /\ x.about.hashes = known
  BY <1>1
<1>4. observed => x.about.hashes
  BY <1>3, Zenon
<1>5. wsite.level >= 3 => wsite.level # 2
  OBVIOUS
<1> HIDE DEF known
<1>6. x.kind = "content" /\ x.url \in Urls /\ (wsite.level >= 3 => x.about.hashes)
  <2>1. x.kind = "content" /\ x.url \in Urls
    BY <1>3, SiteFacts
  <2>2. wsite.level >= 3 => x.about.hashes
    BY <1>2, <1>4, <1>5, Zenon
  <2> QED
    BY <2>1, <2>2, Zenon
<1> QED
  BY <1>6, Zenon DEF TaskOK

\* A plan to fuzz is for an address with a parameter.
LEMMA FuzzFacts ==
  ASSUME wsite \in Sites, NEW u, NEW endpoint, NEW x \in FuzzRule(u, endpoint)
  PROVE  TaskOK(x) /\ x.kind = "fuzz" /\ x.url = u /\ u \in Urls
  BY SurveyAssumption DEF FuzzRule, SiteType, WebTask, TaskOK

\* A root has the whole allowance and nothing behind it.
LEMMA RootFacts ==
  ASSUME wsite \in Sites, NEW u \in Urls
  PROVE  TaskOK(CrawlRoot(u)) /\ CrawlRoot(u).kind = "crawl" /\ CrawlRoot(u) \in CrawlTasks
         /\ CrawlRoot(u).about.visited = {} /\ CrawlRoot(u).about.left = wsite.pages
  BY SiteFacts DEF CrawlRoot, WebTask, CrawlTasks, TaskOK

\* And all of them: crawls come from a probe or a crawl, plans to fuzz from the
\* baseline that claimed a place for them.
LEMMA ProposedFacts ==
  ASSUME wsite \in Sites, NEW t, TaskOK(t), NEW found \in Seq(Urls), NEW observed,
         NEW x \in Proposed(t, found, observed)
  PROVE  /\ TaskOK(x) /\ x.kind # "http"
         /\ x.kind = "crawl" => \/ t.kind = "http" /\ \E u \in ToSet(found) : x = CrawlRoot(u)
                                \/ t.kind = "crawl" /\ found # <<>> /\ x \in CrawlRule(t, found[1])
         /\ x.kind = "fuzz" => /\ t.kind = "baseline" /\ found # <<>> /\ x.url = found[1]
                               /\ FuzzRule(found[1], t.url) # {}
<1>0. ToSet(found) \subseteq Urls
  BY DEF ToSet
<1>1. CASE t.kind = "http"
  BY <1>0, <1>1, BaselineFacts, ContentFacts, RootFacts DEF Proposed
<1>2. CASE t.kind = "crawl"
  <2> DEFINE links == wsite.links[found[1]]
             ok == {i \in DOMAIN links : Ok(links[i])}
             first == CHOOSE u \in Urls : \E i \in ok : u = links[i] /\ \A j \in ok : i <= j
             urls == {links[i] : i \in ok}
  <2>1. found # <<>> /\ \/ x \in CrawlRule(t, found[1])
                        \/ x \in BaselineRule(urls, first, "crawl")
                        \/ x \in ContentRule("crawl", urls, FALSE)
    BY <1>2, Zenon DEF Proposed
  <2>2. found[1] \in Urls
    BY <2>1, FirstOfSeq
  <2>3. urls \in SUBSET Urls
    BY <2>2, SiteFacts
  <2> HIDE DEF urls, first
  <2>4. CASE x \in CrawlRule(t, found[1])
    <3>1. t \in CrawlTasks
      BY <1>2 DEF TaskOK
    <3>2. x \in CrawlTasks
      BY <2>2, <2>4, <3>1, ChildShares
    <3>3. x.kind = "crawl" /\ x.url \in Urls
      BY <3>2 DEF CrawlTasks
    <3>4. TaskOK(x)
      BY <3>2, <3>3 DEF TaskOK
    <3> QED
      BY <1>2, <2>1, <2>4, <3>3, <3>4
  <2>5. CASE x \in BaselineRule(urls, first, "crawl")
    BY <2>3, <2>5, BaselineFacts
  <2>6. CASE x \in ContentRule("crawl", urls, FALSE)
    BY <2>6, ContentFacts
  <2> QED
    BY <2>1, <2>4, <2>5, <2>6
<1>3. CASE t.kind = "content"
  BY <1>0, <1>3, BaselineFacts DEF Proposed
<1>4. CASE t.kind = "baseline"
  BY <1>4, ContentFacts, FuzzFacts DEF Proposed
<1>5. CASE t.kind = "fuzz"
  BY <1>5 DEF Proposed
<1> QED
  BY <1>1, <1>2, <1>3, <1>4, <1>5 DEF TaskOK

-----------------------------------------------------------------------------
(* Shares, as tasks end.                                                   *)

Shares(open, done) == OpenShares(open) \cup DoneShares(done)

\* A crawl stands for one task at least.
LEMMA AllowanceFacts ==
  ASSUME NEW t \in CrawlTasks
  PROVE  Allowance(t) \in Nat /\ Allowance(t) >= 1
  BY DEF CrawlTasks, Allowance

\* A task that ends gives up its shares; what it leads to takes no more.
LEMMA EndShares ==
  ASSUME NEW open, NEW done, open \cap done = {}, NEW t \in open, NEW more,
         IsFiniteSet(Shares(open, done)),
         t.kind = "crawl" => /\ t \in CrawlTasks /\ IsFiniteSet(OpenShares(more))
                             /\ Cardinality(OpenShares(more)) \in Nat
                             /\ Cardinality(OpenShares(more)) + 1 <= Allowance(t),
         t.kind # "crawl" => Crawls(more) = {}
  PROVE  /\ IsFiniteSet(Shares((open \ {t}) \cup more, done \cup {t}))
         /\ Cardinality(Shares((open \ {t}) \cup more, done \cup {t})) <= Cardinality(Shares(open, done))
<1> DEFINE S == Shares(open, done)
           T == Shares((open \ {t}) \cup more, done \cup {t})
<1>0. Cardinality(S) \in Nat
  BY FS_CardinalityType
<1>1. CASE t.kind # "crawl"
  BY <1>0, <1>1 DEF Crawls, Shares, OpenShares, DoneShares
<1>2. CASE t.kind = "crawl"
  <2> DEFINE O == {t} \X (1 .. Allowance(t))
             K == OpenShares(more)
             R == S \ O
             one == {<<t, 1>>}
  <2>1. Allowance(t) \in Nat /\ Allowance(t) >= 1
    BY <1>2, AllowanceFacts
  <2>2. O \subseteq S
    BY <1>2, <2>1 DEF Crawls, OpenShares, Shares
  <2>3. T \subseteq R \cup (one \cup K)
    BY DEF OpenShares, Crawls, Shares, DoneShares
  <2>4. IsFiniteSet(O) /\ Cardinality(O) = Allowance(t)
    <3> DEFINE a == Allowance(t)
               I == 1 .. a
               one1 == {t}
    <3>1. IsFiniteSet(one1) /\ Cardinality(one1) = 1
      BY FS_Singleton
    <3> HIDE DEF a
    <3>2. a \in Nat /\ a >= 1
      BY <2>1 DEF a
    <3>3. IsFiniteSet(I) /\ Cardinality(I) = a
      BY <3>2, FS_Interval
    <3>4. O = one1 \X I
      BY DEF a
    <3> HIDE DEF I, one1, O
    <3>5. IsFiniteSet(O) /\ Cardinality(O) = Cardinality(one1) * Cardinality(I)
      BY <3>1, <3>3, <3>4, FS_Product
    <3>6. IsFiniteSet(O) /\ Cardinality(O) = 1 * a
      BY <3>1, <3>3, <3>5
    <3> USE DEF a
    <3> QED
      BY <2>1, <3>6
  <2> HIDE DEF O, S, T
  <2>5. IsFiniteSet(S)
    BY DEF S
  <2>6. /\ IsFiniteSet(R) /\ Cardinality(R) = Cardinality(S) - Allowance(t) /\ Cardinality(R) \in Nat
    BY <2>2, <2>4, <2>5, RestCount
  <2>7. IsFiniteSet(one) /\ Cardinality(one) = 1
    BY FS_Singleton
  <2>8. IsFiniteSet(K) /\ Cardinality(K) \in Nat /\ Cardinality(K) + 1 <= Allowance(t)
    BY <1>2
  <2> HIDE DEF one, K, R
  <2>9. IsFiniteSet(one \cup K) /\ Cardinality(one \cup K) <= 1 + Cardinality(K) /\ Cardinality(one \cup K) \in Nat
    <3>1. IsFiniteSet(one \cup K) /\ Cardinality(one \cup K) = Cardinality(one) + Cardinality(K) - Cardinality(one \cap K)
      BY <2>7, <2>8, FS_Union
    <3>2. Cardinality(one \cap K) \in Nat
      BY <2>7, FS_Intersection, FS_CardinalityType
    <3>3. Cardinality(one \cup K) \in Nat
      BY <3>1, FS_CardinalityType
    <3> QED
      BY <2>7, <2>8, <3>1, <3>2, <3>3
  <2>10. IsFiniteSet(R \cup (one \cup K)) /\ Cardinality(R \cup (one \cup K)) <= Cardinality(R) + Cardinality(one \cup K)
         /\ Cardinality(R \cup (one \cup K)) \in Nat
    <3>1. IsFiniteSet(R \cup (one \cup K))
          /\ Cardinality(R \cup (one \cup K)) = Cardinality(R) + Cardinality(one \cup K) - Cardinality(R \cap (one \cup K))
      BY <2>6, <2>9, FS_Union
    <3>2. Cardinality(R \cap (one \cup K)) \in Nat
      BY <2>6, FS_Intersection, FS_CardinalityType
    <3>3. Cardinality(R \cup (one \cup K)) \in Nat
      BY <3>1, FS_CardinalityType
    <3> QED
      BY <2>6, <2>9, <3>1, <3>2, <3>3
  <2>11. IsFiniteSet(T) /\ Cardinality(T) <= Cardinality(R \cup (one \cup K)) /\ Cardinality(T) \in Nat
    BY <2>3, <2>10, FS_Subset, FS_CardinalityType
  <2>12. Cardinality(T) <= Cardinality(S)
    BY <1>0, <2>1, <2>6, <2>8, <2>9, <2>10, <2>11 DEF S
  <2> QED
    BY <2>11, <2>12 DEF S, T
<1> QED
  BY <1>1, <1>2

-----------------------------------------------------------------------------
(* The invariant of the survey.                                            *)

Open == wwaiting \cup DOMAIN wrunning
SoleRoot(u) == CrawlRoot(u) \in Admitted /\ \A v \in Urls \ {u} : CrawlRoot(v) \notin Admitted
Ceiling == IF wsite.pages = 0 THEN 1 ELSE wsite.pages
Fetched(t) == t.kind = "crawl" /\ Ok(t.url) => wfetches[<<t.url, "crawl">>] >= 1

\* A task is waiting, running or done; the http task runs at once, and until it
\* does there is no other.
TasksInv ==
  /\ wsite \in Sites
  /\ \A t \in Admitted : TaskOK(t)
  /\ wwaiting \cap DOMAIN wrunning = {} /\ wwaiting \cap wdone = {} /\ DOMAIN wrunning \cap wdone = {}
  /\ Http \notin DOMAIN wrunning
  /\ Http \in wwaiting => Admitted = {Http}
  /\ \A t \in DOMAIN wrunning : wrunning[t] \in Runs
  /\ wresumes \in 0 .. MaxWebResumes

\* What was claimed was requested, and what began to crawl fetched its page.
FetchedInv ==
  /\ RegistryOK(wcontacts) /\ FetchesOK(wcontacts, wfetches)
  /\ \A t \in wdone \cup DOMAIN wrunning : Fetched(t)

\* Every plan to fuzz has its place in the budget.
BudgetInv ==
  /\ wbudget \subseteq Urls /\ Cardinality(wbudget) <= FuzzLimit
  /\ \A t \in Admitted : t.kind = "fuzz" => t.url \in wbudget

\* What the crawls still stand for is no more than the allowance of their root.
SharesInv ==
  \A u \in Urls : SoleRoot(u) => /\ IsFiniteSet(Shares(Open, wdone))
                                 /\ Cardinality(Shares(Open, wdone)) <= Ceiling

WebInv == TasksInv /\ FetchedInv /\ BudgetInv /\ SharesInv

\* The http task is no crawl.
LEMMA HttpFacts ==
  /\ Http.kind = "http" /\ Http.url = 1
  /\ \A u : CrawlRoot(u) # Http
  BY DEF Http, WebTask, CrawlRoot

\* A survey begins in the invariant,
LEMMA WebInvInit == WebInit => WebInv
  BY FS_EmptySet, HttpFacts, NoContactsOK, SiteFacts, SurveyAssumption DEF WebInit, Http, Claims, Admitted,
     TaskOK, TasksInv, NoContacts, Sent, FetchesOK, FetchedInv, BudgetInv, SharesInv, SoleRoot, WebInv

\* The shares of a state depend on the tasks that are open and done only.
LEMMA SameShares ==
  ASSUME SharesInv, wsite \in Sites, wsite' = wsite, Admitted' = Admitted, Shares(Open, wdone)' \subseteq Shares(Open, wdone)
  PROVE  SharesInv'
<1> DEFINE S == Shares(Open, wdone)
           T == Shares(Open, wdone)'
<1>1. \A u : SoleRoot(u)' <=> SoleRoot(u)
  BY DEF SoleRoot, CrawlRoot
<1>2. Ceiling' = Ceiling
  BY DEF Ceiling
<1>3. T \subseteq S
  OBVIOUS
<1>4. SharesInv' <=> \A u \in Urls : SoleRoot(u)' => IsFiniteSet(T) /\ Cardinality(T) <= Ceiling'
  BY DEF SharesInv
<1>5. \A u \in Urls : SoleRoot(u) => IsFiniteSet(S) /\ Cardinality(S) <= Ceiling
  BY DEF SharesInv
<1> HIDE DEF S, T
<1>6. ASSUME NEW u \in Urls, SoleRoot(u)' PROVE IsFiniteSet(T) /\ Cardinality(T) <= Ceiling'
  <2>1. IsFiniteSet(S) /\ Cardinality(S) <= Ceiling
    BY <1>1, <1>5, <1>6
  <2>2. IsFiniteSet(T) /\ Cardinality(T) <= Cardinality(S)
    BY <1>3, <2>1, FS_Subset
  <2>3. Cardinality(T) \in Nat /\ Cardinality(S) \in Nat
    BY <2>1, <2>2, FS_CardinalityType
  <2>4. Ceiling \in Int
    BY SiteFacts DEF Ceiling
  <2> QED
    BY <1>2, <2>1, <2>2, <2>3, <2>4
<1> QED
  BY <1>4, <1>6

\* A request: a task that waited runs, and one that ran still does.
LEMMA HopStep ==
  ASSUME WebInv, NEW t \in Open, t.kind # "http", NEW run \in Runs, Hop(t, run),
         wwaiting' = wwaiting \ {t},
         t \in wwaiting /\ t.kind = "crawl" => run.req = Request(t.url, "crawl")
  PROVE  WebInv'
<1> USE DEF WebInv
<1>1. /\ wsite' = wsite /\ wdone' = wdone /\ wbaseline' = wbaseline /\ wbudget' = wbudget /\ wresumes' = wresumes
  BY DEF Hop
<1>2. /\ RegistryOK(wcontacts') /\ FetchesOK(wcontacts', wfetches')
      /\ \A x \in Claims : wfetches'[x] >= wfetches[x]
      /\ DOMAIN wrunning' = DOMAIN wrunning \cup {t} /\ wrunning'[t] \in Runs
      /\ \A u \in DOMAIN wrunning : u # t => wrunning'[u] = wrunning[u]
      /\ (Ok(run.req.at) /\ run.req.hop = 0 /\ run.req.visited = {} /\ run.req.purpose = "crawl") =>
           wfetches'[<<run.req.at, "crawl">>] >= 1
  BY HopKeeps DEF TasksInv, FetchedInv
<1>3. Open' = Open /\ Admitted' = Admitted
  BY <1>1, <1>2 DEF Open, Admitted
<1>4. TaskOK(t) /\ t # Http
  BY HttpFacts DEF TasksInv, Open, Admitted
<1>5. \A u : TaskOK(u)' <=> TaskOK(u)
  BY <1>1 DEF TaskOK
<1>6. TasksInv'
  BY <1>1, <1>2, <1>3, <1>4, <1>5 DEF TasksInv, Open, Http
<1>7. FetchedInv'
  BY <1>1, <1>2, PurposesAre DEF Fetched, Ok, FetchedInv, TasksInv, TaskOK, Admitted, Claims, FetchesOK,
     Request, Open
<1>8. BudgetInv'
  BY <1>1, <1>3 DEF BudgetInv
<1>9. SharesInv'
  BY <1>1, <1>3, SameShares DEF Shares, TasksInv
<1> QED
  BY <1>6, <1>7, <1>8, <1>9

\* The first request of a task.
LEMMA StartStep ==
  ASSUME WebInv, NEW t \in wwaiting, WebStart(t)
  PROVE  WebInv'
<1> DEFINE run == IF t.kind = "content"
                  THEN [req |-> Request(Head(wsite.words), "content"), todo |-> Tail(wsite.words),
                        found |-> <<>>, open |-> TRUE]
                  ELSE [req |-> Request(t.url, IF t.kind = "baseline" THEN "primary" ELSE t.kind),
                        todo |-> <<>>, found |-> <<>>, open |-> TRUE]
<1>1. t.kind # "http" /\ wwaiting' = wwaiting \ {t} /\ Hop(t, run)
  BY DEF WebStart
<1>2. t \in Open /\ TaskOK(t) /\ wsite \in Sites
  BY DEF WebInv, TasksInv, Open, Admitted
<1>3. wsite.words \in Seq(Urls) /\ wsite.words # <<>>
  BY <1>2, SiteFacts
<1>4. {"crawl", "primary", "content", "fuzz"} \subseteq Sent
  BY PurposesAre DEF Sent
<1>5. \A u \in Urls, p \in Sent : Request(u, p) \in Requests
  BY DEF Request, Requests
<1>6. run \in Runs
  BY <1>1, <1>2, <1>3, <1>4, <1>5 DEF Runs, TaskOK
<1>7. t.kind = "crawl" => run.req = Request(t.url, "crawl")
  OBVIOUS
<1> HIDE DEF run
<1> QED
  BY <1>1, <1>2, <1>6, <1>7, HopStep

\* The later ones.
LEMMA LaterStep ==
  ASSUME WebInv, NEW t \in DOMAIN wrunning, WebHop(t) \/ WebCandidate(t)
  PROVE  WebInv'
<1>1. /\ t \in Open /\ TaskOK(t) /\ t.kind # "http" /\ wrunning[t] \in Runs /\ t \notin wwaiting
  BY DEF WebInv, TasksInv, Open, Admitted, TaskOK
<1>2. wwaiting' = wwaiting \ {t}
  BY <1>1 DEF WebHop, WebCandidate
<1>3. CASE WebHop(t)
  BY <1>1, <1>2, <1>3, HopStep DEF WebHop
<1>4. CASE WebCandidate(t)
  <2> DEFINE run == wrunning[t]
             r == Request(Head(run.todo), "content")
             next == [run EXCEPT !.req = r, !.todo = Tail(@), !.open = TRUE]
  <2>1. Hop(t, next) /\ run.todo # <<>>
    BY <1>4 DEF WebCandidate
  <2>2. run \in Runs /\ run.todo \in Seq(Urls)
    BY <1>1 DEF Runs
  <2>3. Head(run.todo) \in Urls /\ Tail(run.todo) \in Seq(Urls)
    BY <2>1, <2>2
  <2>4. r \in Requests
    BY <2>3, PurposesAre DEF Request, Requests, Sent
  <2> HIDE DEF run, r
  <2>5. next \in Runs
    BY <2>2, <2>3, <2>4 DEF Runs
  <2> HIDE DEF next
  <2> QED
    BY <1>1, <1>2, <2>1, <2>5, HopStep
<1> QED
  BY <1>3, <1>4

\* A task that ends, probe or not: what it leads to is new, and a plan to fuzz
\* takes its place in the budget.
LEMMA EndTasks ==
  ASSUME WebInv, NEW t \in Open, NEW found \in Seq(Urls), NEW observed, Ended(t, found, observed),
         DOMAIN wrunning' = DOMAIN wrunning \ {t}, \A u \in DOMAIN wrunning' : wrunning'[u] = wrunning[u]
  PROVE  /\ TasksInv' /\ BudgetInv'
         /\ Open' = (Open \ {t}) \cup NewOf(Proposed(t, found, observed))
         /\ Admitted' = Admitted \cup NewOf(Proposed(t, found, observed))
<1> DEFINE P == Proposed(t, found, observed)
           N == NewOf(P)
<1> USE DEF WebInv
<1>1. /\ wdone' = wdone \cup {t} /\ wwaiting' = (wwaiting \ {t}) \cup N
      /\ wbudget' = IF t.kind = "baseline" /\ found # <<>> /\ FuzzRule(found[1], t.url) # {}
                    THEN wbudget \cup {found[1]} ELSE wbudget
      /\ wsite' = wsite /\ wcontacts' = wcontacts /\ wresumes' = wresumes
  BY DEF Ended
<1>2. wsite \in Sites /\ TaskOK(t) /\ t \in Admitted /\ t \notin wdone
  BY DEF TasksInv, Open, Admitted
<1>3. \A x \in P : /\ TaskOK(x) /\ x.kind # "http"
                   /\ x.kind = "fuzz" => /\ t.kind = "baseline" /\ found # <<>> /\ x.url = found[1]
                                         /\ FuzzRule(found[1], t.url) # {}
  BY <1>2, ProposedFacts
<1>4. N \subseteq P /\ N \cap Admitted = {}
  BY DEF NewOf
<1> HIDE DEF P, N
<1>5. Open' = (Open \ {t}) \cup N /\ Admitted' = Admitted \cup N
  BY <1>1, <1>2 DEF Open, Admitted
<1>6. \A u : TaskOK(u)' <=> TaskOK(u)
  BY <1>1 DEF TaskOK
<1>7. TasksInv'
  BY <1>1, <1>2, <1>3, <1>4, <1>5, <1>6, HttpFacts DEF TasksInv, Admitted, Http
<1>8. BudgetInv'
  <2>1. CASE t.kind = "baseline" /\ found # <<>> /\ FuzzRule(found[1], t.url) # {}
    <3> DEFINE u == found[1]
    <3>1. FuzzGranted(u) /\ u \in Urls
      BY <2>1, FirstOfSeq DEF FuzzRule
    <3>2. wbudget' = wbudget \cup {u}
      BY <1>1, <2>1
    <3> HIDE DEF u
    <3>3. IsFiniteSet(wbudget) /\ Cardinality(wbudget) \in Nat /\ FuzzLimit \in Nat
      BY ClaimsFinite, FS_CardinalityType, FS_Subset, SurveyAssumption DEF BudgetInv
    <3>4. Cardinality(wbudget') <= FuzzLimit
      <4>1. CASE u \in wbudget
        BY <3>2, <4>1 DEF BudgetInv
      <4>2. CASE u \notin wbudget
        <5>1. Cardinality(wbudget) < FuzzLimit
          BY <3>1, <4>2 DEF FuzzGranted
        <5>2. Cardinality(wbudget') = Cardinality(wbudget) + 1
          BY <3>2, <3>3, <4>2, FS_AddElement
        <5> QED
          BY <3>3, <5>1, <5>2
      <4> QED
        BY <4>1, <4>2
    <3>5. \A x \in Admitted' : x.kind = "fuzz" => x.url \in wbudget'
      BY <1>3, <1>4, <1>5, <3>2 DEF BudgetInv, u
    <3> QED
      BY <3>1, <3>2, <3>4, <3>5 DEF BudgetInv
  <2>2. CASE ~ (t.kind = "baseline" /\ found # <<>> /\ FuzzRule(found[1], t.url) # {})
    BY <1>1, <1>3, <1>4, <1>5, <2>2 DEF BudgetInv
  <2> QED
    BY <2>1, <2>2
<1> QED
  BY <1>5, <1>7, <1>8 DEF P, N

\* The probe: what it leads to are roots, and there is no other crawl.
LEMMA ProbedStep ==
  ASSUME WebInv, NEW t \in wwaiting, WebProbed(t)
  PROVE  WebInv'
<1> DEFINE to == wsite.answer[t.url]
           found == IF to # t.url /\ Ok(to) /\ wsite.answer[to] # 0 THEN <<t.url, to>> ELSE <<t.url>>
           P == Proposed(t, found, FALSE)
           N == NewOf(P)
<1> USE DEF WebInv
<1>1. t.kind = "http" /\ to # 0 /\ Ended(t, found, FALSE) /\ wrunning' = wrunning /\ wfetches' = wfetches
  BY DEF WebProbed
<1>2. wsite \in Sites /\ TaskOK(t) /\ t \in Open /\ t \notin DOMAIN wrunning /\ t = Http
  BY <1>1 DEF TasksInv, Open, Admitted, TaskOK
<1>3. found \in Seq(Urls)
  BY <1>1, <1>2, SiteFacts DEF TaskOK
<1> HIDE DEF found, N
<1>4. TasksInv' /\ BudgetInv' /\ Open' = (Open \ {t}) \cup N /\ Admitted' = Admitted \cup N
  <2>1. DOMAIN wrunning' = DOMAIN wrunning \ {t} /\ \A u \in DOMAIN wrunning' : wrunning'[u] = wrunning[u]
    BY <1>1, <1>2
  <2>2. t \in Open /\ found \in Seq(Urls) /\ Ended(t, found, FALSE)
    BY <1>1, <1>2, <1>3
  <2>3. /\ TasksInv' /\ BudgetInv'
        /\ Open' = (Open \ {t}) \cup NewOf(Proposed(t, found, FALSE))
        /\ Admitted' = Admitted \cup NewOf(Proposed(t, found, FALSE))
    BY <2>1, <2>2, EndTasks
  <2> QED
    BY <2>3 DEF N
<1>5. wsite' = wsite /\ wdone' = wdone \cup {t} /\ wcontacts' = wcontacts
  BY <1>1 DEF Ended
<1>6. Admitted = {t}
  BY <1>2 DEF TasksInv
<1>7. FetchedInv'
  BY <1>1, <1>5, <1>6 DEF Admitted, Fetched, FetchedInv
<1>8. \A x \in N : x.kind = "crawl" => \E u \in ToSet(found) : x = CrawlRoot(u)
  BY <1>1, <1>2, <1>3, ProposedFacts DEF N, NewOf
<1>9. ToSet(found) \subseteq Urls
  BY <1>3 DEF ToSet
<1>10. \A u : CrawlRoot(u)' = CrawlRoot(u)
  BY <1>5 DEF CrawlRoot
<1>11. ASSUME NEW u \in Urls, SoleRoot(u)'
       PROVE  IsFiniteSet(Shares(Open, wdone)') /\ Cardinality(Shares(Open, wdone)') <= Ceiling'
  <2> DEFINE r == CrawlRoot(u)
             a == Allowance(r)
             S == Shares(Open, wdone)'
  <2>1. /\ r \in Admitted' /\ \A v \in Urls \ {u} : CrawlRoot(v) \notin Admitted'
    BY <1>10, <1>11 DEF SoleRoot
  <2>2. r.kind = "crawl" /\ r \in CrawlTasks /\ r.about.left = wsite.pages
    BY <1>2, RootFacts
  <2>3. r \in N
    BY <1>1, <1>4, <1>6, <2>1, <2>2
  <2>4. \A x \in N : x.kind = "crawl" => x = r
    BY <1>4, <1>8, <1>9, <2>1
  <2> HIDE DEF r
  <2>5. Open' = N
    BY <1>4, <1>6 DEF Open, Admitted
  <2>6. Crawls(Open)' = {r}
    BY <2>2, <2>3, <2>4, <2>5 DEF Crawls
  <2>7. Crawls(wdone)' = {}
    BY <1>1, <1>5, <1>6 DEF Crawls, Admitted
  <2>8. a \in Nat /\ a >= 1
    BY <2>2, AllowanceFacts
  <2>9. a = Ceiling'
    BY <1>5, <2>2 DEF Allowance, Ceiling
  <2> HIDE DEF a
  <2>10. S = {r} \X (1 .. a)
    BY <2>6, <2>7, <2>8 DEF Shares, DoneShares, OpenShares, a
  <2>11. IsFiniteSet(S) /\ Cardinality(S) = a
    <3> DEFINE I == 1 .. a
               one == {r}
    <3>0. IsFiniteSet(I) /\ Cardinality(I) = a
      BY <2>8, FS_Interval
    <3>1. IsFiniteSet(one) /\ Cardinality(one) = 1 /\ IsFiniteSet(I) /\ Cardinality(I) = a
      BY <3>0, FS_Singleton
    <3>2. S = one \X I
      BY <2>10
    <3> HIDE DEF I, one, S
    <3>3. IsFiniteSet(S) /\ Cardinality(S) = Cardinality(one) * Cardinality(I)
      BY <3>1, <3>2, FS_Product
    <3>4. IsFiniteSet(S) /\ Cardinality(S) = 1 * a
      BY <3>1, <3>3
    <3> QED
      BY <2>8, <3>4
  <2> HIDE DEF S
  <2>12. IsFiniteSet(S) /\ Cardinality(S) <= Ceiling'
    BY <2>8, <2>9, <2>11
  <2> QED
    BY <2>12 DEF S
<1>12. SharesInv'
  BY <1>11 DEF SharesInv
<1> QED
  BY <1>4, <1>7, <1>12

\* A running task that has nothing left to request.
LEMMA EndStep ==
  ASSUME WebInv, NEW t \in DOMAIN wrunning, WebEnd(t)
  PROVE  WebInv'
<1> DEFINE run == wrunning[t]
           found == run.found
           samples == IF t.kind = "baseline" /\ t.about.origin /\ run.found # <<>> /\ wsite.level >= 3
                      THEN Samples ELSE 0
           observed == samples > 0 /\ wsite.missing
           P == Proposed(t, found, observed)
           N == NewOf(P)
           synthetic == <<1, "synthetic">>
<1> USE DEF WebInv
<1>1. /\ Ended(t, found, observed)
      /\ wfetches' = [wfetches EXCEPT ![synthetic] = @ + samples]
      /\ wrunning' = [u \in DOMAIN wrunning \ {t} |-> wrunning[u]]
  BY DEF WebEnd
<1>2. samples \in Nat
  BY SurveyAssumption
<1>3. /\ wsite \in Sites /\ TaskOK(t) /\ t \in Open /\ t \notin wdone /\ t \notin wwaiting /\ t # Http
      /\ found \in Seq(Urls)
  BY DEF TasksInv, Open, Admitted, Runs
<1>4. t.kind # "http"
  BY <1>3 DEF TaskOK
<1> HIDE DEF found, samples, observed
<1>5. TasksInv' /\ BudgetInv' /\ Open' = (Open \ {t}) \cup N /\ Admitted' = Admitted \cup N
  BY <1>1, <1>3, EndTasks
<1>6. wsite' = wsite /\ wdone' = wdone \cup {t} /\ wcontacts' = wcontacts
  BY <1>1 DEF Ended
<1>7. \A x \in N : x.kind = "crawl" => t.kind = "crawl" /\ found # <<>> /\ x \in CrawlRule(t, found[1])
  BY <1>3, <1>4, ProposedFacts DEF NewOf
<1> HIDE DEF N
<1>8. FetchedInv'
  BY <1>1, <1>2, <1>3, <1>6, PurposesAre, SiteFacts DEF Sent, Claims, FetchedInv, FetchesOK, TasksInv, TaskOK,
     Admitted, Fetched, Ok
<1>9. \A u : CrawlRoot(u)' = CrawlRoot(u)
  BY <1>6 DEF CrawlRoot
<1>10. \A u : CrawlRoot(u) \notin N
  BY <1>3, <1>7, ChildShares, FirstOfSeq DEF CrawlRoot, WebTask, TaskOK
<1>11. \A u : SoleRoot(u)' => SoleRoot(u)
  BY <1>5, <1>9, <1>10 DEF SoleRoot
<1>12. t.kind # "crawl" => Crawls(N) = {}
  BY <1>7 DEF Crawls
<1>13. t.kind = "crawl" => /\ t \in CrawlTasks /\ IsFiniteSet(OpenShares(N))
                           /\ Cardinality(OpenShares(N)) \in Nat
                           /\ Cardinality(OpenShares(N)) + 1 <= Allowance(t)
  <2> SUFFICES ASSUME t.kind = "crawl"
               PROVE  /\ t \in CrawlTasks /\ IsFiniteSet(OpenShares(N))
                      /\ Cardinality(OpenShares(N)) \in Nat
                      /\ Cardinality(OpenShares(N)) + 1 <= Allowance(t)
    OBVIOUS
  <2>1. t \in CrawlTasks /\ Allowance(t) \in Nat /\ Allowance(t) >= 1
    BY <1>3, AllowanceFacts DEF TaskOK
  <2>2. CASE found = <<>>
    <3>1. Crawls(N) = {}
      BY <1>7, <2>2 DEF Crawls
    <3> DEFINE S == OpenShares(N)
    <3>2. S = {}
      BY <3>1 DEF OpenShares
    <3> HIDE DEF S
    <3>3. IsFiniteSet(S) /\ Cardinality(S) = 0
      BY <3>2, FS_EmptySet
    <3> QED
      BY <2>1, <3>3 DEF S
  <2>3. CASE found # <<>>
    <3> DEFINE K == CrawlRule(t, found[1])
               S == OpenShares(N)
               T == OpenShares(K)
    <3>1. found[1] \in Urls
      BY <1>3, <2>3, FirstOfSeq
    <3>2. IsFiniteSet(T) /\ Cardinality(T) \in Nat /\ Cardinality(T) + 1 <= Allowance(t)
      BY <1>3, <2>1, <3>1, ChildShares
    <3>3. Crawls(N) \subseteq Crawls(K)
      BY <1>7 DEF Crawls
    <3>4. S \subseteq T
      BY <3>3 DEF OpenShares
    <3> HIDE DEF S, T
    <3>5. IsFiniteSet(S) /\ Cardinality(S) <= Cardinality(T) /\ Cardinality(S) \in Nat
      BY <3>2, <3>4, FS_Subset, FS_CardinalityType
    <3> QED
      BY <2>1, <3>2, <3>5 DEF S
  <2> QED
    BY <2>2, <2>3
<1>14. SharesInv'
  <2> DEFINE S == Shares(Open, wdone)
             T == Shares((Open \ {t}) \cup N, wdone \cup {t})
  <2>1. Shares(Open, wdone)' = T
    BY <1>5, <1>6 DEF Shares
  <2>2. Ceiling' = Ceiling /\ Ceiling \in Nat
    BY <1>3, <1>6, SiteFacts DEF Ceiling
  <2>3. Open \cap wdone = {}
    BY DEF TasksInv, Open
  <2>4. ASSUME IsFiniteSet(S)
        PROVE  IsFiniteSet(T) /\ Cardinality(T) <= Cardinality(S)
    BY <1>3, <1>12, <1>13, <2>3, <2>4, EndShares
  <2>5. \A u \in Urls : SoleRoot(u) => IsFiniteSet(S) /\ Cardinality(S) <= Ceiling
    BY DEF SharesInv
  <2> HIDE DEF S, T
  <2>6. ASSUME NEW u \in Urls, SoleRoot(u)' PROVE IsFiniteSet(T) /\ Cardinality(T) <= Ceiling'
    BY <1>11, <2>2, <2>4, <2>5, <2>6, FS_CardinalityType
  <2> QED
    BY <2>1, <2>6 DEF SharesInv
<1> QED
  BY <1>5, <1>8, <1>14

\* A stop: what ran is done, and the registry is restored from its claims.
LEMMA ResumeStep == WebInv /\ WebResume => WebInv'
<1> SUFFICES ASSUME WebInv, WebResume PROVE WebInv'
  OBVIOUS
<1> USE DEF WebInv
<1>1. /\ wresumes < MaxWebResumes /\ wresumes' = wresumes + 1 /\ wdone' = wdone \cup DOMAIN wrunning
      /\ wrunning' = <<>> /\ wcontacts' = Restored(wcontacts.exact) /\ wsite' = wsite
      /\ wwaiting' = wwaiting /\ wbaseline' = wbaseline /\ wbudget' = wbudget /\ wfetches' = wfetches
  BY DEF WebResume
<1>2. DOMAIN wrunning' = {}
  BY <1>1
<1>3. Admitted' = Admitted /\ Open' = wwaiting
  BY <1>1, <1>2 DEF Admitted, Open
<1>4. \A u : TaskOK(u)' <=> TaskOK(u)
  BY <1>1 DEF TaskOK
<1>5. TasksInv'
  BY <1>1, <1>2, <1>3, <1>4, SurveyAssumption DEF TasksInv, Http
<1>6. FetchedInv'
  BY <1>1, <1>2, RestoredOK DEF FetchedInv, RegistryOK, FetchesOK, Fetched, Ok
<1>7. BudgetInv'
  BY <1>1, <1>3 DEF BudgetInv
<1>8. SharesInv'
  BY <1>1, <1>3, AllowanceFacts, SameShares DEF Shares, OpenShares, Crawls, Open, DoneShares, TasksInv, TaskOK,
     Admitted
<1> QED
  BY <1>5, <1>6, <1>7, <1>8

\* and every step keeps it.
LEMMA WebInvNext == WebInv /\ [WebNext]_webvars => WebInv'
  BY EndStep, LaterStep, ProbedStep, ResumeStep, StartStep DEF WebNext, WebStep, webvars, WebInv, TasksInv,
     Admitted, TaskOK, Http, FetchedInv, Fetched, Ok, BudgetInv, SharesInv, SoleRoot, CrawlRoot, Open, Ceiling,
     Shares

\* What the runs check of the survey follows: its budgets,
LEMMA WebBounded ==
  ASSUME WebInv
  PROVE  WebTypeOK /\ RootWithinAllowance /\ FuzzWithinBudget
<1> USE DEF WebInv
<1>1. WebTypeOK
  BY DEF TasksInv, FetchedInv, BudgetInv, RegistryOK, Claims, WebTypeOK
<1>2. RootWithinAllowance
  <2> SUFFICES ASSUME NEW u \in Urls, SoleRoot(u)
               PROVE  Cardinality({t \in Admitted : t.kind = "crawl"}) <= Ceiling
    BY DEF RootWithinAllowance, SoleRoot, Ceiling
  <2> DEFINE S == Shares(Open, wdone)
             A == {t \in Admitted : t.kind = "crawl"}
             f == [t \in A |-> <<t, 1>>]
             one == {f[t] : t \in A}
  <2>1. IsFiniteSet(S) /\ Cardinality(S) <= Ceiling /\ Cardinality(S) \in Nat
    BY FS_CardinalityType DEF SharesInv
  <2>2. ASSUME NEW t \in A PROVE <<t, 1>> \in S
    BY AllowanceFacts DEF Shares, DoneShares, Crawls, TasksInv, TaskOK, OpenShares, Admitted, Open
  <2>3. f \in Injection(A, S)
    BY <2>2 DEF Injection, IsInjective
  <2> HIDE DEF A, S, f
  <2>4. IsFiniteSet(A) /\ Cardinality(A) <= Cardinality(S)
    BY <2>1, <2>3, FS_Injection
  <2>5. Cardinality(A) \in Nat /\ Ceiling \in Nat
    BY <2>4, FS_CardinalityType, SiteFacts DEF TasksInv, Ceiling
  <2>6. Cardinality(A) <= Ceiling
    BY <2>1, <2>4, <2>5
  <2> QED
    BY <2>6 DEF A
<1>3. FuzzWithinBudget
  <2> DEFINE A == {t \in Admitted : t.kind = "fuzz"}
             U == {t.url : t \in A}
  <2>1. U \subseteq wbudget
    BY DEF BudgetInv
  <2>2. IsFiniteSet(wbudget) /\ Cardinality(wbudget) \in Nat /\ Cardinality(wbudget) <= FuzzLimit /\ FuzzLimit \in Nat
    BY ClaimsFinite, FS_CardinalityType, FS_Subset, SurveyAssumption DEF BudgetInv
  <2> HIDE DEF U
  <2>3. Cardinality(U) <= Cardinality(wbudget) /\ Cardinality(U) \in Nat
    BY <2>1, <2>2, FS_CardinalityType, FS_Subset
  <2>4. Cardinality(U) <= FuzzLimit
    BY <2>2, <2>3
  <2> QED
    BY <2>4 DEF U, A, FuzzWithinBudget
<1> QED
  BY <1>1, <1>2, <1>3

\* and its contacts.
LEMMA WebContacts ==
  ASSUME WebInv
  PROVE  RequestedOnce /\ RestoredAsSaved /\ CrawlReachesItsPages /\ ContentKnowsMissing
<1> USE DEF WebInv
<1>1. RequestedOnce
  BY DEF FetchedInv, FetchesOK, RequestedOnce, Sent
<1>2. RestoredAsSaved
  <2> DEFINE c == wcontacts
             d == Restored(c.exact)
  <2>1. RegistryOK(c) /\ c.exact \in SUBSET Claims /\ (c.full <=> Cardinality(c.exact) >= ContactsMax)
    BY DEF FetchedInv, RegistryOK
  <2>2. RegistryOK(d) /\ d.exact = c.exact /\ (d.full <=> Cardinality(c.exact) >= ContactsMax)
    BY <2>1, RestoredOK
  <2> HIDE DEF d
  <2>3. ASSUME NEW u \in Urls, NEW p \in Purposes PROVE Granted(d, u, p) <=> Granted(c, u, p)
    BY <2>1, <2>2, GrantedByClaims
  <2> QED
    BY <2>3 DEF RestoredAsSaved, d
<1>3. CrawlReachesItsPages
  BY DEF FetchedInv, Fetched, CrawlReachesItsPages
<1>4. ContentKnowsMissing
  BY DEF TasksInv, TaskOK, ContentKnowsMissing
<1> QED
  BY <1>1, <1>2, <1>3, <1>4

-----------------------------------------------------------------------------

\* The survey under the composed specification.
LEMMA WebHolds == MCSpec => []WebInv
<1>1. MCInit => WebInv
  BY WebInvInit DEF MCInit
<1>2. WebInv /\ [MCNext]_<<expvars, webvars, invvars, vars, focus>> => WebInv'
  BY WebInvNext DEF MCNext
<1> QED
  BY <1>1, <1>2, PTL DEF MCSpec

\* Whatever the site answers, however its tasks interleave and however often
\* the scan is resumed: an address is requested once for a purpose until the
\* registry is full, a restored registry decides as the saved one, the crawler
\* reaches its pages, and above level 2 no path is tried before the answer to a
\* missing one is known (contact.rs, decision.rs).
THEOREM ContactsAreExact == MCSpec => []ContactsExact
<1>1. WebInv => ContactsExact
  BY WebContacts DEF ContactsExact
<1> QED
  BY <1>1, WebHolds, PTL

-----------------------------------------------------------------------------

\* The expansion under the composed specification.
LEMMA ExpansionHolds == MCSpec => [](ExpansionInv /\ DepthInv)
<1>1. MCInit => ExpansionInv /\ DepthInv
  BY ExpansionInvInit, DepthInit DEF MCInit
<1>2. ExpansionInv /\ DepthInv /\ [MCNext]_<<expvars, webvars, invvars, vars, focus>> => (ExpansionInv /\ DepthInv)'
  BY ExpansionInvNext, DepthNext DEF MCNext
<1> QED
  BY <1>1, <1>2, PTL DEF MCSpec

\* Whatever leads to what, for any plans, sites and worlds: the expansion of a
\* plan goes no deeper than its limit and makes no more single hosts of its
\* ranges than the budget for hosts, the tasks below a crawl's root are no more
\* than its allowance, the addresses of an origin whose parameters are varied
\* (not the tasks that vary them) are within its budget, and an investigation
\* keeps to its own (execution.rs, decision.rs, investigate.rs).
THEOREM DecisionsStayWithinBounds == MCSpec => []DecisionsWithinBounds
<1>1. ExpansionInv /\ DepthInv /\ WebInv /\ InquiryInv => DecisionsWithinBounds
  BY ExpansionBounded, WebBounded, InquiryTyped DEF DecisionsWithinBounds
<1> QED
  BY <1>1, ExpansionHolds, WebHolds, InquiryHolds, PTL
=============================================================================
