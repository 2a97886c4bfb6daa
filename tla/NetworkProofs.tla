--------------------------- MODULE NetworkProofs ---------------------------
(***************************************************************************)
(* Theorems about what sends requests: host discovery, the resolver, the   *)
(* port tasks, the sweeps and the search in waves, for every set of ports, *)
(* addresses, names and providers, every window and every retry budget.    *)
(***************************************************************************)
EXTENDS MCNetwork, QueueLemmas, FiniteSetTheorems, SequenceTheorems, TLAPS

-----------------------------------------------------------------------------
(* Host discovery.                                                         *)

\* Where a probe stands, and what the records and the result may say there:
\* an answer ends the probing of the address that gave it, and the result is
\* concluded from the records, once.
HostInv ==
  /\ HostTypeOK
  /\ hstage = "resolve" => hat = 1 /\ hrecords = {} /\ hprimary = 0
  /\ hstage \in {"link", "echo", "doors"} => hat \in hsetup.permitted /\ hat \in Candidates
  /\ Answered # {} => hstage \in {"conclude", "over"}
  /\ Answered \subseteq {hat}
  /\ \A r \in hrecords : /\ r.how = "scope" => r.outcome = "unavailable"
                         /\ r.how # "scope" => r.addr \in hsetup.permitted /\ hprimary # 0
  /\ hstage \in {"link", "echo", "doors"} => hprimary # 0
  /\ hprimary # 0 => hprimary \in hsetup.permitted
  /\ hstage # "over" => hresult.kind = "none"
  /\ hresult.kind # "concluded" => hresult.state = "unknown"
  /\ hresult.kind = "concluded" => /\ hresult.state = Concluded(hrecords)
                                   /\ hprimary # 0 => hresult.addr = hprimary

\* A host probe begins in its invariant.
LEMMA HostInitInv == HostInit => HostInv
<1> SUFFICES ASSUME HostInit PROVE HostInv
  OBVIOUS
<1>1. 1 \in Candidates
  BY HostAssumption, FS_CardinalityType DEF HostAssumption
<1>2. HostTypeOK
  BY <1>1 DEF HostInit, HostTypeOK, States
<1>3. Answered = {}
  BY DEF HostInit, Answered
<1> QED
  BY <1>2, <1>3 DEF HostInit, HostInv

\* The next candidate, or one past the last.
LEMMA HostNextCandidate ==
  ASSUME NEW a \in Candidates
  PROVE  a + 1 \in Candidates \cup {Cardinality(Candidates) + 1} /\ 1 \in Candidates
<1>1. Cardinality(Candidates) \in Nat /\ Candidates = 1 .. Cardinality(Candidates)
  BY HostAssumption, FS_CardinalityType DEF HostAssumption
<1>2. \A n \in Nat : a \in 1 .. n => a + 1 \in (1 .. n) \cup {n + 1} /\ 1 \in 1 .. n
  OBVIOUS
<1> QED
  BY <1>1, <1>2

\* A probe of the current address adds one record about it.
LEMMA HostNotes ==
  ASSUME HostInv, NEW how \in {"link", "echo", "door"}, NEW o \in Outcomes, Note(how, o),
         hstage \in {"link", "echo", "doors"}, hprimary' = hprimary, hsetup' = hsetup
  PROVE  /\ hrecords' \subseteq [addr : Candidates, how : {"scope", "link", "echo", "door"},
                                 outcome : Outcomes]
         /\ \A r \in hrecords' : /\ r.how = "scope" => r.outcome = "unavailable"
                                 /\ r.how # "scope" => r.addr \in hsetup'.permitted /\ hprimary' # 0
         /\ Answered' \subseteq {hat}
         /\ o # "success" => Answered' = {}
         /\ o = "success" => Concluded(hrecords') = "alive"
<1> DEFINE r0 == [addr |-> hat, how |-> how, outcome |-> o]
<1>1. hrecords' = hrecords \cup {r0}
  BY DEF Note
<1>2. r0 \in [addr : Candidates, how : {"scope", "link", "echo", "door"}, outcome : Outcomes]
  BY DEF HostInv
<1>3. r0.addr = hat /\ r0.how = how /\ r0.outcome = o
  OBVIOUS
<1> HIDE DEF r0
<1>4. Answered = {} /\ \A r \in hrecords : r.outcome # "success"
  BY DEF HostInv, Answered
<1>5. Answered' = IF o = "success" THEN {hat} ELSE {}
  BY <1>1, <1>3, <1>4 DEF Answered
<1>6. o = "success" => Concluded(hrecords') = "alive"
  BY <1>1, <1>3 DEF Concluded
<1>7. hrecords \subseteq [addr : Candidates, how : {"scope", "link", "echo", "door"},
                          outcome : Outcomes]
  BY DEF HostInv, HostTypeOK
<1>8. \A r \in hrecords' : /\ r.how = "scope" => r.outcome = "unavailable"
                           /\ r.how # "scope" => r.addr \in hsetup'.permitted /\ hprimary' # 0
  BY <1>1, <1>3 DEF HostInv
<1> QED
  BY <1>1, <1>2, <1>5, <1>6, <1>7, <1>8

\* Every step of a discovery keeps it.
LEMMA HostNextInv ==
  ASSUME HostInv, [HostNext]_hostvars
  PROVE  HostInv'
<1>n. 1 \in Candidates /\ Cardinality(Candidates) \in Nat
  BY HostAssumption, FS_CardinalityType DEF HostAssumption
<1>1. CASE HostStop
  <2>1. Answered' = Answered
    BY <1>1 DEF HostStop, Answered
  <2> QED
    BY <1>1, <2>1 DEF HostStop, HostInv, HostTypeOK
<1>2. CASE HostResolve
  <2>1. Answered' = Answered /\ Concluded({}) = "unknown"
    BY <1>2 DEF HostResolve, Answered, Concluded
  <2>2. HostTypeOK'
    BY <1>2 DEF HostResolve, HostInv, HostTypeOK
  <2>3. hstage = "resolve" /\ hresult.kind = "none" /\ hresult.state = "unknown"
        /\ hrecords = {} /\ hprimary = 0
    BY <1>2 DEF HostResolve, HostInv
  <2>4. /\ hresult'.state = "unknown"
        /\ hstage' # "over" => hresult'.kind = "none"
        /\ hstage' \in {"begin", "over"}
    BY <1>2, <2>3 DEF HostResolve, HostInv, HostTypeOK
  <2> QED
    BY <1>2, <2>1, <2>2, <2>3, <2>4 DEF HostResolve, HostInv
<1>3. CASE HostBegin
  <2>1. hstage = "begin" /\ hat \in Candidates /\ hresult' = hresult /\ hsetup' = hsetup
        /\ hworld' = hworld /\ hcount' = 0 /\ Answered = {}
    BY <1>3 DEF HostBegin, HostInv
  <2>2. CASE ~ InScope(hat)
    <3> DEFINE r0 == [addr |-> hat, how |-> "scope", outcome |-> "unavailable"]
    <3>1. /\ hrecords' = hrecords \cup {r0} /\ hat' = hat + 1
          /\ hstage' = hstage /\ hprimary' = hprimary
      BY <1>3, <2>2 DEF HostBegin
    <3>2. r0 \in [addr : Candidates, how : {"scope", "link", "echo", "door"}, outcome : Outcomes]
      BY <2>1 DEF Outcomes
    <3>3. r0.how = "scope" /\ r0.outcome = "unavailable"
      OBVIOUS
    <3> HIDE DEF r0
    <3>4. Answered' = {}
      BY <2>1, <3>1, <3>3 DEF Answered
    <3>5. hat' \in Candidates \cup {Cardinality(Candidates) + 1}
      BY <2>1, <3>1, HostNextCandidate
    <3>6. HostTypeOK'
      BY <2>1, <3>1, <3>2, <3>5 DEF HostInv, HostTypeOK
    <3> QED
      BY <2>1, <3>1, <3>3, <3>4, <3>6 DEF HostInv
  <2>3. CASE InScope(hat)
    <3>1. /\ hrecords' = hrecords /\ hat' = hat /\ hstage' \in {"conclude", "link"}
          /\ hprimary' = IF hprimary = 0 THEN hat ELSE hprimary
      BY <1>3, <2>3 DEF HostBegin
    <3>2. Answered' = {}
      BY <2>1, <3>1 DEF Answered
    <3>3. HostTypeOK'
      BY <2>1, <3>1 DEF HostInv, HostTypeOK
    <3>4. hat # 0
      BY <2>1, HostAssumption, <1>n DEF HostAssumption
    <3>5. hprimary' # 0 /\ hprimary' \in hsetup'.permitted /\ hat' \in hsetup'.permitted
      BY <2>1, <2>3, <3>1, <3>4 DEF HostInv, InScope
    <3> QED
      BY <2>1, <3>1, <3>2, <3>3, <3>5 DEF HostInv
  <2> QED
    BY <2>2, <2>3
<1>4. CASE HostLink
  <2>1. /\ hstage = "link" /\ hat' = hat /\ hcount' = hcount /\ hprimary' = hprimary
        /\ hsetup' = hsetup /\ hworld' = hworld /\ hresult' = hresult
    BY <1>4 DEF HostLink
  <2>2. CASE hrecords' = hrecords /\ hstage' = "echo"
    <3>1. Answered' = Answered
      BY <2>2 DEF Answered
    <3> QED
      BY <2>1, <2>2, <3>1 DEF HostInv, HostTypeOK
  <2>3. ASSUME NEW o \in {"success", "timeout", "unavailable"}, Note("link", o),
               hstage' = IF o = "success" THEN "conclude" ELSE "echo"
        PROVE  HostInv'
    <3>1. o \in Outcomes
      BY DEF Outcomes
    <3> QED
      BY <2>1, <2>3, <3>1, HostNotes DEF HostInv, HostTypeOK
  <2> QED
    BY <1>4, <2>2, <2>3 DEF HostLink
<1>5. CASE HostEcho
  <2>1. /\ hstage = "echo" /\ hat' = hat /\ hprimary' = hprimary
        /\ hsetup' = hsetup /\ hworld' = hworld /\ hresult' = hresult
    BY <1>5 DEF HostEcho
  <2>2. CASE hrecords' = hrecords /\ hstage' = "doors" /\ hcount' = 0
    <3>1. Answered' = Answered
      BY <2>2 DEF Answered
    <3> QED
      BY <2>1, <2>2, <3>1 DEF HostInv, HostTypeOK
  <2>3. ASSUME NEW o \in Outcomes, Note("echo", o),
               IF o \in {"success", "unavailable"} \/ hcount + 1 = MaxEchoes
               THEN /\ hstage' = IF Concluded(hrecords') = "alive" THEN "conclude" ELSE "doors"
                    /\ hcount' = 0
               ELSE hcount' = hcount + 1 /\ UNCHANGED hstage
        PROVE  HostInv'
    <3>1. hcount' \in Nat /\ hstage' \in {"conclude", "doors", "echo"}
      BY <2>1, <2>3 DEF HostInv, HostTypeOK
    <3>2. o = "success" => hstage' = "conclude"
      BY <2>1, <2>3, HostNotes
    <3> QED
      BY <2>1, <2>3, <3>1, <3>2, HostNotes DEF HostInv, HostTypeOK
  <2> QED
    BY <1>5, <2>2, <2>3 DEF HostEcho
<1>6. CASE HostDoor
  <2>1. /\ hstage = "doors" /\ hprimary' = hprimary /\ hat \in Candidates
        /\ hsetup' = hsetup /\ hworld' = hworld /\ hresult' = hresult
    BY <1>6 DEF HostDoor, HostInv
  <2>2. CASE hrecords' = hrecords /\ NextAddress
    <3>1. Answered' = {}
      BY <2>1, <2>2 DEF Answered, HostInv
    <3>2. hat' \in Candidates \cup {Cardinality(Candidates) + 1} /\ hstage' = "begin" /\ hcount' = 0
      BY <2>1, <2>2, HostNextCandidate DEF NextAddress
    <3> QED
      BY <2>1, <2>2, <3>1, <3>2 DEF HostInv, HostTypeOK
  <2>3. ASSUME NEW o \in Outcomes, Note("door", o),
               IF o = "success"
               THEN hstage' = "conclude" /\ UNCHANGED <<hat, hcount>>
               ELSE hcount' = hcount + 1 /\ UNCHANGED <<hat, hstage>>
        PROVE  HostInv'
    <3>1. hcount' \in Nat /\ hat' = hat
      BY <2>3 DEF HostInv, HostTypeOK
    <3> QED
      BY <2>1, <2>3, <3>1, HostNotes DEF HostInv, HostTypeOK
  <2> QED
    BY <1>6, <2>2, <2>3 DEF HostDoor
<1>7. CASE HostConclude
  <2>1. Answered' = Answered /\ Concluded(hrecords) \in States
    BY <1>7 DEF HostConclude, Answered, Concluded, States
  <2>2. hresult' = [kind |-> "concluded", state |-> Concluded(hrecords),
                    addr |-> IF hprimary # 0 THEN hprimary ELSE 1]
    BY <1>7 DEF HostConclude
  <2>3. /\ hresult'.kind = "concluded" /\ hresult'.state = Concluded(hrecords)
        /\ hprimary # 0 => hresult'.addr = hprimary
    BY <2>2
  <2>4. HostTypeOK'
    BY <1>n, <1>7, <2>1, <2>2 DEF HostConclude, HostInv, HostTypeOK
  <2> QED
    BY <1>7, <2>1, <2>3, <2>4 DEF HostConclude, HostInv
<1>8. CASE HostCancel \/ HostSpend
  <2>1. Answered' = Answered
    BY <1>8 DEF HostCancel, HostSpend, Answered
  <2>2. HostTypeOK'
    BY <1>8 DEF HostCancel, HostSpend, HostInv, HostTypeOK
  <2> QED
    BY <1>8, <2>1, <2>2 DEF HostCancel, HostSpend, HostInv
<1>9. CASE UNCHANGED hostvars
  <2>1. Answered' = Answered
    BY <1>9 DEF hostvars, Answered
  <2> QED
    BY <1>9, <2>1 DEF hostvars, HostInv, HostTypeOK
<1> QED
  BY <1>1, <1>2, <1>3, <1>4, <1>5, <1>6, <1>7, <1>8, <1>9 DEF HostNext

\* What the invariant says of the host's state and of the scope.
LEMMA HostInvImplies == HostInv => HostTypeOK /\ HostStateJustified /\ HostStaysInScope
<1> SUFFICES ASSUME HostInv PROVE HostTypeOK /\ HostStateJustified /\ HostStaysInScope
  OBVIOUS
<1>1. Answered # {} => Answered = {hat} /\ Cardinality(Answered) = 1
  <2>1. Answered = {} \/ Answered = {hat}
    BY DEF HostInv
  <2>2. Cardinality({hat}) = 1
    BY FS_Singleton
  <2> QED
    BY <2>1, <2>2
<1>2. Answered # {} <=> \E r \in hrecords : r.outcome = "success"
  BY DEF Answered
<1>3. HostStateJustified
  BY <1>1, <1>2 DEF HostInv, HostStateJustified, Concluded
<1>4. hresult.state = "alive" => hprimary # 0 /\ hresult.kind = "concluded"
  BY DEF HostInv, Concluded
<1>5. HostStaysInScope
  BY <1>4 DEF HostInv, HostStaysInScope, PortScanOf
<1> QED
  BY <1>3, <1>5 DEF HostInv

-----------------------------------------------------------------------------
(* Name resolution.                                                        *)

\* Every claim has an asker or an output, and, unless the registry was once
\* full, what is being asked is claimed, by one asker, and was not answered.
DnsInv ==
  /\ DnsTypeOK
  /\ \A n \in Names : /\ dtask[n].stage = "ready" => dtask[n].asked = {}
                      /\ dtask[n].stage = "claim" /\ dtask[n].hop = 0 => dtask[n].asked = {}
                      /\ dtask[n].stage = "ask" => dtask[n].at \in dtask[n].asked
  /\ \A q \in dclaims : q \in dheard \cup dlost \/ \E n \in Running : q \in dtask[n].asked
  /\ dfull => dfilled
  /\ ~ dfilled =>
       /\ dsettled \subseteq dclaims
       /\ \A n \in Names : dtask[n].stage = "ask" => dtask[n].at \in dclaims \ dsettled
       /\ \A m, n \in Names : dtask[m].stage = "ask" /\ dtask[n].stage = "ask" /\
                              dtask[m].at = dtask[n].at => m = n

TaskType == [stage : {"ready", "claim", "ask", "done", "refused", "cancelled"},
             at : Names \cup {"none"}, hop : 0..MaxHops - 1, seen : SUBSET Names,
             asked : SUBSET Names]

\* So does the registry of queries.
LEMMA DnsInitInv == DnsInit => DnsInv
<1> SUFFICES ASSUME DnsInit PROVE DnsInv
  OBVIOUS
<1>1. NotBegun \in TaskType /\ NotBegun.stage = "ready"
  BY DnsAssumption DEF NotBegun, TaskType, DnsAssumption
<1>2. \A n \in Names : dtask[n] = NotBegun
  BY DEF DnsInit
<1>3. Cardinality({}) <= PerDomain /\ 0 \in 0 .. MaxResumes
  BY FS_EmptySet, DnsAssumption DEF DnsAssumption
<1>4. DnsTypeOK
  BY <1>1, <1>2, <1>3 DEF DnsInit, DnsTypeOK, Running, TaskType
<1>5. /\ dclaims = {} /\ dsettled = {} /\ dfull = FALSE
      /\ \A n \in Names : dtask[n].stage = "ready"
  BY <1>1, <1>2 DEF DnsInit
<1>6. Running = {} /\ \A n \in Names : dtask[n].asked = {}
  BY <1>2, <1>5 DEF Running, NotBegun
<1>7. dfull => dfilled
  BY <1>5
<1> QED
  BY <1>4, <1>5, <1>6, <1>7 DEF DnsInv

\* A task that ends hands what it asked for to its output, kept or not.
LEMMA DnsEnded ==
  ASSUME DnsInv, NEW n \in Names, NEW ok \in BOOLEAN, DnsEnd(n, ok),
         dtask[n].stage \in {"claim", "ask"},
         UNCHANGED <<dfull, dfilled, dbudget, dtold, dresumes>>,
         dclaims \ {dtask[n].at} \subseteq dclaims', dclaims' \subseteq dclaims,
         dsettled \subseteq dsettled', dsettled' \subseteq dsettled \cup {dtask[n].at},
         dtask[n].stage = "claim" => dclaims' = dclaims /\ dsettled' = dsettled,
         ~ dfilled /\ dtask[n].at \in dsettled' => dclaims' = dclaims
  PROVE  DnsInv'
<1>1. /\ dtask \in [Names -> TaskType] /\ dtask[n].at \in Names
      /\ dtask[n].asked \subseteq Names
  BY DEF DnsInv, DnsTypeOK, TaskType, Running
<1>2. PICK s \in {"done", "cancelled"} : dtask' = [dtask EXCEPT ![n].stage = s]
  BY DEF DnsEnd
<1>3. /\ dtask' \in [Names -> TaskType]
      /\ dtask'[n].stage \in {"done", "cancelled"}
      /\ \A m \in Names : m # n => dtask'[m] = dtask[m]
  BY <1>1, <1>2 DEF TaskType
<1>4. /\ dheard \subseteq dheard' /\ dlost \subseteq dlost'
      /\ dtask[n].asked \subseteq dheard' \cup dlost'
      /\ dheard' \cup dlost' \subseteq Names
  BY <1>1 DEF DnsEnd, DnsInv, DnsTypeOK
<1>5. Running' = Running \ {n}
  BY <1>3 DEF Running
<1>6. DnsTypeOK'
  <2>1. dclaims' \cup dtold' \cup dsettled' \cup dheard' \cup dlost' \subseteq Names
    BY <1>1, <1>4 DEF DnsInv, DnsTypeOK
  <2>2. \A m \in Running' : dtask'[m].at \in Names
    BY <1>3, <1>5 DEF DnsInv, DnsTypeOK, Running
  <2> QED
    BY <1>3, <2>1, <2>2 DEF DnsInv, DnsTypeOK, TaskType
<1>7. \A q \in dclaims' : q \in dheard' \cup dlost' \/ \E m \in Running' : q \in dtask'[m].asked
  <2> SUFFICES ASSUME NEW q \in dclaims', q \notin dheard' \cup dlost'
               PROVE  \E m \in Running' : q \in dtask'[m].asked
    OBVIOUS
  <2>1. PICK m \in Running : q \in dtask[m].asked
    BY <1>4 DEF DnsInv
  <2>2. m # n
    BY <1>4, <2>1
  <2> QED
    BY <1>3, <1>5, <2>1, <2>2 DEF Running
<1>8. ASSUME ~ dfilled
      PROVE  /\ dsettled' \subseteq dclaims'
             /\ \A m \in Names : dtask'[m].stage = "ask" => dtask'[m].at \in dclaims' \ dsettled'
             /\ \A l, m \in Names : dtask'[l].stage = "ask" /\ dtask'[m].stage = "ask" /\
                                    dtask'[l].at = dtask'[m].at => l = m
  <2>1. /\ dsettled \subseteq dclaims
        /\ \A m \in Names : dtask[m].stage = "ask" => dtask[m].at \in dclaims \ dsettled
        /\ \A l, m \in Names : dtask[l].stage = "ask" /\ dtask[m].stage = "ask" /\
                               dtask[l].at = dtask[m].at => l = m
    BY <1>8 DEF DnsInv
  <2>2. dsettled' \subseteq dclaims'
    <3>1. CASE dtask[n].stage = "ask"
      <4>1. dtask[n].at \in dclaims /\ dtask[n].at \notin dsettled
        BY <2>1, <3>1
      <4>2. CASE dclaims' = dclaims
        BY <2>1, <4>1, <4>2
      <4>3. CASE dclaims' # dclaims
        <5>1. dtask[n].at \notin dsettled'
          BY <1>8, <4>3
        <5> QED
          BY <2>1, <5>1
      <4> QED
        BY <4>2, <4>3
    <3>2. CASE dtask[n].stage = "claim"
      BY <2>1, <3>2
    <3> QED
      BY <3>1, <3>2
  <2>3. ASSUME NEW m \in Names, dtask'[m].stage = "ask"
        PROVE  dtask'[m].at \in dclaims' \ dsettled'
    <3>1. m # n /\ dtask'[m] = dtask[m] /\ dtask[m].at \in dclaims \ dsettled
      BY <1>3, <2>1, <2>3
    <3>2. dtask[n].stage = "ask" => dtask[m].at # dtask[n].at
      BY <1>3, <2>1, <2>3, <3>1
    <3> QED
      BY <3>1, <3>2
  <2>4. ASSUME NEW l \in Names, NEW m \in Names, dtask'[l].stage = "ask", dtask'[m].stage = "ask",
               dtask'[l].at = dtask'[m].at
        PROVE  l = m
    <3>1. dtask'[l] = dtask[l] /\ dtask'[m] = dtask[m]
      BY <1>3, <2>4
    <3> QED
      BY <2>1, <2>4, <3>1
  <2> QED
    BY <2>2, <2>3, <2>4
<1>9. \A m \in Names : /\ dtask'[m].stage = "ready" => dtask'[m].asked = {}
                       /\ dtask'[m].stage = "claim" /\ dtask'[m].hop = 0 => dtask'[m].asked = {}
                       /\ dtask'[m].stage = "ask" => dtask'[m].at \in dtask'[m].asked
  BY <1>3 DEF DnsInv
<1> QED
  BY <1>6, <1>7, <1>8, <1>9 DEF DnsInv

\* A step of a task that neither starts to ask nor ends.
LEMMA DnsMoved ==
  ASSUME DnsInv, NEW n \in Names, NEW r \in TaskType, dtask' = [dtask EXCEPT ![n] = r],
         UNCHANGED <<dclaims, dfull, dfilled, dtold, dheard, dlost, dresumes>>,
         dsettled' = dsettled \/ (dtask[n].stage = "ask" /\ dsettled' = dsettled \cup {dtask[n].at}),
         dbudget' \subseteq Names, Cardinality(dbudget') <= PerDomain,
         dtask[n].asked \subseteq r.asked, r.stage \notin {"ready", "ask"},
         n \in Running => r.stage = "claim" \/ dtask[n].asked = {},
         r.stage = "claim" => r.at \in Names /\ (r.hop = 0 => r.asked = {})
  PROVE  DnsInv'
<1>1. dtask \in [Names -> TaskType]
  BY DEF DnsInv, DnsTypeOK, TaskType
<1>2. /\ dtask' \in [Names -> TaskType] /\ dtask'[n] = r
      /\ \A m \in Names : m # n => dtask'[m] = dtask[m]
  BY <1>1
<1>3. dtask[n].stage = "ask" => dtask[n].at \in Names
  BY DEF DnsInv, DnsTypeOK, Running
<1>4. \A m \in Running' : dtask'[m].at \in Names
  BY <1>2 DEF DnsInv, DnsTypeOK, Running
<1>5. DnsTypeOK'
  BY <1>2, <1>3, <1>4 DEF DnsInv, DnsTypeOK, TaskType
<1>6. \A q \in dclaims' : q \in dheard' \cup dlost' \/ \E m \in Running' : q \in dtask'[m].asked
  <2> SUFFICES ASSUME NEW q \in dclaims, q \notin dheard \cup dlost
               PROVE  \E m \in Running' : q \in dtask'[m].asked
    OBVIOUS
  <2>1. PICK m \in Running : q \in dtask[m].asked
    BY DEF DnsInv
  <2>2. m # n => m \in Running' /\ q \in dtask'[m].asked
    BY <1>2, <2>1 DEF Running
  <2>3. m = n => m \in Running' /\ q \in dtask'[m].asked
    BY <1>2, <2>1 DEF Running
  <2> QED
    BY <2>2, <2>3
<1>7. ASSUME ~ dfilled
      PROVE  /\ dsettled' \subseteq dclaims'
             /\ \A m \in Names : dtask'[m].stage = "ask" => dtask'[m].at \in dclaims' \ dsettled'
             /\ \A l, m \in Names : dtask'[l].stage = "ask" /\ dtask'[m].stage = "ask" /\
                                    dtask'[l].at = dtask'[m].at => l = m
  <2>1. /\ dsettled \subseteq dclaims
        /\ \A m \in Names : dtask[m].stage = "ask" => dtask[m].at \in dclaims \ dsettled
        /\ \A l, m \in Names : dtask[l].stage = "ask" /\ dtask[m].stage = "ask" /\
                               dtask[l].at = dtask[m].at => l = m
    BY <1>7 DEF DnsInv
  <2>2. dsettled' \subseteq dclaims'
    BY <2>1
  <2>3. ASSUME NEW m \in Names, dtask'[m].stage = "ask"
        PROVE  dtask'[m].at \in dclaims' \ dsettled'
    <3>1. m # n /\ dtask'[m] = dtask[m] /\ dtask[m].at \in dclaims \ dsettled
      BY <1>2, <2>1, <2>3
    <3>2. dtask[n].stage = "ask" => dtask[m].at # dtask[n].at
      BY <2>1, <2>3, <3>1
    <3> QED
      BY <3>1, <3>2
  <2>4. ASSUME NEW l \in Names, NEW m \in Names, dtask'[l].stage = "ask", dtask'[m].stage = "ask",
               dtask'[l].at = dtask'[m].at
        PROVE  l = m
    <3>1. dtask'[l] = dtask[l] /\ dtask'[m] = dtask[m]
      BY <1>2, <2>4
    <3> QED
      BY <2>1, <2>4, <3>1
  <2> QED
    BY <2>2, <2>3, <2>4
<1>8. \A m \in Names : /\ dtask'[m].stage = "ready" => dtask'[m].asked = {}
                       /\ dtask'[m].stage = "claim" /\ dtask'[m].hop = 0 => dtask'[m].asked = {}
                       /\ dtask'[m].stage = "ask" => dtask'[m].at \in dtask'[m].asked
  BY <1>2 DEF DnsInv
<1> QED
  BY <1>5, <1>6, <1>7, <1>8 DEF DnsInv

\* A query is claimed and made.
LEMMA DnsClaimed ==
  ASSUME DnsInv, NEW n \in Names, DnsClaim(n), dfull \/ dtask[n].at \notin dclaims
  PROVE  DnsInv'
<1> DEFINE q == dtask[n].at
           r == [dtask[n] EXCEPT !.stage = "ask", !.asked = @ \cup {q}]
<1>1. /\ dtask \in [Names -> TaskType] /\ dtask[n].stage = "claim" /\ q \in Names
      /\ n \in Running
  BY DEF DnsInv, DnsTypeOK, TaskType, Running, DnsClaim
<1>2. /\ dtask' = [dtask EXCEPT ![n] = r]
      /\ dclaims' = IF dfull THEN dclaims ELSE dclaims \cup {q}
      /\ dfull' = (dfull \/ Cardinality(dclaims') >= RegistryMax)
      /\ dfilled' = (dfilled \/ dfull')
      /\ UNCHANGED <<dheard, dlost, dbudget, dtold, dsettled, dresumes>>
  BY <1>1 DEF DnsClaim
<1>3. /\ r \in TaskType /\ r.stage = "ask" /\ r.at = q /\ q \in r.asked
      /\ dtask[n].asked \subseteq r.asked
  <2>1. dtask[n] \in TaskType
    BY <1>1
  <2>2. r.stage = "ask" /\ r.at = q /\ r.asked = dtask[n].asked \cup {q}
    BY <2>1 DEF TaskType
  <2>3. r \in TaskType
    BY <1>1, <2>1 DEF TaskType
  <2> QED
    BY <2>2, <2>3
<1> HIDE DEF r
<1>4. /\ dtask' \in [Names -> TaskType] /\ dtask'[n] = r
      /\ \A m \in Names : m # n => dtask'[m] = dtask[m]
  BY <1>1, <1>2, <1>3
<1>5. Running' = Running
  BY <1>1, <1>3, <1>4 DEF Running
<1>6. DnsTypeOK'
  <2>1. dclaims' \cup dtold' \cup dsettled' \cup dheard' \cup dlost' \subseteq Names
    BY <1>1, <1>2 DEF DnsInv, DnsTypeOK
  <2>2. \A m \in Running' : dtask'[m].at \in Names
    BY <1>1, <1>3, <1>4, <1>5 DEF DnsInv, DnsTypeOK, Running
  <2>3. dfull' \in BOOLEAN /\ dfilled' \in BOOLEAN
    BY <1>2 DEF DnsInv, DnsTypeOK
  <2> QED
    BY <1>2, <1>4, <2>1, <2>2, <2>3 DEF DnsInv, DnsTypeOK, TaskType
<1>7. ASSUME NEW c \in dclaims'
      PROVE  c \in dheard' \cup dlost' \/ \E m \in Running' : c \in dtask'[m].asked
  <2>1. CASE c = q
    BY <1>1, <1>3, <1>4, <1>5, <2>1
  <2>2. CASE c # q /\ \E m \in Running : c \in dtask[m].asked
    BY <1>3, <1>4, <1>5, <2>2 DEF Running
  <2>3. CASE c # q /\ c \in dheard \cup dlost
    BY <1>2, <2>3
  <2> QED
    BY <1>2, <2>1, <2>2, <2>3 DEF DnsInv
<1>8. \A m \in Names : /\ dtask'[m].stage = "ready" => dtask'[m].asked = {}
                       /\ dtask'[m].stage = "claim" /\ dtask'[m].hop = 0 => dtask'[m].asked = {}
                       /\ dtask'[m].stage = "ask" => dtask'[m].at \in dtask'[m].asked
  BY <1>3, <1>4 DEF DnsInv
<1>9. ASSUME ~ dfilled'
      PROVE  /\ dsettled' \subseteq dclaims'
             /\ \A m \in Names : dtask'[m].stage = "ask" => dtask'[m].at \in dclaims' \ dsettled'
             /\ \A l, m \in Names : dtask'[l].stage = "ask" /\ dtask'[m].stage = "ask" /\
                                    dtask'[l].at = dtask'[m].at => l = m
  <2>1. /\ dsettled \subseteq dclaims
        /\ \A m \in Names : dtask[m].stage = "ask" => dtask[m].at \in dclaims \ dsettled
        /\ \A l, m \in Names : dtask[l].stage = "ask" /\ dtask[m].stage = "ask" /\
                               dtask[l].at = dtask[m].at => l = m
        /\ ~ dfull /\ q \notin dclaims /\ dclaims' = dclaims \cup {q}
    BY <1>2, <1>9 DEF DnsInv
  <2> HIDE DEF q
  <2>2. ASSUME NEW m \in Names, dtask'[m].stage = "ask"
        PROVE  dtask'[m].at \in dclaims' \ dsettled'
    <3>1. CASE m = n
      BY <1>2, <1>3, <1>4, <2>1, <3>1
    <3>2. CASE m # n
      BY <1>2, <1>4, <2>1, <2>2, <3>2
    <3> QED
      BY <3>1, <3>2
  <2>3. ASSUME NEW m \in Names, m # n, dtask'[m].stage = "ask"
        PROVE  dtask'[m] = dtask[m] /\ dtask[m].at # q
    BY <1>4, <2>1, <2>3
  <2>4. ASSUME NEW l \in Names, NEW m \in Names, dtask'[l].stage = "ask", dtask'[m].stage = "ask",
               dtask'[l].at = dtask'[m].at
        PROVE  l = m
    <3>1. CASE l = n \/ m = n
      BY <1>3, <1>4, <2>3, <2>4, <3>1
    <3>2. CASE l # n /\ m # n
      BY <2>1, <2>3, <2>4, <3>2
    <3> QED
      BY <3>1, <3>2
  <2>5. dsettled' \subseteq dclaims'
    BY <1>2, <2>1
  <2> QED
    BY <2>2, <2>4, <2>5
<1> QED
  BY <1>2, <1>6, <1>7, <1>8, <1>9 DEF DnsInv

\* A name more in the budget counts for one more.
LEMMA DnsBudgetGrows ==
  ASSUME dbudget \subseteq Names, NEW n \in Names, Cardinality(dbudget) <= PerDomain,
         n \in dbudget \/ Cardinality(dbudget) < PerDomain
  PROVE  Cardinality(dbudget \cup {n}) <= PerDomain
<1>1. IsFiniteSet(Names)
  BY DnsAssumption DEF DnsAssumption
<1>2. IsFiniteSet(dbudget)
  BY <1>1, FS_Subset
<1>3. CASE n \in dbudget
  <2>1. dbudget \cup {n} = dbudget
    BY <1>3
  <2> QED
    BY <2>1
<1>4. CASE n \notin dbudget
  <2>1. Cardinality(dbudget \cup {n}) = Cardinality(dbudget) + 1 /\ Cardinality(dbudget) \in Nat
    BY <1>2, <1>4, FS_AddElement, FS_CardinalityType
  <2> QED
    BY <1>4, <2>1, DnsAssumption DEF DnsAssumption
<1> QED
  BY <1>3, <1>4

\* Every step of the resolver's tasks keeps the invariant.
LEMMA DnsNextInv == DnsInv /\ [DnsNext]_dnsvars => DnsInv'
<1> SUFFICES ASSUME DnsInv, [DnsNext]_dnsvars PROVE DnsInv'
  OBVIOUS
<1>t. /\ dtask \in [Names -> TaskType]
      /\ \A n \in Running : dtask[n].at \in Names
      /\ dbudget \subseteq Names /\ Cardinality(dbudget) <= PerDomain
  BY DEF DnsInv, DnsTypeOK, TaskType
<1>h. 0 \in 0 .. MaxHops - 1
  BY DnsAssumption DEF DnsAssumption
<1>1. ASSUME NEW n \in Names, DnsStart(n) PROVE DnsInv'
  <2>1. n \notin Running /\ dtask[n] \in TaskType
    BY <1>1, <1>t DEF DnsStart, Running
  <2>2. CASE Admits(n)
    <3> DEFINE r == [stage |-> "claim", at |-> n, hop |-> 0, seen |-> {}, asked |-> {}]
    <3>1. /\ dtask' = [dtask EXCEPT ![n] = r] /\ dbudget' = dbudget \cup {n}
          /\ UNCHANGED <<dclaims, dfull, dfilled, dtold, dsettled, dheard, dlost, dresumes>>
      BY <1>1, <2>2 DEF DnsStart
    <3>2. r \in TaskType /\ r.stage = "claim" /\ r.at \in Names /\ r.asked = {} /\ r.hop = 0
      BY <1>h DEF TaskType
    <3>3. Cardinality(dbudget') <= PerDomain /\ dbudget' \subseteq Names
      BY <1>t, <2>2, <3>1, DnsBudgetGrows DEF Admits
    <3>4. dtask[n].asked = {}
      BY <1>1 DEF DnsStart, DnsInv
    <3> HIDE DEF r
    <3> QED
      BY <2>1, <3>1, <3>2, <3>3, <3>4, DnsMoved
  <2>3. CASE ~ Admits(n)
    <3> DEFINE r == [dtask[n] EXCEPT !.stage = "refused"]
    <3>1. /\ dtask' = [dtask EXCEPT ![n] = r] /\ dbudget' = dbudget
          /\ UNCHANGED <<dclaims, dfull, dfilled, dtold, dsettled, dheard, dlost, dresumes>>
      BY <1>1, <2>3 DEF DnsStart
    <3>2. r \in TaskType /\ r.stage = "refused" /\ r.asked = dtask[n].asked
      BY <2>1 DEF TaskType
    <3> HIDE DEF r
    <3> QED
      BY <1>t, <2>1, <3>1, <3>2, DnsMoved
  <2> QED
    BY <2>2, <2>3
<1>2. ASSUME NEW n \in Names, DnsClaim(n) PROVE DnsInv'
  <2>1. CASE dfull \/ dtask[n].at \notin dclaims
    BY <1>2, <2>1, DnsClaimed
  <2>2. CASE ~ dfull /\ dtask[n].at \in dclaims
    <3>1. /\ DnsEnd(n, TRUE) /\ dtask[n].stage = "claim"
          /\ UNCHANGED <<dclaims, dfull, dfilled, dbudget, dtold, dsettled, dresumes>>
      BY <1>2, <2>2 DEF DnsClaim
    <3> QED
      BY <3>1, DnsEnded
  <2> QED
    BY <2>1, <2>2
<1>3. ASSUME NEW n \in Names, DnsAnswer(n) PROVE DnsInv'
  <2>1. /\ DnsEnd(n, TRUE) /\ dtask[n].stage = "ask" /\ dsettled' = dsettled \cup {dtask[n].at}
        /\ UNCHANGED <<dclaims, dfull, dfilled, dbudget, dtold, dresumes>>
    BY <1>3 DEF DnsAnswer
  <2> QED
    BY <2>1, DnsEnded
<1>4. ASSUME NEW n \in Names, DnsAlias(n) PROVE DnsInv'
  <2>1. /\ dtask[n].stage = "ask" /\ dsettled' = dsettled \cup {dtask[n].at}
        /\ UNCHANGED <<dclaims, dfull, dfilled, dbudget, dtold, dresumes>>
    BY <1>4 DEF DnsAlias
  <2>2. CASE DnsEnd(n, TRUE)
    BY <2>1, <2>2, DnsEnded
  <2>3. ASSUME NEW next \in Names, dtask[n].hop + 1 < MaxHops,
               dtask' = [dtask EXCEPT ![n].stage = "claim", ![n].at = next, ![n].hop = @ + 1,
                                      ![n].seen = @ \cup {next}],
               UNCHANGED <<dheard, dlost>>
        PROVE  DnsInv'
    <3> DEFINE r == [dtask[n] EXCEPT !.stage = "claim", !.at = next, !.hop = @ + 1,
                                     !.seen = @ \cup {next}]
    <3>1. dtask[n] \in TaskType /\ n \in Running
      BY <1>t, <2>1 DEF Running
    <3>2. /\ r.stage = "claim" /\ r.at = next /\ r.hop = dtask[n].hop + 1
          /\ r.asked = dtask[n].asked
      BY <3>1 DEF TaskType
    <3>3. dtask[n].hop \in Nat /\ dtask[n].hop + 1 \in 0 .. MaxHops - 1 /\ r.hop # 0
      BY <2>3, <3>1, <3>2, DnsAssumption DEF TaskType, DnsAssumption
    <3>4. r \in TaskType
      BY <3>1, <3>3 DEF TaskType
    <3>5. dtask' = [dtask EXCEPT ![n] = r]
      BY <1>t, <2>3
    <3> HIDE DEF r
    <3> QED
      BY <1>t, <2>1, <2>3, <3>1, <3>2, <3>3, <3>4, <3>5, DnsMoved
  <2>4. dtask[n] \in TaskType /\ MaxHops \in Nat
    BY <1>t, DnsAssumption DEF DnsAssumption
  <2>5. PICK next \in Names :
          IF next \in dtask[n].seen \/ dtask[n].hop + 1 >= MaxHops
          THEN DnsEnd(n, TRUE)
          ELSE /\ dtask' = [dtask EXCEPT ![n].stage = "claim", ![n].at = next, ![n].hop = @ + 1,
                                          ![n].seen = @ \cup {next}]
               /\ UNCHANGED <<dheard, dlost>>
    BY <1>4 DEF DnsAlias
  <2>6. CASE ~ (next \in dtask[n].seen \/ dtask[n].hop + 1 >= MaxHops)
    <3>1. dtask[n].hop + 1 < MaxHops
      BY <2>4, <2>6 DEF TaskType
    <3> QED
      BY <2>3, <2>5, <2>6, <3>1
  <2> QED
    BY <2>2, <2>5, <2>6
<1>5. ASSUME NEW n \in Names, DnsFail(n) PROVE DnsInv'
  <2>1. /\ dtask[n].stage = "ask" /\ DnsEnd(n, TRUE)
        /\ UNCHANGED <<dfull, dfilled, dbudget, dtold, dresumes>>
    BY <1>5 DEF DnsFail
  <2>2. CASE dsettled' = dsettled \cup {dtask[n].at} /\ dclaims' = dclaims
    BY <2>1, <2>2, DnsEnded
  <2>3. CASE dclaims' = dclaims \ {dtask[n].at} /\ dsettled' = dsettled
    <3>1. ~ dfilled => dtask[n].at \notin dsettled'
      BY <2>1, <2>3 DEF DnsInv
    <3> QED
      BY <2>1, <2>3, <3>1, DnsEnded
  <2> QED
    BY <1>5, <2>2, <2>3 DEF DnsFail
<1>6. ASSUME NEW n \in Names, DnsCut(n) PROVE DnsInv'
  <2>1. /\ DnsEnd(n, FALSE) /\ dtask[n].stage = "ask"
        /\ UNCHANGED <<dclaims, dfull, dfilled, dbudget, dtold, dsettled, dresumes>>
    BY <1>6 DEF DnsCut
  <2>2. ~ dfilled => dtask[n].at \notin dsettled
    BY <2>1 DEF DnsInv
  <2> QED
    BY <2>1, <2>2, DnsEnded
<1>7. ASSUME NEW n \in Names, DnsQuit(n) PROVE DnsInv'
  <2> DEFINE r == [dtask[n] EXCEPT !.stage = "cancelled"]
  <2>1. /\ dtask' = [dtask EXCEPT ![n] = r] /\ dtask[n].stage = "claim" /\ dtask[n].hop = 0
        /\ UNCHANGED <<dclaims, dfull, dfilled, dbudget, dtold, dsettled, dheard, dlost, dresumes>>
    BY <1>7 DEF DnsQuit
  <2>2. r \in TaskType /\ r.stage = "cancelled" /\ r.asked = dtask[n].asked
    BY <1>t DEF TaskType
  <2>3. dtask[n].asked = {}
    BY <2>1 DEF DnsInv
  <2> HIDE DEF r
  <2> QED
    BY <1>t, <2>1, <2>2, <2>3, DnsMoved
<1>8. ASSUME NEW n \in Names, DnsReap(n) PROVE DnsInv'
  <2>1. dtold' = dtold \cup {n} /\ UNCHANGED <<dtask, dclaims, dfull, dfilled, dbudget, dsettled,
                                               dheard, dlost, dresumes>>
    BY <1>8 DEF DnsReap
  <2>2. DnsTypeOK'
    BY <2>1 DEF DnsInv, DnsTypeOK, Running
  <2> QED
    BY <2>1, <2>2 DEF DnsInv, Running
<1>9. CASE DnsResume
  <2>1. /\ dfull' = (Cardinality(dclaims) >= RegistryMax) /\ dfilled' = (dfilled \/ dfull')
        /\ dresumes' = dresumes + 1 /\ dresumes < MaxResumes
        /\ UNCHANGED <<dtask, dclaims, dbudget, dtold, dsettled, dheard, dlost>>
    BY <1>9 DEF DnsResume
  <2>2. dresumes' \in 0 .. MaxResumes /\ dfull' \in BOOLEAN /\ dfilled' \in BOOLEAN
    BY <2>1, DnsAssumption DEF DnsInv, DnsTypeOK, DnsAssumption
  <2>3. DnsTypeOK'
    BY <2>1, <2>2 DEF DnsInv, DnsTypeOK, Running
  <2> QED
    BY <2>1, <2>3 DEF DnsInv, Running
<1>10. CASE UNCHANGED dnsvars
  <2>1. DnsTypeOK'
    BY <1>10 DEF dnsvars, DnsInv, DnsTypeOK, Running
  <2> QED
    BY <1>10, <2>1 DEF dnsvars, DnsInv, Running
<1> QED
  BY <1>1, <1>2, <1>3, <1>4, <1>5, <1>6, <1>7, <1>8, <1>9, <1>10 DEF DnsNext, DnsStep

\* What the invariant says of the queries.
LEMMA DnsInvImplies == DnsInv => DnsTypeOK /\ QueriesExact
<1> SUFFICES ASSUME DnsInv PROVE DnsTypeOK /\ QueriesExact
  OBVIOUS
<1>1. ASSUME ~ dfilled, NEW q \in Names PROVE Cardinality(Asking(q)) <= 1
  <2>1. CASE Asking(q) = {}
    BY <2>1, FS_EmptySet
  <2>2. CASE Asking(q) # {}
    <3>1. PICK n \in Asking(q) : TRUE
      BY <2>2
    <3>2. Asking(q) = {n}
      BY <1>1, <3>1 DEF DnsInv, Asking
    <3>3. Cardinality({n}) = 1
      BY FS_Singleton
    <3> QED
      BY <3>2, <3>3
  <2> QED
    BY <2>1, <2>2
<1>2. ASSUME ~ dfilled, NEW q \in Names, q \in dsettled PROVE Asking(q) = {}
  BY <1>2 DEF DnsInv, Asking
<1>3. DnsAskedOnce
  BY <1>1, <1>2 DEF DnsAskedOnce
<1>4. DnsClaimsHaveOutcome
  BY DEF DnsInv, DnsTypeOK, DnsClaimsHaveOutcome, Orphaned
<1> QED
  BY <1>3, <1>4 DEF QueriesExact, DnsInv

\* The host probe stays in its invariant.
LEMMA HostAlways == HostSpec => []HostInv
  BY HostInitInv, HostNextInv, PTL DEF HostSpec

\* And so does the registry of queries.
LEMMA DnsAlways == DnsSpec => []DnsInv
  BY DnsInitInv, DnsNextInv, PTL DEF DnsSpec

\* Names are asked for once, and no claim is left without an answer: for any
\* names, hops, budgets and registry, however the aliases run, the queries
\* fail and the scan is cut and resumed.
THEOREM QueriesAreExact == DnsSpec => []QueriesExact
  BY DnsAlways, DnsInvImplies, PTL

\* The state of a host follows from what was heard of its addresses.
THEOREM HostStatesAreJustified == HostSpec => []HostStateJustified
  BY HostAlways, HostInvImplies, PTL

-----------------------------------------------------------------------------
(* The connect scan.                                                       *)

TcpEntry == [port : TcpPorts, try : 1 .. TcpRetries + 1]

\* Where a port is: in the queue, in the window, or concluded, at one place.
TcpInv ==
  /\ TcpTypeOK
  /\ PortsDistinct(tq)
  /\ QueuedPorts(tq) \cap InFlight = {}
  /\ \A p \in TcpPorts : IF p \in QueuedPorts(tq) \/ p \in InFlight
                         THEN tprobes[p] = << >> ELSE Len(tprobes[p]) = 1
  /\ tphase # "done" => tend = "nothing"
  /\ tphase = "done" => (tend = "nothing" <=> TcpUnscanned = 0)

\* What is not concluded is what a stopped scan reports as unscanned.
LEMMA TcpUnscannedIsLeft ==
  ASSUME TcpInv
  PROVE  /\ TcpUnscanned = Cardinality({p \in TcpPorts : tprobes[p] = << >>})
         /\ {p \in TcpPorts : tprobes[p] = << >>} = QueuedPorts(tq) \cup InFlight
         /\ TcpUnscanned \in Nat /\ Len(tq) \in Nat /\ Cardinality(InFlight) \in Nat
<1> DEFINE L == {p \in TcpPorts : tprobes[p] = << >>}
<1>1. /\ tq \in Seq(TcpEntry) /\ PortsDistinct(tq) /\ InFlight \subseteq TcpPorts
      /\ QueuedPorts(tq) \cap InFlight = {}
  BY DEF TcpInv, TcpTypeOK, TcpEntry
<1>2. /\ IsFiniteSet(QueuedPorts(tq)) /\ Cardinality(QueuedPorts(tq)) = Len(tq)
      /\ QueuedPorts(tq) \subseteq TcpPorts
  <2>1. \A i \in 1 .. Len(tq) : tq[i] \in TcpEntry
    BY <1>1, ElementOfSeq
  <2>2. QueuedPorts(tq) \subseteq TcpPorts
    BY <2>1 DEF QueuedPorts, TcpEntry
  <2> QED
    BY <1>1, <2>2, CountEntries
<1>3. IsFiniteSet(InFlight)
  BY <1>1, FS_Subset, TcpAssumption DEF TcpAssumption
<1>4. L = QueuedPorts(tq) \cup InFlight
  <2>1. \A p \in TcpPorts : tprobes[p] = << >> <=> p \in QueuedPorts(tq) \/ p \in InFlight
    BY DEF TcpInv
  <2> QED
    BY <1>1, <1>2, <2>1
<1>5. Cardinality(QueuedPorts(tq) \cap InFlight) = 0
  BY <1>1, FS_EmptySet
<1>6. Cardinality(L) = Cardinality(QueuedPorts(tq)) + Cardinality(InFlight)
                       - Cardinality(QueuedPorts(tq) \cap InFlight)
  BY <1>2, <1>3, <1>4, FS_Union
<1>7. Len(tq) \in Nat /\ Cardinality(InFlight) \in Nat
  BY <1>2, <1>3, FS_CardinalityType
<1> QED
  BY <1>2, <1>4, <1>5, <1>6, <1>7 DEF TcpUnscanned

\* The connect sweep begins in its invariant,
LEMMA TcpInitInv == TcpInit => TcpInv
<1> SUFFICES ASSUME TcpInit PROVE TcpInv
  OBVIOUS
<1> DEFINE n == Cardinality(TcpPorts)
<1>1. /\ n \in Nat /\ TcpPorts = 1 .. n /\ TcpRetries \in {0, 1}
      /\ TcpWindow \in Nat \ {0}
  BY FS_CardinalityType, TcpAssumption DEF TcpAssumption
<1>2. 1 \in 1 .. TcpRetries + 1
  BY <1>1
<1>3. tq = [i \in 1 .. n |-> [port |-> i, try |-> 1]] /\ tp = << >>
  BY DEF TcpInit
<1> HIDE DEF n
<1>4. tq \in Seq(TcpEntry) /\ QueuedPorts(tq) = TcpPorts /\ PortsDistinct(tq)
  <2>1. \A i \in 1 .. n : [port |-> i, try |-> 1] \in TcpEntry
    BY <1>1, <1>2 DEF TcpEntry
  <2> QED
    BY <1>1, <1>3, <2>1, FirstEntries
<1>5. InFlight = {}
  BY <1>3 DEF InFlight
<1>6. Cardinality(InFlight) = 0
  BY <1>5, FS_EmptySet
<1>7. /\ tprobes = [p \in TcpPorts |-> << >>] /\ tphase = "fill" /\ tend = "nothing"
      /\ tworld = [cancelled |-> FALSE, expired |-> FALSE]
  BY DEF TcpInit
<1>8. TcpTypeOK
  BY <1>1, <1>4, <1>5, <1>6, <1>7 DEF TcpTypeOK, TcpEntry
<1> QED
  BY <1>4, <1>5, <1>7, <1>8 DEF TcpInv

\* Steps that leave queue, window and verdicts alone.
LEMMA TcpFrame ==
  ASSUME TcpInv, TcpTypeOK', UNCHANGED <<tq, tprobes>>, InFlight' = InFlight,
         \/ UNCHANGED <<tphase, tend>>
         \/ /\ tphase # "done" /\ tphase' # "done" /\ tend' = tend
         \/ /\ tphase' = "done" /\ (tend' = "nothing" <=> TcpUnscanned = 0)
  PROVE  TcpInv'
<1>1. TcpUnscanned' = TcpUnscanned
  BY DEF TcpUnscanned
<1>2. /\ PortsDistinct(tq)' /\ (QueuedPorts(tq) \cap InFlight = {})'
      /\ (\A p \in TcpPorts : IF p \in QueuedPorts(tq) \/ p \in InFlight
                             THEN tprobes[p] = << >> ELSE Len(tprobes[p]) = 1)'
  BY DEF TcpInv, PortsDistinct, QueuedPorts
<1>3. /\ tphase' # "done" => tend' = "nothing"
      /\ tphase' = "done" => (tend' = "nothing" <=> TcpUnscanned = 0)
  BY DEF TcpInv
<1> QED
  BY <1>1, <1>2, <1>3 DEF TcpInv

\* A connect() takes the head of the queue into the window or concludes it.
LEMMA TcpConnected == TcpInv /\ TcpConnect => TcpInv'
<1> SUFFICES ASSUME TcpInv, TcpConnect PROVE TcpInv'
  OBVIOUS
<1> DEFINE h == Head(tq)
<1>1. /\ tq \in Seq(TcpEntry) /\ tq # << >> /\ PortsDistinct(tq) /\ tq' = Tail(tq)
      /\ InFlight \subseteq TcpPorts /\ Cardinality(InFlight) < TcpWindow
      /\ tphase = "fill" /\ UNCHANGED <<tphase, tend, tworld>>
      /\ tprobes \in [TcpPorts -> Seq([state : TcpVerdicts, try : 1 .. TcpRetries + 1])]
  BY DEF TcpInv, TcpTypeOK, TcpEntry, TcpConnect, HasSlot
<1>2. /\ h \in TcpEntry /\ h.port \in QueuedPorts(tq) /\ tq' \in Seq(TcpEntry)
      /\ QueuedPorts(tq') = QueuedPorts(tq) \ {h.port} /\ PortsDistinct(tq')
  <2>1. /\ Head(tq) \in TcpEntry /\ Head(tq).port \in QueuedPorts(tq)
        /\ Tail(tq) \in Seq(TcpEntry)
        /\ QueuedPorts(Tail(tq)) = QueuedPorts(tq) \ {Head(tq).port} /\ PortsDistinct(Tail(tq))
    BY <1>1, TailEntries
  <2> QED
    BY <1>1, <2>1
<1>3. h.port \in TcpPorts /\ h.try \in 1 .. TcpRetries + 1 /\ tprobes[h.port] = << >>
  BY <1>2 DEF TcpInv, TcpEntry
<1>4. CASE tp' = [p \in InFlight \cup {h.port} |->
                    IF p = h.port THEN [try |-> h.try, answer |-> "none", due |-> FALSE] ELSE tp[p]]
           /\ UNCHANGED tprobes
  <2> HIDE DEF h
  <2>1. InFlight' = InFlight \cup {h.port}
    BY <1>4 DEF InFlight
  <2>2. Cardinality(InFlight') <= TcpWindow
    <3>1. IsFiniteSet(InFlight) /\ TcpWindow \in Nat
      BY <1>1, FS_Subset, TcpAssumption DEF TcpAssumption
    <3>2. Cardinality(InFlight) \in Nat
      BY <3>1, FS_CardinalityType
    <3>3. Cardinality(InFlight \cup {h.port}) =
            IF h.port \in InFlight THEN Cardinality(InFlight) ELSE Cardinality(InFlight) + 1
      BY <3>1, FS_AddElement
    <3>4. h.port \notin InFlight
      BY <1>2 DEF TcpInv
    <3> QED
      BY <1>1, <2>1, <3>1, <3>2, <3>3, <3>4
  <2>3. ASSUME NEW p \in InFlight'
        PROVE  tp'[p] \in [try : 1 .. TcpRetries + 1, answer : TcpAnswers, due : BOOLEAN]
    BY <1>3, <1>4, <2>1 DEF TcpInv, TcpTypeOK, TcpAnswers
  <2>4. TcpTypeOK'
    BY <1>1, <1>2, <1>3, <1>4, <2>1, <2>2, <2>3 DEF TcpInv, TcpTypeOK, TcpEntry
  <2>5. \A p \in TcpPorts : IF p \in QueuedPorts(tq') \/ p \in InFlight'
                            THEN tprobes'[p] = << >> ELSE Len(tprobes'[p]) = 1
    BY <1>2, <1>3, <1>4, <2>1 DEF TcpInv
  <2>6. QueuedPorts(tq') \cap InFlight' = {}
    BY <1>2, <2>1 DEF TcpInv
  <2> QED
    BY <1>1, <1>2, <2>4, <2>5, <2>6 DEF TcpInv
<1>5. ASSUME NEW v \in TcpVerdicts,
             tprobes' = [tprobes EXCEPT ![h.port] = Append(@, [state |-> v, try |-> h.try])],
             UNCHANGED tp
      PROVE  TcpInv'
  <2> HIDE DEF h
  <2> DEFINE e == [state |-> v, try |-> h.try]
  <2>1. InFlight' = InFlight
    BY <1>5 DEF InFlight
  <2>2. e \in [state : TcpVerdicts, try : 1 .. TcpRetries + 1]
    BY <1>3
  <2> HIDE DEF e
  <2>3. /\ tprobes' = [tprobes EXCEPT ![h.port] = << e >>]
        /\ << e >> \in Seq([state : TcpVerdicts, try : 1 .. TcpRetries + 1]) /\ Len(<< e >>) = 1
    BY <1>1, <1>3, <1>5, <2>2 DEF e
  <2>4. TcpTypeOK'
    <3>1. tprobes' \in [TcpPorts -> Seq([state : TcpVerdicts, try : 1 .. TcpRetries + 1])]
      BY <1>1, <1>3, <2>3
    <3>2. \A p \in InFlight' : tp'[p] \in [try : 1 .. TcpRetries + 1, answer : TcpAnswers, due : BOOLEAN]
      BY <1>5, <2>1 DEF TcpInv, TcpTypeOK
    <3>3. Cardinality(InFlight') <= TcpWindow
      BY <2>1 DEF TcpInv, TcpTypeOK
    <3> QED
      BY <1>1, <1>2, <2>1, <3>1, <3>2, <3>3 DEF TcpInv, TcpTypeOK, TcpEntry
  <2>5. \A p \in TcpPorts : IF p \in QueuedPorts(tq') \/ p \in InFlight'
                            THEN tprobes'[p] = << >> ELSE Len(tprobes'[p]) = 1
    BY <1>1, <1>2, <1>3, <2>1, <2>3 DEF TcpInv
  <2>6. QueuedPorts(tq') \cap InFlight' = {}
    BY <1>2, <2>1 DEF TcpInv
  <2> QED
    BY <1>1, <1>2, <2>4, <2>5, <2>6 DEF TcpInv
<1> QED
  BY <1>4, <1>5 DEF TcpConnect

\* A round of polling: the ports it concludes leave the window, the silent
\* ones that may be tried again go to the front of the queue.
LEMMA TcpPolled == TcpInv /\ TcpPoll => TcpInv'
<1> SUFFICES ASSUME TcpInv, TcpPoll PROVE TcpInv'
  OBVIOUS
<1> PICK ready \in {{}, {p \in InFlight : tp[p].answer # "none"}} :
    LET silent == {p \in ready : tp[p].answer = "silent"}
                    \cup {p \in InFlight \ ready : tp[p].due}
        again == {p \in silent : tp[p].try <= TcpRetries}
        judged == ready \cup silent
        verdict(p) == IF p \in silent THEN "silent" ELSE tp[p].answer
    IN  /\ tphase = "poll" /\ MayGoOn
        /\ tprobes' = [p \in TcpPorts |->
                         IF p \in ConcludedNow(judged, again)
                         THEN Append(tprobes[p], [state |-> verdict(p), try |-> tp[p].try])
                         ELSE tprobes[p]]
        /\ tp' = [p \in InFlight \ judged |-> tp[p]]
        /\ \E order \in SetToSeqs(again) :
              tq' = [i \in 1..Len(order) |-> [port |-> order[i], try |-> tp[order[i]].try + 1]] \o tq
        /\ tphase' = "fill"
        /\ UNCHANGED <<tend, tworld>>
  BY DEF TcpPoll
<1> DEFINE silent == {p \in ready : tp[p].answer = "silent"} \cup {p \in InFlight \ ready : tp[p].due}
           again == {p \in silent : tp[p].try <= TcpRetries}
           judged == ready \cup silent
           verdict(p) == IF p \in silent THEN "silent" ELSE tp[p].answer
           entry(p) == [state |-> verdict(p), try |-> tp[p].try]
           Pushed == [state : TcpVerdicts, try : 1 .. TcpRetries + 1]
<1>1. /\ tq \in Seq(TcpEntry) /\ PortsDistinct(tq) /\ InFlight \subseteq TcpPorts
      /\ QueuedPorts(tq) \cap InFlight = {}
      /\ tprobes \in [TcpPorts -> Seq(Pushed)]
      /\ Cardinality(InFlight) <= TcpWindow /\ IsFiniteSet(InFlight)
      /\ \A p \in InFlight : /\ tp[p].try \in 1 .. TcpRetries + 1
                             /\ tp[p].answer \in TcpAnswers
      /\ TcpRetries \in Nat /\ TcpWindow \in Nat
  <2>1. IsFiniteSet(TcpPorts) /\ InFlight \subseteq TcpPorts
    BY TcpAssumption DEF TcpInv, TcpTypeOK, TcpAssumption
  <2>2. IsFiniteSet(InFlight)
    BY <2>1, FS_Subset
  <2>3. TcpRetries \in Nat /\ TcpWindow \in Nat
    BY TcpAssumption DEF TcpAssumption
  <2> QED
    BY <2>1, <2>2, <2>3 DEF TcpInv, TcpTypeOK, TcpEntry
<1>2. ready \subseteq InFlight /\ again \subseteq judged /\ judged \subseteq InFlight
  OBVIOUS
<1>3. \A p \in ready : tp[p].answer \in TcpVerdicts
  BY <1>1 DEF TcpAnswers
<1>4. \A p \in judged : entry(p) \in Pushed
  BY <1>1, <1>2, <1>3 DEF TcpVerdicts
<1>5. /\ tprobes' = [p \in TcpPorts |-> IF p \in judged \ again
                                        THEN Append(tprobes[p], entry(p)) ELSE tprobes[p]]
      /\ tp' = [p \in InFlight \ judged |-> tp[p]] /\ tphase' = "fill" /\ UNCHANGED <<tend, tworld>>
      /\ tphase = "poll"
  BY DEF ConcludedNow
<1>6. PICK order \in SetToSeqs(again) :
        tq' = [i \in 1 .. Len(order) |-> [port |-> order[i], try |-> tp[order[i]].try + 1]] \o tq
  OBVIOUS
<1>7. \A p \in again : p \in TcpPorts /\ tp[p].try + 1 \in 1 .. TcpRetries + 1
  BY <1>1, <1>2
<1>8. IsFiniteSet(again)
  BY <1>1, <1>2, FS_Subset
<1> HIDE DEF silent, judged, again, entry, verdict, Pushed
<1> DEFINE row == [i \in 1 .. Len(order) |-> [port |-> order[i], try |-> tp[order[i]].try + 1]]
<1>9. order \in [1 .. Len(order) -> again]
  BY <1>8, RowOfSet
<1>10. row \in [1 .. Len(order) -> TcpEntry] /\ \A i \in 1 .. Len(order) : row[i].port = order[i]
  BY <1>7, <1>9 DEF TcpEntry
<1> HIDE DEF row
<1>11. row \in Seq(TcpEntry) /\ QueuedPorts(row) = again /\ PortsDistinct(row)
  BY <1>8, <1>10, RowOfEntries
<1>12. /\ tq' \in Seq(TcpEntry) /\ QueuedPorts(tq') = again \cup QueuedPorts(tq) /\ PortsDistinct(tq')
  <2>1. QueuedPorts(row) \cap QueuedPorts(tq) = {}
    BY <1>1, <1>2, <1>11
  <2>2. /\ row \o tq \in Seq(TcpEntry) /\ PortsDistinct(row \o tq)
        /\ QueuedPorts(row \o tq) = QueuedPorts(row) \cup QueuedPorts(tq)
    BY <1>1, <1>11, <2>1, JoinedEntries
  <2>3. tq' = row \o tq
    BY <1>6 DEF row
  <2> QED
    BY <1>11, <2>2, <2>3
<1>13. InFlight' = InFlight \ judged
  BY <1>5 DEF InFlight
<1>14. \A p \in judged : tprobes[p] = << >>
  BY <1>1, <1>2 DEF TcpInv
<1>15. \A p \in TcpPorts :
         IF p \in judged \ again
         THEN tprobes'[p] = << entry(p) >> /\ Len(tprobes'[p]) = 1 /\ tprobes'[p] \in Seq(Pushed)
         ELSE tprobes'[p] = tprobes[p]
  <2> TAKE p \in TcpPorts
  <2>1. CASE p \in judged \ again
    <3>1. tprobes'[p] = << entry(p) >>
      <4>1. tprobes'[p] = Append(<< >>, entry(p))
        BY <1>5, <1>14, <2>1
      <4>2. \A e \in Pushed : Append(<< >>, e) = << e >>
        OBVIOUS
      <4> QED
        BY <1>4, <2>1, <4>1, <4>2
    <3>2. entry(p) \in Pushed
      BY <1>4, <2>1
    <3>3. \A e \in Pushed : << e >> \in Seq(Pushed) /\ Len(<< e >>) = 1
      OBVIOUS
    <3> QED
      BY <2>1, <3>1, <3>2, <3>3
  <2> QED
    BY <1>5, <2>1
<1>16. TcpTypeOK'
  <2>1. tprobes' \in [TcpPorts -> Seq(Pushed)]
    <3>1. \A p \in TcpPorts : tprobes'[p] \in Seq(Pushed)
      BY <1>1, <1>15
    <3>2. DOMAIN tprobes' = TcpPorts /\ tprobes' = [p \in TcpPorts |-> tprobes'[p]]
      BY <1>5
    <3> QED
      BY <3>1, <3>2
  <2>2. Cardinality(InFlight') <= TcpWindow
    <3>1. Cardinality(InFlight') <= Cardinality(InFlight) /\ IsFiniteSet(InFlight')
      BY <1>1, <1>13, FS_Subset
    <3>2. Cardinality(InFlight') \in Nat /\ Cardinality(InFlight) \in Nat
      BY <1>1, <3>1, FS_CardinalityType
    <3> QED
      BY <1>1, <3>1, <3>2
  <2>3. \A p \in InFlight' :
          tp'[p] \in [try : 1 .. TcpRetries + 1, answer : TcpAnswers, due : BOOLEAN]
    BY <1>5, <1>13 DEF TcpInv, TcpTypeOK
  <2> QED
    BY <1>1, <1>5, <1>12, <1>13, <2>1, <2>2, <2>3 DEF TcpInv, TcpTypeOK, TcpEntry, Pushed
<1>17. \A p \in TcpPorts : IF p \in QueuedPorts(tq') \/ p \in InFlight'
                           THEN tprobes'[p] = << >> ELSE Len(tprobes'[p]) = 1
  BY <1>1, <1>2, <1>12, <1>13, <1>14, <1>15 DEF TcpInv
<1>18. QueuedPorts(tq') \cap InFlight' = {}
  BY <1>1, <1>2, <1>12, <1>13
<1> QED
  BY <1>5, <1>12, <1>16, <1>17, <1>18 DEF TcpInv

\* every step keeps it,
LEMMA TcpNextInv == TcpInv /\ [TcpNext]_tcpvars => TcpInv'
<1> SUFFICES ASSUME TcpInv, [TcpNext]_tcpvars PROVE TcpInv'
  OBVIOUS
<1>1. CASE TcpStop
  <2>1. /\ TcpUnscanned # 0 /\ tphase' = "done" /\ tend' # "nothing" /\ tend' \in {"token", "deadline"}
        /\ UNCHANGED <<tq, tp, tprobes, tworld>>
    BY <1>1, TcpUnscannedIsLeft DEF TcpStop
  <2>2. InFlight' = InFlight
    BY <2>1 DEF InFlight
  <2>3. TcpTypeOK'
    BY <2>1, <2>2 DEF TcpInv, TcpTypeOK
  <2> QED
    BY <2>1, <2>2, <2>3, TcpFrame
<1>2. CASE TcpConnect
  BY <1>2, TcpConnected
<1>3. CASE TcpEndFill
  <2>1. /\ tphase' = "poll" /\ tphase = "fill" /\ UNCHANGED <<tq, tp, tprobes, tend, tworld>>
    BY <1>3 DEF TcpEndFill
  <2>2. InFlight' = InFlight
    BY <2>1 DEF InFlight
  <2>3. TcpTypeOK'
    BY <2>1, <2>2 DEF TcpInv, TcpTypeOK
  <2> QED
    BY <2>1, <2>2, <2>3, TcpFrame
<1>4. CASE TcpPoll
  BY <1>4, TcpPolled
<1>5. CASE TcpFinish
  <2>1. /\ tphase' = "done" /\ tphase = "fill" /\ TcpUnscanned = 0
        /\ UNCHANGED <<tq, tp, tprobes, tend, tworld>>
    BY <1>5 DEF TcpFinish
  <2>2. InFlight' = InFlight /\ tend = "nothing"
    BY <2>1 DEF InFlight, TcpInv
  <2>3. TcpTypeOK'
    BY <2>1, <2>2 DEF TcpInv, TcpTypeOK
  <2> QED
    BY <2>1, <2>2, <2>3, TcpFrame
<1>6. CASE TcpCancel \/ TcpExpire \/ UNCHANGED tcpvars
  <2>1. UNCHANGED <<tq, tp, tprobes, tphase, tend>>
    BY <1>6 DEF TcpCancel, TcpExpire, tcpvars
  <2>2. tworld' \in [cancelled : BOOLEAN, expired : BOOLEAN]
    BY <1>6 DEF TcpCancel, TcpExpire, tcpvars, TcpInv, TcpTypeOK
  <2>3. InFlight' = InFlight
    BY <2>1 DEF InFlight
  <2>4. TcpTypeOK'
    BY <2>1, <2>2, <2>3 DEF TcpInv, TcpTypeOK
  <2> QED
    BY <2>1, <2>3, <2>4, TcpFrame
<1>7. ASSUME NEW p \in InFlight, TcpAnswer(p) \/ TcpLapse(p) PROVE TcpInv'
  <2>1. UNCHANGED <<tq, tprobes, tphase, tend, tworld>>
    BY <1>7 DEF TcpAnswer, TcpLapse
  <2>2. \/ \E a \in TcpVerdicts : tp' = [tp EXCEPT ![p].answer = a]
        \/ tp' = [tp EXCEPT ![p].due = TRUE]
    BY <1>7 DEF TcpAnswer, TcpLapse
  <2>3. InFlight' = InFlight
    BY <2>2 DEF InFlight
  <2>4. \A r \in InFlight :
          tp[r] \in [try : 1 .. TcpRetries + 1, answer : TcpAnswers, due : BOOLEAN]
    BY DEF TcpInv, TcpTypeOK
  <2>5. \A r \in InFlight' :
          tp'[r] \in [try : 1 .. TcpRetries + 1, answer : TcpAnswers, due : BOOLEAN]
    <3>1. ASSUME NEW a \in TcpVerdicts, tp' = [tp EXCEPT ![p].answer = a], NEW r \in InFlight
          PROVE  tp'[r] \in [try : 1 .. TcpRetries + 1, answer : TcpAnswers, due : BOOLEAN]
      <4>1. tp'[r] = IF r = p THEN [tp[r] EXCEPT !.answer = a] ELSE tp[r]
        BY <3>1 DEF InFlight
      <4> QED
        BY <2>4, <3>1, <4>1 DEF TcpAnswers
    <3>2. ASSUME tp' = [tp EXCEPT ![p].due = TRUE], NEW r \in InFlight
          PROVE  tp'[r] \in [try : 1 .. TcpRetries + 1, answer : TcpAnswers, due : BOOLEAN]
      <4>1. tp'[r] = IF r = p THEN [tp[r] EXCEPT !.due = TRUE] ELSE tp[r]
        BY <3>2 DEF InFlight
      <4>2. tp[r] \in [try : 1 .. TcpRetries + 1, answer : TcpAnswers, due : BOOLEAN]
        BY <2>4
      <4>3. [tp[r] EXCEPT !.due = TRUE] \in [try : 1 .. TcpRetries + 1, answer : TcpAnswers, due : BOOLEAN]
        BY <4>2
      <4> QED
        BY <4>1, <4>2, <4>3
    <3> QED
      BY <2>2, <2>3, <3>1, <3>2
  <2>6. TcpTypeOK'
    BY <2>1, <2>3, <2>5 DEF TcpInv, TcpTypeOK
  <2> QED
    BY <2>1, <2>3, <2>6, TcpFrame
<1> QED
  BY <1>1, <1>2, <1>3, <1>4, <1>5, <1>6, <1>7 DEF TcpNext, TcpLoop

\* so it always holds,
LEMMA TcpAlways == TcpSpec => []TcpInv
  BY TcpInitInv, TcpNextInv, PTL DEF TcpSpec

\* and what is promised of the sweep itself follows.
LEMMA TcpInvImplies == TcpInv => TcpTypeOK /\ TcpEachPortOnce
<1> SUFFICES ASSUME TcpInv PROVE TcpTypeOK /\ TcpEachPortOnce
  OBVIOUS
<1>1. ASSUME NEW p \in TcpPorts
      PROVE  Cardinality(Waiting(p)) + (IF p \in InFlight THEN 1 ELSE 0) + Len(tprobes[p]) = 1
  <2>1. Cardinality(Waiting(p)) = IF p \in QueuedPorts(tq) THEN 1 ELSE 0
    <3>1. tq \in Seq(TcpEntry) /\ PortsDistinct(tq)
      BY DEF TcpInv, TcpTypeOK, TcpEntry
    <3> QED
      BY <3>1, PlacesOfPort DEF Waiting
  <2>2. CASE p \in QueuedPorts(tq)
    <3>1. p \notin InFlight /\ Len(tprobes[p]) = 0
      BY <2>2 DEF TcpInv
    <3> QED
      BY <2>1, <2>2, <3>1
  <2>3. CASE p \in InFlight
    <3>1. p \notin QueuedPorts(tq) /\ Len(tprobes[p]) = 0
      BY <2>3 DEF TcpInv
    <3> QED
      BY <2>1, <2>3, <3>1
  <2>4. CASE p \notin QueuedPorts(tq) /\ p \notin InFlight
    BY <2>1, <2>4 DEF TcpInv
  <2> QED
    BY <2>2, <2>3, <2>4
<1> QED
  BY <1>1 DEF TcpInv, TcpEachPortOnce

\* What the caller of the connect scan sees of it.
TcpFound == [p \in TcpPorts |-> IF tprobes[p] = << >> THEN "none" ELSE tprobes[p][1].state]
TcpReport == [over |-> tphase = "done",
              unscanned |-> IF tphase = "done" THEN TcpUnscanned ELSE 0,
              truncated |-> tphase = "done" /\ (tend # "nothing" \/ TcpUnscanned > 0),
              cancelled |-> tphase = "done" /\ tend = "token"]

\* A step that touches no probe before the end is not seen outside.
LEMMA TcpSilentStep ==
  ASSUME UNCHANGED tprobes, tphase # "done", tphase' # "done"
  PROVE  UNCHANGED <<TcpFound, TcpReport>>
  BY DEF TcpFound, TcpReport

\* A step that concludes ports settles them, and no others.
LEMMA TcpSettles ==
  ASSUME TcpInv, TcpTypeOK', tphase # "done", tphase' # "done",
         \A p \in TcpPorts : tprobes[p] # << >> => tprobes'[p] = tprobes[p]
  PROVE  TcpSweep!Settle
<1>1. TcpReport' = TcpReport /\ TcpReport.over = FALSE
  BY DEF TcpReport
<1>2. \A p \in TcpPorts : tprobes'[p] # << >> => tprobes'[p][1].state \in TcpVerdicts
  <2> TAKE p \in TcpPorts
  <2>1. tprobes'[p] \in Seq([state : TcpVerdicts, try : 1 .. TcpRetries + 1])
    BY DEF TcpTypeOK
  <2>2. tprobes'[p] # << >> => tprobes'[p][1] \in [state : TcpVerdicts, try : 1 .. TcpRetries + 1]
    BY <2>1, FirstOfSeq
  <2> QED
    BY <2>2
<1>3. TcpFound' \in [TcpPorts -> TcpVerdicts \cup {"none"}]
  BY <1>2 DEF TcpFound
<1>4. \A p \in TcpPorts : TcpFound[p] # "none" => TcpFound'[p] = TcpFound[p]
  BY DEF TcpFound
<1> QED
  BY <1>1, <1>3, <1>4 DEF TcpSweep!Settle, TcpSweep!Left, TcpFound, TcpReport

\* A scan that ends tells its caller how many ports it left out.
LEMMA TcpCloses ==
  ASSUME TcpInv, UNCHANGED <<tq, tp, tprobes>>, tphase # "done", tphase' = "done",
         IF TcpUnscanned = 0 THEN tend' = "nothing" ELSE tend' \in {"token", "deadline"}
  PROVE  TcpSweep!Close
<1> DEFINE L == {p \in TcpPorts : tprobes[p] = << >>}
<1>1. TcpUnscanned = Cardinality(L) /\ TcpUnscanned' = TcpUnscanned /\ TcpUnscanned \in Nat
  BY TcpUnscannedIsLeft DEF TcpUnscanned, InFlight
<1>2. L = {} <=> TcpUnscanned = 0
  <2>1. IsFiniteSet(L)
    BY FS_Subset, TcpAssumption DEF TcpAssumption
  <2> QED
    BY <1>1, <2>1, FS_EmptySet
<1>3. {p \in TcpPorts : TcpFound[p] = "none"} = L
  <2>1. \A p \in TcpPorts : tprobes[p] # << >> => tprobes[p][1].state # "none"
    <3> TAKE p \in TcpPorts
    <3>1. tprobes[p] \in Seq([state : TcpVerdicts, try : 1 .. TcpRetries + 1])
      BY DEF TcpInv, TcpTypeOK
    <3>2. tprobes[p] # << >> => tprobes[p][1] \in [state : TcpVerdicts, try : 1 .. TcpRetries + 1]
      BY <3>1, FirstOfSeq
    <3> QED
      BY <3>2 DEF TcpVerdicts
  <2> QED
    BY <2>1 DEF TcpFound
<1>4. TcpReport' = [over |-> TRUE, unscanned |-> Cardinality(L), truncated |-> L # {},
                    cancelled |-> tend' = "token"]
  <2>1. (tend' # "nothing" \/ TcpUnscanned' > 0) <=> L # {}
    BY <1>1, <1>2
  <2>2. TcpReport'.truncated = (L # {})
    BY <2>1 DEF TcpReport
  <2> QED
    BY <1>1, <2>1 DEF TcpReport
<1>5. TcpFound' = TcpFound /\ TcpReport.over = FALSE
  BY DEF TcpFound, TcpReport
<1>6. tend' = "token" => L # {}
  BY <1>2
<1>7. TcpSweep!Left = L
  BY <1>3 DEF TcpSweep!Left, TcpFound
<1>8. TcpSweep!Cardinality(L) = Cardinality(L)
  BY DEF TcpSweep!Cardinality, Cardinality
<1> DEFINE stopped == tend' = "token"
<1>9. stopped \in BOOLEAN
  OBVIOUS
<1> HIDE DEF L, stopped
<1>10. /\ stopped => L # {}
       /\ TcpReport' = [over |-> TRUE, unscanned |-> TcpSweep!Cardinality(L),
                        truncated |-> L # {}, cancelled |-> stopped]
  BY <1>4, <1>6, <1>8 DEF stopped
<1> QED
  BY <1>5, <1>7, <1>9, <1>10 DEF TcpSweep!Close, TcpFound, TcpReport

\* Every step of the sweep is one the abstract sweep allows.
LEMMA TcpStepKeepsPromise ==
  ASSUME TcpInv, TcpInv', [TcpNext]_tcpvars
  PROVE  TcpSweep!Settle \/ TcpSweep!Close \/ UNCHANGED <<TcpFound, TcpReport>>
<1>1. CASE TcpStop
  <2>1. TcpUnscanned # 0
    BY <1>1, TcpUnscannedIsLeft DEF TcpStop
  <2>2. tend' \in {"token", "deadline"}
    BY <1>1 DEF TcpStop
  <2> QED
    BY <1>1, <2>1, <2>2, TcpCloses DEF TcpStop
<1>2. CASE TcpConnect
  <2>1. tphase # "done" /\ tphase' # "done"
    BY <1>2 DEF TcpConnect
  <2>2. CASE UNCHANGED tprobes
    BY <2>1, <2>2, TcpSilentStep
  <2>3. ASSUME NEW v \in TcpVerdicts,
               tprobes' = [tprobes EXCEPT ![Head(tq).port] =
                             Append(@, [state |-> v, try |-> Head(tq).try])]
        PROVE  TcpSweep!Settle
    <3>1. tq \in Seq(TcpEntry) /\ tq # << >> /\ PortsDistinct(tq)
      BY <1>2 DEF TcpConnect, TcpInv, TcpTypeOK, TcpEntry
    <3>2. Head(tq).port \in QueuedPorts(tq) /\ Head(tq) \in TcpEntry
      BY <3>1, TailEntries
    <3>3. tprobes[Head(tq).port] = << >>
      BY <3>2 DEF TcpInv, TcpEntry
    <3>4. \A p \in TcpPorts : tprobes[p] # << >> => tprobes'[p] = tprobes[p]
      BY <2>3, <3>3 DEF TcpInv, TcpTypeOK
    <3> QED
      BY <2>1, <3>4, TcpSettles DEF TcpInv
  <2> QED
    BY <1>2, <2>2, <2>3 DEF TcpConnect
<1>3. CASE TcpPoll
  <2>1. tphase # "done" /\ tphase' # "done"
    BY <1>3 DEF TcpPoll
  <2>2. \E S \in SUBSET InFlight :
          \A p \in TcpPorts : p \notin S => tprobes'[p] = tprobes[p]
    <3>1. PICK ready \in {{}, {p \in InFlight : tp[p].answer # "none"}} :
            LET silent == {p \in ready : tp[p].answer = "silent"}
                            \cup {p \in InFlight \ ready : tp[p].due}
                again == {p \in silent : tp[p].try <= TcpRetries}
                judged == ready \cup silent
                verdict(p) == IF p \in silent THEN "silent" ELSE tp[p].answer
            IN  tprobes' = [p \in TcpPorts |->
                              IF p \in ConcludedNow(judged, again)
                              THEN Append(tprobes[p], [state |-> verdict(p), try |-> tp[p].try])
                              ELSE tprobes[p]]
      BY <1>3 DEF TcpPoll
    <3>2. \A p \in TcpPorts : p \notin InFlight => tprobes'[p] = tprobes[p]
      BY <3>1 DEF ConcludedNow
    <3> QED
      BY <3>2
  <2>3. \A p \in InFlight : p \in TcpPorts => tprobes[p] = << >>
    BY DEF TcpInv
  <2>4. \A p \in TcpPorts : tprobes[p] # << >> => tprobes'[p] = tprobes[p]
    BY <2>2, <2>3
  <2> QED
    BY <2>1, <2>4, TcpSettles DEF TcpInv
<1>4. CASE TcpFinish
  <2>1. tend' = "nothing" /\ TcpUnscanned = 0
    BY <1>4 DEF TcpFinish, TcpInv
  <2> QED
    BY <1>4, <2>1, TcpCloses DEF TcpFinish
<1>5. CASE TcpEndFill
  BY <1>5, TcpSilentStep DEF TcpEndFill
<1>6. CASE TcpCancel \/ TcpExpire \/ \E p \in InFlight : TcpAnswer(p) \/ TcpLapse(p)
  BY <1>6, TcpSilentStep DEF TcpCancel, TcpExpire, TcpAnswer, TcpLapse
<1>7. CASE UNCHANGED tcpvars
  BY <1>7 DEF tcpvars, TcpFound, TcpReport, TcpUnscanned, InFlight
<1> QED
  BY <1>1, <1>2, <1>3, <1>4, <1>5, <1>6, <1>7 DEF TcpNext, TcpLoop

\* The sweep begins as the abstract one.
LEMMA TcpBeginsAsPromised == TcpInit => TcpSweep!Init
  BY DEF TcpInit, TcpSweep!Init, TcpSweep!NoReport

\* The connect scan does what every scanner promises: a port gets one verdict
\* and keeps it, and the report accounts for every port asked for.
THEOREM ConnectScanKeepsPromise == TcpSpec => TcpKeepsPromise
<1>1. TcpInv /\ TcpInv' /\ [TcpNext]_tcpvars
        => [TcpSweep!Settle \/ TcpSweep!Close]_<<TcpFound, TcpReport>>
  BY TcpStepKeepsPromise
<1>2. TcpSpec => TcpInit /\ [][TcpNext]_tcpvars
  BY DEF TcpSpec
<1> QED
  BY <1>1, <1>2, TcpAlways, TcpBeginsAsPromised, PTL
     DEF TcpKeepsPromise, TcpSweep!Spec, TcpFound, TcpReport

-----------------------------------------------------------------------------
(* The raw scan and its fallback.                                          *)

SynEntry == [port : SynPorts, try : 1 .. SynRetries + 1]
SynPushed == [state : SynVerdicts, try : 1 .. SynRetries + 1]

SynInv ==
  /\ SynTypeOK
  /\ PortsDistinct(sq)
  /\ QueuedPorts(sq) \cap Outstanding = {}
  /\ \A p \in SynPorts : IF p \in QueuedPorts(sq) \/ p \in Outstanding
                         THEN sprobes[p] = << >> ELSE Len(sprobes[p]) = 1
  /\ SynWindowUsable
  /\ sphase = "connect" => Outstanding = {}

\* What the assumption says of the constants.
LEMMA SynConstants ==
  /\ IsFiniteSet(SynPorts) /\ Cardinality(SynPorts) \in Nat /\ SynPorts = 1 .. Cardinality(SynPorts)
  /\ SynWindow \in Nat /\ SynWindow > 0 /\ SynRetries \in Nat /\ PaceEvery \in Nat /\ PaceEvery > 0
  /\ 1 \in 1 .. SynRetries + 1
<1>1. IsFiniteSet(SynPorts) /\ Cardinality(SynPorts) \in Nat
  BY FS_CardinalityType, SynAssumption DEF SynAssumption
<1> QED
  BY <1>1, SynAssumption DEF SynAssumption

\* The queue at the beginning, and when the fallback takes over.
LEMMA SynWholeQueue ==
  /\ WholeQueue \in Seq(SynEntry) /\ QueuedPorts(WholeQueue) = SynPorts
  /\ PortsDistinct(WholeQueue)
<1> DEFINE n == Cardinality(SynPorts)
<1>1. n \in Nat /\ SynPorts = 1 .. n /\ 1 \in 1 .. SynRetries + 1
  BY SynConstants
<1>2. \A i \in 1 .. n : [port |-> i, try |-> 1] \in SynEntry
  BY <1>1 DEF SynEntry
<1>3. WholeQueue = [i \in 1 .. n |-> [port |-> i, try |-> 1]]
  BY DEF WholeQueue
<1> HIDE DEF n
<1> QED
  BY <1>1, <1>2, <1>3, FirstEntries

\* The SYN sweep begins in its invariant,
LEMMA SynInitInv == SynInit => SynInv
<1> SUFFICES ASSUME SynInit PROVE SynInv
  OBVIOUS
<1>1. /\ sq = WholeQueue /\ sp = << >> /\ sbuffer = {} /\ sphase = "fill" /\ send = "nothing"
      /\ sprobes = [p \in SynPorts |-> << >>] /\ swindow = SynWindow
      /\ stally = [completions |-> 0, timeouts |-> 0]
      /\ sworld \in [cancelled : BOOLEAN, expired : BOOLEAN, icmp : BOOLEAN]
      /\ snote = [mechanism |-> "none", fallback |-> FALSE]
  BY DEF SynInit
<1>2. Outstanding = {}
  BY <1>1 DEF Outstanding
<1>3. Cardinality(Outstanding) = 0
  BY <1>2, FS_EmptySet
<1>4. SynTypeOK
  BY <1>1, <1>2, SynWholeQueue, SynConstants DEF SynTypeOK, SynEntry
<1>5. SynWindowUsable
  BY <1>1, <1>3, SynConstants DEF SynWindowUsable
<1> QED
  BY <1>1, <1>2, <1>4, <1>5, SynWholeQueue DEF SynInv

\* Steps that leave queue, window and verdicts alone.
LEMMA SynFrame ==
  ASSUME SynInv, SynTypeOK', UNCHANGED <<sq, sprobes, swindow>>, Outstanding' = Outstanding,
         sphase' = "connect" => sphase = "connect"
  PROVE  SynInv'
<1>1. /\ PortsDistinct(sq)' /\ (QueuedPorts(sq) \cap Outstanding = {})'
      /\ (\A p \in SynPorts : IF p \in QueuedPorts(sq) \/ p \in Outstanding
                              THEN sprobes[p] = << >> ELSE Len(sprobes[p]) = 1)'
  BY DEF SynInv, PortsDistinct, QueuedPorts
<1>2. SynWindowUsable'
  BY DEF SynInv, SynWindowUsable
<1> QED
  BY <1>1, <1>2 DEF SynInv

\* A send takes the head of the queue into the window or concludes it.
LEMMA SynSent == SynInv /\ SynSend => SynInv'
<1> SUFFICES ASSUME SynInv, SynSend PROVE SynInv'
  OBVIOUS
<1> DEFINE h == Head(sq)
<1>1. /\ sq \in Seq(SynEntry) /\ sq # << >> /\ PortsDistinct(sq) /\ sq' = Tail(sq)
      /\ Outstanding \subseteq SynPorts /\ Cardinality(Outstanding) < swindow
      /\ sphase = "fill" /\ UNCHANGED <<sbuffer, sphase, send, swindow, sworld, snote>>
      /\ sprobes \in [SynPorts -> Seq(SynPushed)]
  BY DEF SynInv, SynTypeOK, SynEntry, SynPushed, SynSend
<1>2. /\ h \in SynEntry /\ h.port \in QueuedPorts(sq) /\ sq' \in Seq(SynEntry)
      /\ QueuedPorts(sq') = QueuedPorts(sq) \ {h.port} /\ PortsDistinct(sq')
  <2>1. /\ Head(sq) \in SynEntry /\ Head(sq).port \in QueuedPorts(sq)
        /\ Tail(sq) \in Seq(SynEntry)
        /\ QueuedPorts(Tail(sq)) = QueuedPorts(sq) \ {Head(sq).port} /\ PortsDistinct(Tail(sq))
    BY <1>1, TailEntries
  <2> QED
    BY <1>1, <2>1
<1>3. h.port \in SynPorts /\ h.try \in 1 .. SynRetries + 1 /\ sprobes[h.port] = << >>
  BY <1>2 DEF SynInv, SynEntry
<1>4. CASE sp' = [p \in Outstanding \cup {h.port} |->
                    IF p = h.port THEN [try |-> h.try, due |-> FALSE] ELSE sp[p]]
           /\ UNCHANGED <<sprobes, stally>>
  <2> HIDE DEF h
  <2>1. Outstanding' = Outstanding \cup {h.port}
    BY <1>4 DEF Outstanding
  <2>2. SynWindowUsable'
    <3>1. IsFiniteSet(Outstanding) /\ SynWindow \in Nat
      BY <1>1, FS_Subset, SynConstants
    <3>2. Cardinality(Outstanding) \in Nat
      BY <3>1, FS_CardinalityType
    <3>3. Cardinality(Outstanding \cup {h.port}) =
            IF h.port \in Outstanding THEN Cardinality(Outstanding) ELSE Cardinality(Outstanding) + 1
      BY <3>1, FS_AddElement
    <3>4. h.port \notin Outstanding
      BY <1>2 DEF SynInv
    <3>5. swindow \in Nat /\ swindow >= 1 /\ swindow <= SynWindow
      BY DEF SynInv, SynTypeOK, SynWindowUsable
    <3> QED
      BY <1>1, <2>1, <3>1, <3>2, <3>3, <3>4, <3>5 DEF SynWindowUsable
  <2>3. ASSUME NEW p \in Outstanding'
        PROVE  sp'[p] \in [try : 1 .. SynRetries + 1, due : BOOLEAN]
    BY <1>3, <1>4, <2>1 DEF SynInv, SynTypeOK
  <2>4. SynTypeOK'
    BY <1>1, <1>2, <1>3, <1>4, <2>1, <2>3 DEF SynInv, SynTypeOK, SynEntry
  <2>5. \A p \in SynPorts : IF p \in QueuedPorts(sq') \/ p \in Outstanding'
                            THEN sprobes'[p] = << >> ELSE Len(sprobes'[p]) = 1
    BY <1>2, <1>3, <1>4, <2>1 DEF SynInv
  <2>6. QueuedPorts(sq') \cap Outstanding' = {}
    BY <1>2, <2>1 DEF SynInv
  <2> QED
    BY <1>1, <1>2, <2>2, <2>4, <2>5, <2>6 DEF SynInv
<1>5. CASE /\ sprobes' = [sprobes EXCEPT ![h.port] = Append(@, [state |-> "error", try |-> h.try])]
           /\ stally' = [stally EXCEPT !.completions = @ + 1]
           /\ UNCHANGED sp
  <2> HIDE DEF h
  <2> DEFINE e == [state |-> "error", try |-> h.try]
  <2>1. Outstanding' = Outstanding
    BY <1>5 DEF Outstanding
  <2>2. e \in SynPushed
    BY <1>3 DEF SynPushed, SynVerdicts
  <2> HIDE DEF e
  <2>3. /\ sprobes' = [sprobes EXCEPT ![h.port] = << e >>]
        /\ << e >> \in Seq(SynPushed) /\ Len(<< e >>) = 1
    BY <1>1, <1>3, <1>5, <2>2 DEF e
  <2>4. SynTypeOK'
    <3>1. sprobes' \in [SynPorts -> Seq(SynPushed)]
      BY <1>1, <1>3, <2>3
    <3>2. \A p \in Outstanding' : sp'[p] \in [try : 1 .. SynRetries + 1, due : BOOLEAN]
      BY <1>5, <2>1 DEF SynInv, SynTypeOK
    <3>3. stally' \in [completions : Nat, timeouts : Nat]
      BY <1>5 DEF SynInv, SynTypeOK
    <3> QED
      BY <1>1, <1>2, <2>1, <3>1, <3>2, <3>3 DEF SynInv, SynTypeOK, SynEntry, SynPushed
  <2>5. \A p \in SynPorts : IF p \in QueuedPorts(sq') \/ p \in Outstanding'
                            THEN sprobes'[p] = << >> ELSE Len(sprobes'[p]) = 1
    BY <1>1, <1>2, <1>3, <2>1, <2>3 DEF SynInv
  <2>6. QueuedPorts(sq') \cap Outstanding' = {}
    BY <1>2, <2>1 DEF SynInv
  <2>7. SynWindowUsable'
    BY <1>1, <2>1 DEF SynInv, SynWindowUsable
  <2> QED
    BY <1>1, <1>2, <2>4, <2>5, <2>6, <2>7 DEF SynInv
<1> QED
  BY <1>4, <1>5 DEF SynSend

\* The adapted window stays between one probe and what the caller allowed.
LEMMA RepaceInBounds ==
  ASSUME SynInv, NEW tally, NEW flying, NEW backlog, NEW rtt
  PROVE  Repace(tally, flying, backlog, rtt) \in 1 .. SynWindow
<1>1. swindow \in Nat /\ SynWindow \in Nat /\ SynWindow >= 1
  BY SynConstants DEF SynInv, SynTypeOK
<1>2. \A x \in Int : Clamp(x, 1, SynWindow) \in 1 .. SynWindow
  BY <1>1 DEF Clamp
<1>3. /\ swindow \in Int /\ Less(swindow, Larger(swindow \div 4, 1)) \in Int
      /\ swindow + Larger(swindow \div 8, 1) \in Int
  BY <1>1 DEF Less, Larger
<1>4. \E c \in Int : Repace(tally, flying, backlog, rtt) = Clamp(c, 1, SynWindow)
  BY <1>3 DEF Repace, Suggest
<1> QED
  BY <1>2, <1>4

\* Raw sockets are refused: everything is to do again, by connecting.
LEMMA SynFellBack == SynInv /\ SynDenied => SynInv'
<1> SUFFICES ASSUME SynInv, SynDenied PROVE SynInv'
  OBVIOUS
<1>1. /\ sq' = WholeQueue /\ sp' = << >> /\ sbuffer' = {} /\ sphase' = "connect"
      /\ sprobes' = [p \in SynPorts |-> << >>]
      /\ snote' = [mechanism |-> "connect", fallback |-> TRUE]
      /\ UNCHANGED <<send, swindow, stally, sworld>>
  BY DEF SynDenied
<1>2. Outstanding' = {}
  BY <1>1 DEF Outstanding
<1>3. Cardinality(Outstanding') = 0
  BY <1>2, FS_EmptySet
<1>4. SynTypeOK'
  BY <1>1, <1>2, SynWholeQueue DEF SynInv, SynTypeOK, SynEntry
<1>5. SynWindowUsable'
  BY <1>1, <1>3, SynConstants DEF SynInv, SynWindowUsable
<1> QED
  BY <1>1, <1>2, <1>4, <1>5, SynWholeQueue DEF SynInv

\* The connect scan that took over returns.
LEMMA SynFallbackReturned == SynInv /\ SynFallback => SynInv'
<1> SUFFICES ASSUME SynInv, SynFallback PROVE SynInv'
  OBVIOUS
<1>1. PICK left \in SUBSET SynPorts, cut \in {"nothing", "token", "deadline"} :
        \E order \in SetToSeqs(left) :
          /\ sq' = [i \in 1 .. Len(order) |-> [port |-> order[i], try |-> 1]]
          /\ sprobes' = [p \in SynPorts |-> IF p \in left THEN << >>
                                            ELSE <<[state |-> "open", try |-> 1]>>]
          /\ send' = cut
  BY DEF SynFallback
<1>2. PICK order \in SetToSeqs(left) :
        sq' = [i \in 1 .. Len(order) |-> [port |-> order[i], try |-> 1]]
  BY <1>1
<1>3. /\ sphase = "connect" /\ sphase' = "done"
      /\ UNCHANGED <<sp, sbuffer, swindow, stally, sworld, snote>>
  BY DEF SynFallback
<1>4. Outstanding = {} /\ Outstanding' = {} /\ SynWindowUsable'
  BY <1>3 DEF SynInv, Outstanding, SynWindowUsable
<1>5. IsFiniteSet(left)
  BY SynConstants, FS_Subset
<1>6. order \in [1 .. Len(order) -> left]
  BY <1>5, RowOfSet
<1>7. sq' \in [1 .. Len(order) -> SynEntry] /\ \A i \in 1 .. Len(order) : sq'[i].port = order[i]
  BY <1>2, <1>6, SynConstants DEF SynEntry
<1>8. sq' \in Seq(SynEntry) /\ QueuedPorts(sq') = left /\ PortsDistinct(sq')
  BY <1>5, <1>7, RowOfEntries
<1> DEFINE e == [state |-> "open", try |-> 1]
<1>9. e \in SynPushed
  BY SynConstants DEF SynPushed, SynVerdicts
<1> HIDE DEF e
<1>10. /\ sprobes' = [p \in SynPorts |-> IF p \in left THEN << >> ELSE << e >>]
       /\ << e >> \in Seq(SynPushed) /\ Len(<< e >>) = 1 /\ << >> \in Seq(SynPushed)
  BY <1>1, <1>9 DEF e
<1>11. SynTypeOK'
  <2>1. sprobes' \in [SynPorts -> Seq(SynPushed)]
    BY <1>10
  <2> QED
    BY <1>1, <1>3, <1>4, <1>8, <2>1 DEF SynInv, SynTypeOK, SynEntry, SynPushed
<1>12. \A p \in SynPorts : IF p \in QueuedPorts(sq') \/ p \in Outstanding'
                           THEN sprobes'[p] = << >> ELSE Len(sprobes'[p]) = 1
  BY <1>4, <1>8, <1>10
<1> QED
  BY <1>3, <1>4, <1>8, <1>11, <1>12 DEF SynInv

\* A round: what was heard and what lapsed leave the window.
LEMMA SynRounded == SynInv /\ SynRound => SynInv'
<1> SUFFICES ASSUME SynInv, SynRound PROVE SynInv'
  OBVIOUS
<1> DEFINE heard == {p \in Outstanding : \E r \in Replies : <<p, r>> \in sbuffer}
           lapsed == {p \in Outstanding \ heard : sp[p].due}
           again == {p \in lapsed : SynMayRetry(p)}
           gone == heard \cup lapsed
           tally == [completions |-> stally.completions + Cardinality(gone),
                     timeouts |-> stally.timeouts + Cardinality(lapsed)]
<1>1. PICK verdict \in [heard -> Replies] :
        sprobes' = [p \in SynPorts |->
          CASE p \in heard -> Append(sprobes[p], [state |-> verdict[p], try |-> sp[p].try])
            [] p \in lapsed \ again -> Append(sprobes[p], [state |-> "open_or_filtered", try |-> sp[p].try])
            [] OTHER -> sprobes[p]]
  BY DEF SynRound
<1>2. PICK order \in SetToSeqs(again) :
        sq' = [i \in 1 .. Len(order) |-> [port |-> order[i], try |-> sp[order[i]].try + 1]] \o sq
  BY DEF SynRound
<1>3. /\ sphase = "fill" /\ sp' = [p \in Outstanding \ gone |-> sp[p]] /\ sbuffer' = {}
      /\ UNCHANGED <<sphase, send, sworld, snote>>
  BY DEF SynRound
<1>4. \/ /\ \E rtt \in {10, 500} :
                swindow' = Repace(tally, Cardinality(Outstanding \ gone), Len(sq'), rtt)
         /\ stally' = [completions |-> 0, timeouts |-> 0]
      \/ stally' = tally /\ UNCHANGED swindow
  BY DEF SynRound
<1>5. /\ sq \in Seq(SynEntry) /\ PortsDistinct(sq) /\ Outstanding \subseteq SynPorts
      /\ QueuedPorts(sq) \cap Outstanding = {}
      /\ sprobes \in [SynPorts -> Seq(SynPushed)]
      /\ \A p \in Outstanding : sp[p].try \in 1 .. SynRetries + 1
      /\ stally \in [completions : Nat, timeouts : Nat]
  BY DEF SynInv, SynTypeOK, SynEntry, SynPushed
<1>6. IsFiniteSet(Outstanding)
  BY <1>5, SynConstants, FS_Subset
<1>7. again \subseteq lapsed /\ gone \subseteq Outstanding /\ lapsed \subseteq gone /\ heard \cap lapsed = {}
  OBVIOUS
<1>8. IsFiniteSet(again) /\ IsFiniteSet(gone) /\ IsFiniteSet(lapsed)
  BY <1>6, <1>7, FS_Subset
<1>9. \A p \in again : p \in SynPorts /\ sp[p].try + 1 \in 1 .. SynRetries + 1
  <2> TAKE p \in again
  <2>1. p \in Outstanding /\ sp[p].try <= SynRetries
    BY DEF SynMayRetry
  <2> QED
    BY <1>5, <2>1, SynConstants
<1> DEFINE entry(p) == IF p \in heard THEN [state |-> verdict[p], try |-> sp[p].try]
                                      ELSE [state |-> "open_or_filtered", try |-> sp[p].try]
<1>10. \A p \in gone : entry(p) \in SynPushed
  BY <1>1, <1>5, <1>7 DEF SynPushed, SynVerdicts, Replies
<1>11. \A p \in SynPorts : sprobes'[p] = IF p \in gone \ again THEN Append(sprobes[p], entry(p))
                                                               ELSE sprobes[p]
  BY <1>1, <1>7
<1>12. stally' \in [completions : Nat, timeouts : Nat]
  <2>1. Cardinality(gone) \in Nat /\ Cardinality(lapsed) \in Nat
    BY <1>8, FS_CardinalityType
  <2> QED
    BY <1>4, <1>5, <2>1
<1>13. swindow' \in 1 .. SynWindow
  <2>1. swindow \in 1 .. SynWindow
    BY SynConstants DEF SynInv, SynTypeOK, SynWindowUsable
  <2> QED
    BY <1>4, <2>1, RepaceInBounds
<1>14. DOMAIN sprobes' = SynPorts /\ sprobes' = [p \in SynPorts |-> sprobes'[p]]
  BY <1>1
<1> HIDE DEF heard, lapsed, again, gone, tally, entry
<1> DEFINE row == [i \in 1 .. Len(order) |-> [port |-> order[i], try |-> sp[order[i]].try + 1]]
<1>15. order \in [1 .. Len(order) -> again]
  BY <1>8, RowOfSet
<1>16. row \in [1 .. Len(order) -> SynEntry] /\ \A i \in 1 .. Len(order) : row[i].port = order[i]
  BY <1>9, <1>15 DEF SynEntry
<1> HIDE DEF row
<1>17. row \in Seq(SynEntry) /\ QueuedPorts(row) = again /\ PortsDistinct(row)
  BY <1>8, <1>16, RowOfEntries, SMTT(30)
<1>18. /\ sq' \in Seq(SynEntry) /\ QueuedPorts(sq') = again \cup QueuedPorts(sq) /\ PortsDistinct(sq')
  <2>1. QueuedPorts(row) \cap QueuedPorts(sq) = {}
    BY <1>5, <1>7, <1>17
  <2>2. /\ row \o sq \in Seq(SynEntry) /\ PortsDistinct(row \o sq)
        /\ QueuedPorts(row \o sq) = QueuedPorts(row) \cup QueuedPorts(sq)
    BY <1>5, <1>17, <2>1, JoinedEntries
  <2>3. sq' = row \o sq
    BY <1>2 DEF row
  <2> QED
    BY <1>17, <2>2, <2>3
<1>19. Outstanding' = Outstanding \ gone
  BY <1>3 DEF Outstanding
<1>20. \A p \in gone : sprobes[p] = << >>
  BY <1>5, <1>7 DEF SynInv
<1>21. \A p \in SynPorts :
         IF p \in gone \ again
         THEN Len(sprobes'[p]) = 1 /\ sprobes'[p] \in Seq(SynPushed)
         ELSE sprobes'[p] = sprobes[p]
  <2> TAKE p \in SynPorts
  <2>1. CASE p \in gone \ again
    <3>1. sprobes'[p] = Append(<< >>, entry(p)) /\ entry(p) \in SynPushed
      BY <1>10, <1>11, <1>20, <2>1
    <3>2. \A e \in SynPushed : Append(<< >>, e) \in Seq(SynPushed) /\ Len(Append(<< >>, e)) = 1
      OBVIOUS
    <3> QED
      BY <2>1, <3>1, <3>2
  <2> QED
    BY <1>11, <2>1
<1>22. SynTypeOK'
  <2>1. sprobes' \in [SynPorts -> Seq(SynPushed)]
    <3>1. \A p \in SynPorts : sprobes'[p] \in Seq(SynPushed)
      BY <1>5, <1>21
    <3> QED
      BY <1>14, <3>1
  <2>2. \A p \in Outstanding' : sp'[p] \in [try : 1 .. SynRetries + 1, due : BOOLEAN]
    BY <1>3, <1>19 DEF SynInv, SynTypeOK
  <2>3. swindow' \in Nat
    BY <1>13, SynConstants
  <2> QED
    BY <1>3, <1>12, <1>18, <1>19, <2>1, <2>2, <2>3 DEF SynInv, SynTypeOK, SynEntry, SynPushed
<1>23. \A p \in SynPorts : IF p \in QueuedPorts(sq') \/ p \in Outstanding'
                           THEN sprobes'[p] = << >> ELSE Len(sprobes'[p]) = 1
  BY <1>5, <1>7, <1>18, <1>19, <1>20, <1>21 DEF SynInv
<1>24. QueuedPorts(sq') \cap Outstanding' = {}
  BY <1>5, <1>7, <1>18, <1>19
<1>25. SynWindowUsable'
  <2>1. Cardinality(Outstanding') <= Cardinality(Outstanding) /\ IsFiniteSet(Outstanding')
    BY <1>6, <1>19, FS_Subset
  <2>2. Cardinality(Outstanding') \in Nat /\ Cardinality(Outstanding) \in Nat
    BY <1>6, <2>1, FS_CardinalityType
  <2>3. Cardinality(Outstanding) <= SynWindow
    BY DEF SynInv, SynWindowUsable
  <2> QED
    BY <1>13, <2>1, <2>2, <2>3, SynConstants DEF SynWindowUsable
<1> QED
  BY <1>3, <1>18, <1>22, <1>23, <1>24, <1>25 DEF SynInv

\* every step keeps it,
LEMMA SynNextInv == SynInv /\ [SynNext]_synvars => SynInv'
<1> SUFFICES ASSUME SynInv, [SynNext]_synvars PROVE SynInv'
  OBVIOUS
<1>1. CASE SynStop \/ SynFinish
  <2>1. /\ sphase' = "done" /\ snote' = [snote EXCEPT !.mechanism = "syn"]
        /\ UNCHANGED <<sq, sp, sprobes, sbuffer, swindow, stally, sworld>>
        /\ send' = send \/ send' \in {"token", "deadline"}
    BY <1>1 DEF SynStop, SynFinish, SynDone
  <2>2. Outstanding' = Outstanding
    BY <2>1 DEF Outstanding
  <2>3. SynTypeOK'
    BY <2>1, <2>2 DEF SynInv, SynTypeOK
  <2> QED
    BY <2>1, <2>2, <2>3, SynFrame
<1>2. CASE SynCancel \/ SynExpire \/ UNCHANGED synvars
  <2>1. UNCHANGED <<sq, sp, sprobes, sbuffer, sphase, send, swindow, stally, snote>>
    BY <1>2 DEF SynCancel, SynExpire, synvars
  <2>2. sworld' \in [cancelled : BOOLEAN, expired : BOOLEAN, icmp : BOOLEAN]
    BY <1>2 DEF SynCancel, SynExpire, synvars, SynInv, SynTypeOK
  <2>3. Outstanding' = Outstanding
    BY <2>1 DEF Outstanding
  <2>4. SynTypeOK'
    BY <2>1, <2>2, <2>3 DEF SynInv, SynTypeOK
  <2> QED
    BY <2>1, <2>3, <2>4, SynFrame
<1>3. ASSUME NEW p \in SynPorts, SynArrive(p) PROVE SynInv'
  <2>1. UNCHANGED <<sq, sp, sprobes, sphase, send, swindow, stally, sworld, snote>>
    BY <1>3 DEF SynArrive
  <2>2. sbuffer' \subseteq SynPorts \X Replies
    BY <1>3 DEF SynArrive, SynInv, SynTypeOK
  <2>3. Outstanding' = Outstanding
    BY <2>1 DEF Outstanding
  <2>4. SynTypeOK'
    BY <2>1, <2>2, <2>3 DEF SynInv, SynTypeOK
  <2> QED
    BY <2>1, <2>3, <2>4, SynFrame
<1>4. ASSUME NEW p \in Outstanding, SynLapse(p) PROVE SynInv'
  <2>1. /\ sp' = [sp EXCEPT ![p].due = TRUE]
        /\ UNCHANGED <<sq, sprobes, sbuffer, sphase, send, swindow, stally, sworld, snote>>
    BY <1>4 DEF SynLapse
  <2>2. Outstanding' = Outstanding
    BY <2>1 DEF Outstanding
  <2>3. \A r \in Outstanding' : sp'[r] \in [try : 1 .. SynRetries + 1, due : BOOLEAN]
    <3> TAKE r \in Outstanding'
    <3>1. sp'[r] = IF r = p THEN [sp[r] EXCEPT !.due = TRUE] ELSE sp[r]
      BY <2>1, <2>2 DEF Outstanding
    <3>2. sp[r] \in [try : 1 .. SynRetries + 1, due : BOOLEAN]
      BY <2>2 DEF SynInv, SynTypeOK
    <3>3. [sp[r] EXCEPT !.due = TRUE] \in [try : 1 .. SynRetries + 1, due : BOOLEAN]
      BY <3>2
    <3> QED
      BY <3>1, <3>2, <3>3
  <2>4. SynTypeOK'
    BY <2>1, <2>2, <2>3 DEF SynInv, SynTypeOK
  <2> QED
    BY <2>1, <2>2, <2>4, SynFrame
<1> QED
  BY <1>1, <1>2, <1>3, <1>4, SynSent, SynFellBack, SynFallbackReturned, SynRounded DEF SynNext

\* so it always holds,
LEMMA SynAlways == SynSpec => []SynInv
  BY SynInitInv, SynNextInv, PTL DEF SynSpec

\* and what is promised of the sweep follows.
LEMMA SynInvImplies == SynInv => SynTypeOK /\ SynWindowUsable /\ SynEachPortOnce
<1> SUFFICES ASSUME SynInv PROVE SynTypeOK /\ SynWindowUsable /\ SynEachPortOnce
  OBVIOUS
<1>1. ASSUME NEW p \in SynPorts
      PROVE  Cardinality({i \in 1 .. Len(sq) : sq[i].port = p})
               + (IF p \in Outstanding THEN 1 ELSE 0) + Len(sprobes[p]) = 1
  <2>1. Cardinality({i \in 1 .. Len(sq) : sq[i].port = p}) = IF p \in QueuedPorts(sq) THEN 1 ELSE 0
    <3>1. sq \in Seq(SynEntry) /\ PortsDistinct(sq)
      BY DEF SynInv, SynTypeOK, SynEntry
    <3> QED
      BY <3>1, PlacesOfPort
  <2>2. CASE p \in QueuedPorts(sq)
    <3>1. p \notin Outstanding /\ Len(sprobes[p]) = 0
      BY <2>2 DEF SynInv
    <3> QED
      BY <2>1, <2>2, <3>1
  <2>3. CASE p \in Outstanding
    <3>1. p \notin QueuedPorts(sq) /\ Len(sprobes[p]) = 0
      BY <2>3 DEF SynInv
    <3> QED
      BY <2>1, <2>3, <3>1
  <2>4. CASE p \notin QueuedPorts(sq) /\ p \notin Outstanding
    <3>1. Len(sprobes[p]) = 1
      BY <2>4 DEF SynInv
    <3> QED
      BY <2>1, <2>4, <3>1
  <2> QED
    BY <2>2, <2>3, <2>4
<1> QED
  BY <1>1 DEF SynInv, SynEachPortOnce

-----------------------------------------------------------------------------
(* The UDP scan.                                                           *)

UdpEntry == [port : UdpPorts, try : 1 .. UdpRetries + 1]
UdpHolding == [try : 1 .. UdpRetries + 1, held : UdpHeld, self : BOOLEAN, due : BOOLEAN]

\* Whether a record is kept of a port in this state.
KeepsRecord(s) == uretain \/ s = "open"

UdpInv ==
  /\ UdpTypeOK
  /\ PortsDistinct(uq)
  /\ QueuedPorts(uq) \cap Probing = {}
  /\ \A p \in QueuedPorts(uq) \cup Probing : uprobes[p] = << >>
  /\ Counted + UdpUnscanned = Cardinality(UdpPorts)
  /\ \A s \in UdpStates : KeepsRecord(s) => Cardinality(KeptAs(s)) = ucount[s]
  /\ \A p \in UdpPorts : uprobes[p] # << >> => \E s \in UdpStates : KeepsRecord(s) /\ uprobes[p] = <<s>>

\* What the assumption says of the constants.
LEMMA UdpConstants ==
  /\ IsFiniteSet(UdpPorts) /\ Cardinality(UdpPorts) \in Nat /\ UdpPorts = 1 .. Cardinality(UdpPorts)
  /\ UdpWindow \in Nat /\ UdpWindow > 0 /\ UdpRetries \in Nat
  /\ 1 \in 1 .. UdpRetries + 1
<1>1. IsFiniteSet(UdpPorts) /\ Cardinality(UdpPorts) \in Nat
  BY FS_CardinalityType, UdpAssumption DEF UdpAssumption
<1> QED
  BY <1>1, UdpAssumption DEF UdpAssumption

\* What the type says of queue and window.
LEMMA UdpParts ==
  ASSUME UdpInv
  PROVE  /\ uq \in Seq(UdpEntry) /\ Len(uq) \in Nat /\ QueuedPorts(uq) \subseteq UdpPorts
         /\ Probing \subseteq UdpPorts /\ IsFiniteSet(Probing) /\ Cardinality(Probing) \in Nat
         /\ \A s \in UdpStates : ucount[s] \in Nat
         /\ Counted \in Nat
<1>1. uq \in Seq(UdpEntry) /\ Probing \subseteq UdpPorts /\ \A s \in UdpStates : ucount[s] \in Nat
  BY DEF UdpInv, UdpTypeOK, UdpEntry
<1>2. \A i \in 1 .. Len(uq) : uq[i] \in UdpEntry
  BY <1>1, ElementOfSeq
<1>3. QueuedPorts(uq) \subseteq UdpPorts
  BY <1>2 DEF QueuedPorts, UdpEntry
<1>4. IsFiniteSet(Probing)
  BY <1>1, UdpConstants, FS_Subset
<1>5. Cardinality(Probing) \in Nat
  BY <1>4, FS_CardinalityType
<1>6. Counted \in Nat
  BY <1>1, SMTT(30) DEF Counted, UdpStates
<1> QED
  BY <1>1, <1>3, <1>4, <1>5, <1>6, LenProperties

\* Recording counts every port once, and keeps what it is to keep.
LEMMA UdpRecorded ==
  ASSUME UdpInv, NEW D \in SUBSET UdpPorts, NEW verdict \in [D -> UdpStates],
         UdpRecord(verdict), UNCHANGED uretain, \A p \in D : uprobes[p] = << >>
  PROVE  /\ ucount' \in [UdpStates -> Nat] /\ uprobes' \in [UdpPorts -> Seq(UdpStates)]
         /\ Counted' = Counted + Cardinality(D) /\ IsFiniteSet(D) /\ Cardinality(D) \in Nat
         /\ \A s \in UdpStates : KeepsRecord(s)' => Cardinality(KeptAs(s))' = ucount'[s]
         /\ \A p \in UdpPorts : uprobes'[p] # << >>
              => \E s \in UdpStates : KeepsRecord(s)' /\ uprobes'[p] = <<s>>
         /\ \A p \in UdpPorts \ D : uprobes'[p] = uprobes[p]
         /\ \A p \in D : KeepsRecord(verdict[p]) => uprobes'[p] = <<verdict[p]>>
<1> DEFINE V(s) == {p \in D : verdict[p] = s}
<1>1. IsFiniteSet(D)
  BY UdpConstants, FS_Subset
<1>2. \A s : V(s) \subseteq D
  OBVIOUS
<1>3. \A s : IsFiniteSet(V(s)) /\ Cardinality(V(s)) \in Nat
  <2> TAKE s
  <2>1. IsFiniteSet(V(s))
    BY <1>1, <1>2, FS_Subset
  <2> QED
    BY <2>1, FS_CardinalityType
<1>4. /\ ucount' = [s \in UdpStates |-> ucount[s] + Cardinality(V(s))]
      /\ uprobes' = [p \in UdpPorts |-> IF p \in D /\ (uretain \/ verdict[p] = "open")
                                        THEN Append(uprobes[p], verdict[p]) ELSE uprobes[p]]
  BY DEF UdpRecord
<1>5. /\ \A s \in UdpStates : ucount[s] \in Nat /\ ucount'[s] = ucount[s] + Cardinality(V(s))
      /\ ucount' \in [UdpStates -> Nat]
  <2>1. \A s \in UdpStates : ucount[s] \in Nat
    BY UdpParts
  <2>2. \A s \in UdpStates : ucount'[s] = ucount[s] + Cardinality(V(s)) /\ Cardinality(V(s)) \in Nat
    BY <1>3, <1>4
  <2> HIDE DEF V
  <2>3. \A s \in UdpStates : ucount'[s] \in Nat
    BY <2>1, <2>2
  <2>4. ucount' = [s \in UdpStates |-> ucount'[s]]
    BY <1>4
  <2> QED
    BY <2>1, <2>2, <2>3, <2>4
<1>6. \A p \in UdpPorts \ D : uprobes'[p] = uprobes[p]
  BY <1>4
<1>7. \A p \in D : IF KeepsRecord(verdict[p]) THEN uprobes'[p] = <<verdict[p]>>
                                              ELSE uprobes'[p] = << >>
  <2> TAKE p \in D
  <2>1. \A e \in UdpStates : Append(<< >>, e) = <<e>>
    OBVIOUS
  <2>2. uprobes[p] = << >> /\ verdict[p] \in UdpStates
    OBVIOUS
  <2> QED
    BY <1>4, <2>1, <2>2 DEF KeepsRecord
<1>8. uprobes \in [UdpPorts -> Seq(UdpStates)]
  BY DEF UdpInv, UdpTypeOK
<1>9. uprobes' \in [UdpPorts -> Seq(UdpStates)]
  <2>1. \A p \in UdpPorts : uprobes'[p] \in Seq(UdpStates)
    <3> TAKE p \in UdpPorts
    <3>1. \A e \in UdpStates : <<e>> \in Seq(UdpStates)
      OBVIOUS
    <3>2. << >> \in Seq(UdpStates)
      OBVIOUS
    <3> QED
      BY <1>6, <1>7, <1>8, <3>1, <3>2
  <2> QED
    BY <1>4, <2>1
<1> HIDE DEF V
<1>10. Counted' = Counted + Cardinality(D)
  <2>1. D = ((V("open") \cup V("closed")) \cup V("silent")) \cup V("error")
    BY DEF V, UdpStates
  <2>2. /\ V("open") \cap V("closed") = {} /\ (V("open") \cup V("closed")) \cap V("silent") = {}
        /\ ((V("open") \cup V("closed")) \cup V("silent")) \cap V("error") = {}
    BY DEF V
  <2>3. /\ IsFiniteSet(V("open") \cup V("closed"))
        /\ Cardinality(V("open") \cup V("closed")) = Cardinality(V("open")) + Cardinality(V("closed"))
    BY <1>3, <2>2, DisjointCount
  <2>4. /\ IsFiniteSet((V("open") \cup V("closed")) \cup V("silent"))
        /\ Cardinality((V("open") \cup V("closed")) \cup V("silent"))
             = Cardinality(V("open") \cup V("closed")) + Cardinality(V("silent"))
    BY <1>3, <2>2, <2>3, DisjointCount
  <2>5. Cardinality(D) = Cardinality((V("open") \cup V("closed")) \cup V("silent"))
                         + Cardinality(V("error"))
    BY <1>3, <2>1, <2>2, <2>4, DisjointCount
  <2>6. Cardinality(D) = Cardinality(V("open")) + Cardinality(V("closed"))
                         + Cardinality(V("silent")) + Cardinality(V("error"))
    BY <2>3, <2>4, <2>5
  <2>7. /\ ucount'["open"] = ucount["open"] + Cardinality(V("open"))
        /\ ucount'["closed"] = ucount["closed"] + Cardinality(V("closed"))
        /\ ucount'["silent"] = ucount["silent"] + Cardinality(V("silent"))
        /\ ucount'["error"] = ucount["error"] + Cardinality(V("error"))
        /\ ucount["open"] \in Nat /\ ucount["closed"] \in Nat
        /\ ucount["silent"] \in Nat /\ ucount["error"] \in Nat
    BY <1>5 DEF UdpStates
  <2>8. /\ Cardinality(V("open")) \in Nat /\ Cardinality(V("closed")) \in Nat
        /\ Cardinality(V("silent")) \in Nat /\ Cardinality(V("error")) \in Nat
    BY <1>3
  <2>9. /\ Counted = ucount["open"] + ucount["closed"] + ucount["silent"] + ucount["error"]
        /\ Counted' = ucount'["open"] + ucount'["closed"] + ucount'["silent"] + ucount'["error"]
    BY DEF Counted
  <2>10. PICK a \in Nat, b \in Nat, c \in Nat, d \in Nat :
           /\ a = Cardinality(V("open")) /\ b = Cardinality(V("closed"))
           /\ c = Cardinality(V("silent")) /\ d = Cardinality(V("error"))
    BY <2>8
  <2>11. PICK i \in Nat, j \in Nat, k \in Nat, l \in Nat :
           /\ i = ucount["open"] /\ j = ucount["closed"]
           /\ k = ucount["silent"] /\ l = ucount["error"]
    BY <2>7
  <2>12. Counted = i + j + k + l
    BY <2>9, <2>11
  <2>13. Counted' = (i + a) + (j + b) + (k + c) + (l + d)
    BY <2>7, <2>9, <2>10, <2>11
  <2>14. Cardinality(D) = a + b + c + d
    BY <2>6, <2>10
  <2> QED
    BY <2>12, <2>13, <2>14
<1>11. ASSUME NEW s \in UdpStates, KeepsRecord(s)
       PROVE  Cardinality(KeptAs(s))' = ucount'[s]
  <2>1. KeptAs(s)' = KeptAs(s) \cup V(s)
    <3>1. ASSUME NEW p \in UdpPorts
          PROVE  uprobes'[p] = <<s>> <=> uprobes[p] = <<s>> \/ p \in V(s)
      <4>1. CASE p \in D
        <5>1. uprobes[p] # <<s>>
          BY <4>1
        <5>2. KeepsRecord(verdict[p]) => (<<verdict[p]>> = <<s>> <=> verdict[p] = s)
          OBVIOUS
        <5>3. << >> # <<s>>
          OBVIOUS
        <5> QED
          BY <1>7, <1>11, <4>1, <5>1, <5>2, <5>3 DEF V
      <4>2. CASE p \notin D
        BY <1>6, <4>2 DEF V
      <4> QED
        BY <4>1, <4>2
    <3>2. V(s) \subseteq UdpPorts
      BY DEF V
    <3> QED
      BY <3>1, <3>2 DEF KeptAs
  <2>2. KeptAs(s) \cap V(s) = {}
    <3>1. \A p \in V(s) : uprobes[p] = << >> /\ << >> # <<s>>
      BY DEF V
    <3> QED
      BY <3>1 DEF KeptAs
  <2>3. IsFiniteSet(KeptAs(s))
    <3>1. KeptAs(s) \subseteq UdpPorts
      BY DEF KeptAs
    <3> QED
      BY <3>1, UdpConstants, FS_Subset
  <2>4. Cardinality(KeptAs(s) \cup V(s)) = Cardinality(KeptAs(s)) + Cardinality(V(s))
    BY <1>3, <2>2, <2>3, DisjointCount
  <2>5. Cardinality(KeptAs(s)) = ucount[s]
    BY <1>11 DEF UdpInv
  <2> QED
    BY <1>5, <2>1, <2>4, <2>5
<1>12. ASSUME NEW p \in UdpPorts, uprobes'[p] # << >>
       PROVE  \E s \in UdpStates : KeepsRecord(s) /\ uprobes'[p] = <<s>>
  <2>1. CASE p \in D
    BY <1>7, <1>12, <2>1
  <2>2. CASE p \notin D
    BY <1>6, <1>12, <2>2 DEF UdpInv
  <2> QED
    BY <2>1, <2>2
<1>13. \A s : KeepsRecord(s)' <=> KeepsRecord(s)
  BY DEF KeepsRecord
<1>14. Cardinality(D) \in Nat
  BY <1>1, FS_CardinalityType
<1> QED
  BY <1>1, <1>5, <1>6, <1>7, <1>9, <1>10, <1>11, <1>12, <1>13, <1>14

\* The UDP sweep begins in its invariant,
LEMMA UdpInitInv == UdpInit => UdpInv
<1> SUFFICES ASSUME UdpInit PROVE UdpInv
  OBVIOUS
<1> DEFINE n == Cardinality(UdpPorts)
<1>1. /\ uq = [i \in 1 .. n |-> [port |-> i, try |-> 1]] /\ up = << >> /\ uready = {}
      /\ ucount = [s \in UdpStates |-> 0] /\ uprobes = [p \in UdpPorts |-> << >>]
      /\ uretain \in BOOLEAN /\ uphase = "fill" /\ uend = "nothing"
      /\ uworld = [cancelled |-> FALSE, expired |-> FALSE]
  BY DEF UdpInit
<1>2. n \in Nat /\ \A i \in 1 .. n : [port |-> i, try |-> 1] \in UdpEntry
  BY UdpConstants DEF UdpEntry
<1> HIDE DEF n
<1>3. uq \in Seq(UdpEntry) /\ Len(uq) = n /\ PortsDistinct(uq)
  BY <1>1, <1>2, FirstEntries
<1>4. Probing = {} /\ Cardinality(Probing) = 0
  <2>1. Probing = {}
    BY <1>1 DEF Probing
  <2> QED
    BY <2>1, FS_EmptySet
<1>5. UdpTypeOK
  BY <1>1, <1>3, <1>4, UdpConstants DEF UdpTypeOK, UdpEntry
<1>6. UdpUnscanned = n /\ Counted = 0
  BY <1>1, <1>2, <1>3, <1>4 DEF UdpUnscanned, Counted, UdpStates
<1>7. ASSUME NEW s \in UdpStates PROVE Cardinality(KeptAs(s)) = ucount[s]
  <2>1. << >> # <<s>>
    OBVIOUS
  <2>2. KeptAs(s) = {}
    BY <1>1, <2>1 DEF KeptAs
  <2> QED
    BY <1>1, <2>2, FS_EmptySet
<1>8. QueuedPorts(uq) \subseteq UdpPorts
  <2>1. \A i \in 1 .. Len(uq) : uq[i] \in UdpEntry
    BY <1>3, ElementOfSeq
  <2> QED
    BY <2>1 DEF QueuedPorts, UdpEntry
<1>9. Counted + UdpUnscanned = Cardinality(UdpPorts)
  BY <1>2, <1>6 DEF n
<1> QED
  BY <1>1, <1>3, <1>4, <1>5, <1>7, <1>8, <1>9 DEF UdpInv

\* Steps that leave queue, window and verdicts alone.
LEMMA UdpFrame ==
  ASSUME UdpInv, UdpTypeOK', UNCHANGED <<uq, ucount, uprobes, uretain>>, Probing' = Probing
  PROVE  UdpInv'
<1>1. /\ PortsDistinct(uq)' /\ (QueuedPorts(uq) \cap Probing = {})'
      /\ (\A p \in QueuedPorts(uq) \cup Probing : uprobes[p] = << >>)'
  BY DEF UdpInv, PortsDistinct, QueuedPorts
<1>2. Counted' = Counted /\ UdpUnscanned' = UdpUnscanned
  BY DEF Counted, UdpUnscanned
<1>3. \A s : KeptAs(s)' = KeptAs(s) /\ (KeepsRecord(s)' <=> KeepsRecord(s))
  BY DEF KeptAs, KeepsRecord
<1> QED
  BY <1>1, <1>2, <1>3 DEF UdpInv

\* A step that counts the ports of D: they leave queue and window.
LEMMA UdpCounts ==
  ASSUME UdpInv, UdpTypeOK', NEW D \in SUBSET UdpPorts, NEW verdict \in [D -> UdpStates],
         D \subseteq QueuedPorts(uq) \cup Probing,
         UdpRecord(verdict), UNCHANGED uretain, PortsDistinct(uq)',
         (QueuedPorts(uq) \cap Probing)' = {},
         (QueuedPorts(uq) \cup Probing)' \subseteq (QueuedPorts(uq) \cup Probing) \ D,
         UdpUnscanned' = UdpUnscanned - Cardinality(D)
  PROVE  UdpInv'
<1>1. \A p \in D : uprobes[p] = << >>
  BY DEF UdpInv
<1>2. /\ Counted' = Counted + Cardinality(D) /\ Cardinality(D) \in Nat
      /\ \A s \in UdpStates : KeepsRecord(s)' => Cardinality(KeptAs(s))' = ucount'[s]
      /\ \A p \in UdpPorts : uprobes'[p] # << >>
           => \E s \in UdpStates : KeepsRecord(s)' /\ uprobes'[p] = <<s>>
      /\ \A p \in UdpPorts \ D : uprobes'[p] = uprobes[p]
  BY <1>1, UdpRecorded
<1>3. \A p \in (QueuedPorts(uq) \cup Probing)' : uprobes'[p] = << >>
  BY <1>2, UdpParts DEF UdpInv
<1>4. (Counted + UdpUnscanned = Cardinality(UdpPorts))'
  <2>1. Counted \in Nat /\ UdpUnscanned \in Nat /\ Counted + UdpUnscanned = Cardinality(UdpPorts)
    BY UdpParts DEF UdpInv, UdpUnscanned
  <2> QED
    BY <1>2, <2>1
<1> QED
  BY <1>2, <1>3, <1>4 DEF UdpInv

\* A send takes the head of the queue into the window or concludes it.
LEMMA UdpSent == UdpInv /\ UdpSend => UdpInv'
<1> SUFFICES ASSUME UdpInv, UdpSend PROVE UdpInv'
  OBVIOUS
<1> DEFINE h == Head(uq)
<1>1. /\ uq \in Seq(UdpEntry) /\ uq # << >> /\ PortsDistinct(uq) /\ uq' = Tail(uq)
      /\ Probing \subseteq UdpPorts /\ Cardinality(Probing) < UdpWindow
      /\ UNCHANGED <<uretain, uphase, uready, uend, uworld>>
      /\ QueuedPorts(uq) \subseteq UdpPorts /\ Len(uq) \in Nat /\ IsFiniteSet(Probing)
      /\ Cardinality(Probing) \in Nat
  BY UdpParts DEF UdpInv, UdpSend
<1>2. /\ h \in UdpEntry /\ h.port \in QueuedPorts(uq) /\ uq' \in Seq(UdpEntry)
      /\ QueuedPorts(uq') = QueuedPorts(uq) \ {h.port} /\ PortsDistinct(uq')
      /\ Len(uq') = Len(uq) - 1
  <2>1. /\ Head(uq) \in UdpEntry /\ Head(uq).port \in QueuedPorts(uq)
        /\ Tail(uq) \in Seq(UdpEntry) /\ Len(Tail(uq)) = Len(uq) - 1
        /\ QueuedPorts(Tail(uq)) = QueuedPorts(uq) \ {Head(uq).port} /\ PortsDistinct(Tail(uq))
    BY <1>1, TailEntries
  <2> QED
    BY <1>1, <2>1
<1>3. /\ h.port \in UdpPorts /\ h.try \in 1 .. UdpRetries + 1 /\ uprobes[h.port] = << >>
      /\ h.port \notin Probing
  BY <1>2 DEF UdpInv, UdpEntry
<1>4. ASSUME NEW self \in BOOLEAN,
             up' = [p \in Probing \cup {h.port} |->
                      IF p = h.port
                      THEN [try |-> h.try, held |-> "none", self |-> self, due |-> FALSE]
                      ELSE up[p]],
             UNCHANGED <<ucount, uprobes>>
      PROVE  UdpInv'
  <2> HIDE DEF h
  <2>1. Probing' = Probing \cup {h.port}
    BY <1>4 DEF Probing
  <2>2. Cardinality(Probing') = Cardinality(Probing) + 1
    BY <1>1, <1>3, <2>1, FS_AddElement
  <2>3. ASSUME NEW p \in Probing' PROVE up'[p] \in UdpHolding
    BY <1>3, <1>4, <2>1 DEF UdpInv, UdpTypeOK, UdpHolding, UdpHeld
  <2>4. UdpTypeOK'
    <3>1. Cardinality(Probing') <= UdpWindow
      BY <1>1, <2>2, UdpConstants
    <3> QED
      BY <1>1, <1>2, <1>3, <1>4, <2>1, <2>3, <3>1 DEF UdpInv, UdpTypeOK, UdpEntry, UdpHolding
  <2>5. \A p \in QueuedPorts(uq') \cup Probing' : uprobes'[p] = << >>
    BY <1>2, <1>3, <1>4, <2>1 DEF UdpInv
  <2>6. QueuedPorts(uq') \cap Probing' = {}
    BY <1>2, <2>1 DEF UdpInv
  <2>7. UdpUnscanned' = UdpUnscanned /\ Counted' = Counted
    BY <1>1, <1>2, <1>4, <2>2 DEF UdpUnscanned, Counted
  <2>8. \A s : KeptAs(s)' = KeptAs(s) /\ (KeepsRecord(s)' <=> KeepsRecord(s))
    BY <1>1, <1>4 DEF KeptAs, KeepsRecord
  <2> QED
    BY <1>1, <1>2, <1>4, <2>4, <2>5, <2>6, <2>7, <2>8 DEF UdpInv
<1>5. ASSUME NEW v \in {"closed", "error"}, UdpRecord([p \in {h.port} |-> v]), UNCHANGED up
      PROVE  UdpInv'
  <2> DEFINE f == [p \in {h.port} |-> v]
  <2>1. f \in [{h.port} -> UdpStates]
    BY DEF UdpStates
  <2>2. Probing' = Probing
    BY <1>5 DEF Probing
  <2>3. UdpRecord(f)
    BY <1>5
  <2>4. Cardinality({h.port}) = 1
    BY FS_Singleton
  <2> HIDE DEF f, h
  <2>5. \A p \in {h.port} : uprobes[p] = << >>
    BY <1>3
  <2>6. ucount' \in [UdpStates -> Nat] /\ uprobes' \in [UdpPorts -> Seq(UdpStates)]
    BY <1>1, <1>3, <2>1, <2>3, <2>5, UdpRecorded
  <2>7. UdpTypeOK'
    BY <1>1, <1>2, <1>5, <2>2, <2>6 DEF UdpInv, UdpTypeOK, UdpEntry
  <2>8. UdpUnscanned' = UdpUnscanned - Cardinality({h.port})
    BY <1>1, <1>2, <2>2, <2>4 DEF UdpUnscanned
  <2>9. /\ QueuedPorts(uq') \cap Probing' = {} /\ {h.port} \in SUBSET UdpPorts
        /\ {h.port} \subseteq QueuedPorts(uq) \cup Probing
        /\ QueuedPorts(uq') \cup Probing' \subseteq (QueuedPorts(uq) \cup Probing) \ {h.port}
    BY <1>2, <1>3, <2>2 DEF UdpInv
  <2>10. PortsDistinct(uq') /\ UNCHANGED uretain
    BY <1>1, <1>2
  <2> QED
    BY <2>1, <2>3, <2>7, <2>8, <2>9, <2>10, UdpCounts
<1> QED
  BY <1>4, <1>5 DEF UdpSend

\* What a round of judging does: it concludes the ports of D, queues those to
\* try again in front and before them those it was denied to look at.
JudgesTo(D, again, denied, f) ==
    /\ D \cap again = {} /\ (D \cup again) \cap denied = {}
    /\ UdpRecord(f)
    /\ Probing' = Probing \ ((D \cup again) \cup denied)
    /\ \A p \in Probing' : up'[p] \in UdpHolding
    /\ uq' \in Seq(UdpEntry) /\ Len(uq') = Len(uq) + Cardinality(again) + Cardinality(denied)
    /\ QueuedPorts(uq') = (again \cup denied) \cup QueuedPorts(uq) /\ PortsDistinct(uq')
    /\ UdpMayGoOn => denied = {} /\ \A p \in D \cup again : Telling(p) => p \in D /\ f[p] = Told(p)

\* A judgement settles some probes, sends some again and is denied others.
LEMMA UdpJudged ==
  ASSUME UdpInv, UdpJudge
  PROVE  \E D, again, denied \in SUBSET Probing : \E f \in [D -> UdpStates] : JudgesTo(D, again, denied, f)
<1> DEFINE lapsed == {p \in Probing : up[p].due /\ ~ (p \in uready /\ Telling(p))}
<1>1. PICK denied \in (IF UdpMayGoOn THEN {{}} ELSE SUBSET lapsed) :
      \E misread \in SUBSET {p \in lapsed \ denied : Echoed(p)} :
      \E stale \in [misread -> {"closed", "error"}] :
    LET looked == Looked(lapsed, denied)
        mute == lapsed \ (denied \cup misread \cup looked)
        again == {p \in mute : UdpMayRetry(p)}
        lost == mute \ again
        drained == {p \in uready : up[p].held = "reply"}
    IN  /\ UdpRecord([p \in looked \cup lost \cup misread |->
                         CASE p \in lost -> "silent"
                           [] p \in misread -> stale[p]
                           [] OTHER -> Told(p)])
        /\ up' = [p \in Probing \ (looked \cup lapsed) |->
                    IF p \in drained THEN [up[p] EXCEPT !.held = "none"] ELSE up[p]]
        /\ \E o1 \in SetToSeqs(denied), o2 \in SetToSeqs(again) :
              uq' = [i \in 1..Len(o2) |-> [port |-> o2[i], try |-> up[o2[i]].try + 1]]
                    \o [i \in 1..Len(o1) |-> [port |-> o1[i], try |-> up[o1[i]].try]] \o uq
  BY ZenonT(30) DEF UdpJudge
<1>2a. PICK misread \in SUBSET {p \in lapsed \ denied : Echoed(p)} :
      \E stale \in [misread -> {"closed", "error"}] :
    LET looked == Looked(lapsed, denied)
        mute == lapsed \ (denied \cup misread \cup looked)
        again == {p \in mute : UdpMayRetry(p)}
        lost == mute \ again
        drained == {p \in uready : up[p].held = "reply"}
    IN  /\ UdpRecord([p \in looked \cup lost \cup misread |->
                         CASE p \in lost -> "silent"
                           [] p \in misread -> stale[p]
                           [] OTHER -> Told(p)])
        /\ up' = [p \in Probing \ (looked \cup lapsed) |->
                    IF p \in drained THEN [up[p] EXCEPT !.held = "none"] ELSE up[p]]
        /\ \E o1 \in SetToSeqs(denied), o2 \in SetToSeqs(again) :
              uq' = [i \in 1..Len(o2) |-> [port |-> o2[i], try |-> up[o2[i]].try + 1]]
                    \o [i \in 1..Len(o1) |-> [port |-> o1[i], try |-> up[o1[i]].try]] \o uq
  BY <1>1
<1>2. PICK stale \in [misread -> {"closed", "error"}] :
    LET looked == Looked(lapsed, denied)
        mute == lapsed \ (denied \cup misread \cup looked)
        again == {p \in mute : UdpMayRetry(p)}
        lost == mute \ again
        drained == {p \in uready : up[p].held = "reply"}
    IN  /\ UdpRecord([p \in looked \cup lost \cup misread |->
                         CASE p \in lost -> "silent"
                           [] p \in misread -> stale[p]
                           [] OTHER -> Told(p)])
        /\ up' = [p \in Probing \ (looked \cup lapsed) |->
                    IF p \in drained THEN [up[p] EXCEPT !.held = "none"] ELSE up[p]]
        /\ \E o1 \in SetToSeqs(denied), o2 \in SetToSeqs(again) :
              uq' = [i \in 1..Len(o2) |-> [port |-> o2[i], try |-> up[o2[i]].try + 1]]
                    \o [i \in 1..Len(o1) |-> [port |-> o1[i], try |-> up[o1[i]].try]] \o uq
  BY <1>2a
<1> DEFINE looked == Looked(lapsed, denied)
           mute == lapsed \ (denied \cup misread \cup looked)
           again == {p \in mute : UdpMayRetry(p)}
           lost == mute \ again
           drained == {p \in uready : up[p].held = "reply"}
           D == looked \cup lost \cup misread
           f == [p \in D |-> CASE p \in lost -> "silent"
                               [] p \in misread -> stale[p]
                               [] OTHER -> Told(p)]
<1>3. /\ UdpRecord(f)
      /\ up' = [p \in Probing \ (looked \cup lapsed) |->
                  IF p \in drained THEN [up[p] EXCEPT !.held = "none"] ELSE up[p]]
  BY <1>2
<1>4. PICK o1 \in SetToSeqs(denied), o2 \in SetToSeqs(again) :
        uq' = [i \in 1..Len(o2) |-> [port |-> o2[i], try |-> up[o2[i]].try + 1]]
              \o [i \in 1..Len(o1) |-> [port |-> o1[i], try |-> up[o1[i]].try]] \o uq
  BY <1>2
<1>5. /\ uready \subseteq Probing /\ Probing \subseteq UdpPorts /\ IsFiniteSet(Probing)
      /\ \A p \in Probing : up[p] \in UdpHolding
      /\ uq \in Seq(UdpEntry) /\ PortsDistinct(uq) /\ QueuedPorts(uq) \cap Probing = {}
      /\ Len(uq) \in Nat
  BY UdpParts DEF UdpInv, UdpTypeOK, UdpHolding
<1>6. /\ denied \subseteq lapsed /\ lapsed \subseteq Probing /\ (UdpMayGoOn => denied = {})
      /\ looked = {p \in uready \cup (lapsed \ denied) : Telling(p)}
  BY <1>1 DEF Looked
<1>7. misread \subseteq lapsed \ denied /\ \A p \in misread : ~ Telling(p)
  BY DEF Echoed, Telling
<1>8. denied \cap looked = {}
  BY <1>6
<1>9. again \cap looked = {} /\ again \subseteq lapsed /\ lost \subseteq lapsed
  OBVIOUS
<1>10. looked \cup lapsed = (D \cup again) \cup denied
  BY <1>6, <1>7
<1>11. D \subseteq Probing /\ again \subseteq Probing /\ denied \subseteq Probing
  BY <1>5, <1>6, <1>7
<1>12. D \cap again = {} /\ (D \cup again) \cap denied = {}
  BY <1>6, <1>7, <1>8
<1>13. f \in [D -> UdpStates]
  <2>1. \A p \in looked : Told(p) \in UdpStates
    BY <1>6 DEF Told, Telling, UdpStates
  <2>2. \A p \in D : f[p] \in UdpStates
    BY <2>1 DEF UdpStates
  <2> QED
    BY <2>2
<1>14. ASSUME UdpMayGoOn, NEW p \in D \cup again, Telling(p) PROVE p \in D /\ f[p] = Told(p)
  <2>1. p \in looked
    BY <1>6, <1>7, <1>14
  <2>2. p \notin lost /\ p \notin misread
    BY <1>7, <1>14, <2>1
  <2> QED
    BY <2>1, <2>2
<1>15. \A p \in again : p \in UdpPorts /\ up[p].try + 1 \in 1 .. UdpRetries + 1
  <2> TAKE p \in again
  <2>1. p \in Probing /\ up[p].try <= UdpRetries
    BY <1>11 DEF UdpMayRetry
  <2> QED
    BY <1>5, <2>1, UdpConstants DEF UdpHolding
<1>16. \A p \in denied : p \in UdpPorts /\ up[p].try \in 1 .. UdpRetries + 1
  BY <1>5, <1>11 DEF UdpHolding
<1>17. \A p \in Probing \ (looked \cup lapsed) : up'[p] \in UdpHolding
  <2> TAKE p \in Probing \ (looked \cup lapsed)
  <2>1. up'[p] = up[p] \/ up'[p] = [up[p] EXCEPT !.held = "none"]
    BY <1>3
  <2>2. up[p] \in UdpHolding
    BY <1>5
  <2>3. [up[p] EXCEPT !.held = "none"] \in UdpHolding
    BY <2>2 DEF UdpHolding, UdpHeld
  <2> QED
    BY <2>1, <2>2, <2>3
<1>18. Probing' = Probing \ (looked \cup lapsed)
  BY <1>3 DEF Probing
<1> HIDE DEF lapsed, looked, mute, again, lost, drained, D, f
<1> DEFINE front == [i \in 1 .. Len(o2) |-> [port |-> o2[i], try |-> up[o2[i]].try + 1]]
           mid == [i \in 1 .. Len(o1) |-> [port |-> o1[i], try |-> up[o1[i]].try]]
<1>19. IsFiniteSet(again) /\ IsFiniteSet(denied)
  BY <1>5, <1>11, FS_Subset
<1>20. o2 \in [1 .. Len(o2) -> again] /\ o1 \in [1 .. Len(o1) -> denied]
  BY <1>19, RowOfSet
<1>21. /\ front \in [1 .. Len(o2) -> UdpEntry] /\ \A i \in 1 .. Len(o2) : front[i].port = o2[i]
  BY <1>15, <1>20 DEF UdpEntry
<1>22. /\ mid \in [1 .. Len(o1) -> UdpEntry] /\ \A i \in 1 .. Len(o1) : mid[i].port = o1[i]
  BY <1>16, <1>20 DEF UdpEntry
<1>23. uq' = (front \o mid) \o uq
  BY <1>4
<1> HIDE DEF front, mid
<1>24. /\ front \in Seq(UdpEntry) /\ Len(front) = Cardinality(again)
       /\ QueuedPorts(front) = again /\ PortsDistinct(front)
  BY <1>19, <1>21, RowOfEntries, ZenonT(30)
<1>25. /\ mid \in Seq(UdpEntry) /\ Len(mid) = Cardinality(denied)
       /\ QueuedPorts(mid) = denied /\ PortsDistinct(mid)
  BY <1>19, <1>22, RowOfEntries, SMTT(30)
<1>26. /\ front \o mid \in Seq(UdpEntry) /\ Len(front \o mid) = Len(front) + Len(mid)
       /\ QueuedPorts(front \o mid) = QueuedPorts(front) \cup QueuedPorts(mid)
       /\ PortsDistinct(front \o mid)
  <2>1. QueuedPorts(front) \cap QueuedPorts(mid) = {}
    BY <1>12, <1>24, <1>25
  <2> QED
    BY <1>24, <1>25, <2>1, JoinedEntries
<1>27. /\ uq' \in Seq(UdpEntry) /\ Len(uq') = Len(front \o mid) + Len(uq)
       /\ QueuedPorts(uq') = QueuedPorts(front \o mid) \cup QueuedPorts(uq) /\ PortsDistinct(uq')
  <2>1. QueuedPorts(front \o mid) \cap QueuedPorts(uq) = {}
    BY <1>5, <1>11, <1>24, <1>25, <1>26
  <2> QED
    <3>1. front \o mid \in Seq(UdpEntry) /\ PortsDistinct(front \o mid)
      BY <1>26
    <3>2. uq \in Seq(UdpEntry) /\ PortsDistinct(uq)
      BY <1>5
    <3> DEFINE fm == front \o mid
    <3> HIDE DEF fm
    <3>3. /\ fm \o uq \in Seq(UdpEntry) /\ Len(fm \o uq) = Len(fm) + Len(uq)
          /\ QueuedPorts(fm \o uq) = QueuedPorts(fm) \cup QueuedPorts(uq)
          /\ PortsDistinct(fm \o uq)
      BY <2>1, <3>1, <3>2, JoinedEntries DEF fm
    <3> QED
      BY <1>23, <3>3 DEF fm
<1>28. Cardinality(again) \in Nat /\ Cardinality(denied) \in Nat
  BY <1>19, FS_CardinalityType
<1>29. Len(uq') = Len(uq) + Cardinality(again) + Cardinality(denied)
  BY <1>5, <1>24, <1>25, <1>26, <1>27, <1>28
<1>30. QueuedPorts(uq') = (again \cup denied) \cup QueuedPorts(uq)
  BY <1>24, <1>25, <1>26, <1>27
<1>31. Probing' = Probing \ ((D \cup again) \cup denied)
  BY <1>10, <1>18
<1>32. \A p \in Probing' : up'[p] \in UdpHolding
  BY <1>17, <1>18
<1>33. D \in SUBSET Probing /\ again \in SUBSET Probing /\ denied \in SUBSET Probing
  BY <1>11
<1>34. UdpMayGoOn => denied = {} /\ \A p \in D \cup again : Telling(p) => p \in D /\ f[p] = Told(p)
  BY <1>6, <1>14
<1>35. uq' \in Seq(UdpEntry) /\ PortsDistinct(uq')
  BY <1>27
<1>36. JudgesTo(D, again, denied, f)
  BY <1>3, <1>12, <1>29, <1>30, <1>31, <1>32, <1>34, <1>35 DEF JudgesTo
<1> QED
  BY <1>13, <1>33, <1>36

\* Whatever it decides keeps the invariant,
LEMMA UdpJudgeInv == UdpInv /\ UdpJudge => UdpInv'
<1> SUFFICES ASSUME UdpInv, UdpJudge PROVE UdpInv'
  OBVIOUS
<1>0. PICK D \in SUBSET Probing, again \in SUBSET Probing, denied \in SUBSET Probing :
        \E f \in [D -> UdpStates] : JudgesTo(D, again, denied, f)
  BY UdpJudged
<1>1a. PICK f \in [D -> UdpStates] : JudgesTo(D, again, denied, f)
  BY <1>0
<1>1. /\ D \cap again = {} /\ (D \cup again) \cap denied = {}
      /\ UdpRecord(f)
      /\ Probing' = Probing \ ((D \cup again) \cup denied)
      /\ \A p \in Probing' : up'[p] \in UdpHolding
      /\ uq' \in Seq(UdpEntry) /\ Len(uq') = Len(uq) + Cardinality(again) + Cardinality(denied)
      /\ QueuedPorts(uq') = (again \cup denied) \cup QueuedPorts(uq) /\ PortsDistinct(uq')
  BY <1>1a DEF JudgesTo
<1>2. /\ Probing \subseteq UdpPorts /\ IsFiniteSet(Probing) /\ Cardinality(Probing) \in Nat /\ Len(uq) \in Nat
      /\ QueuedPorts(uq) \cap Probing = {} /\ \A p \in D : uprobes[p] = << >>
  BY UdpParts DEF UdpInv
<1>3. uphase' = "fill" /\ uready' = {} /\ UNCHANGED <<uretain, uend, uworld>>
  BY DEF UdpJudge
<1>4. D \in SUBSET UdpPorts
  BY <1>2
<1>5. ucount' \in [UdpStates -> Nat] /\ uprobes' \in [UdpPorts -> Seq(UdpStates)]
  BY <1>1, <1>2, <1>3, <1>4, UdpRecorded
<1>6. IsFiniteSet(D) /\ IsFiniteSet(again) /\ IsFiniteSet(denied)
  BY <1>2, FS_Subset
<1>7. /\ IsFiniteSet(D \cup again) /\ Cardinality(D \cup again) = Cardinality(D) + Cardinality(again)
      /\ Cardinality(D) \in Nat /\ Cardinality(again) \in Nat
  BY <1>1, <1>6, DisjointCount
<1>8. /\ Cardinality((D \cup again) \cup denied) = Cardinality(D \cup again) + Cardinality(denied)
      /\ Cardinality(denied) \in Nat
  BY <1>1, <1>6, <1>7, DisjointCount
<1> DEFINE gone == (D \cup again) \cup denied
<1>9. gone \subseteq Probing
  OBVIOUS
<1>10. Cardinality(Probing') = Cardinality(Probing) - Cardinality(gone) /\ Cardinality(Probing') \in Nat
       /\ Cardinality(gone) \in Nat
  BY <1>1, <1>2, <1>9, RestCount
<1>11. UdpUnscanned' = UdpUnscanned - Cardinality(D)
  <2>1. PICK a \in Nat, b \in Nat, c \in Nat, n \in Nat, l \in Nat, m \in Nat :
          /\ a = Cardinality(D) /\ b = Cardinality(again) /\ c = Cardinality(denied)
          /\ n = Cardinality(Probing) /\ l = Len(uq) /\ m = Cardinality(Probing')
    BY <1>2, <1>7, <1>8, <1>10
  <2>2. m = n - ((a + b) + c)
    BY <1>7, <1>8, <1>10, <2>1
  <2>3. UdpUnscanned' = (l + b + c) + m /\ UdpUnscanned = l + n
    BY <1>1, <2>1 DEF UdpUnscanned
  <2>4. (l + b + c) + m = (l + n) - a
    BY <2>2
  <2> QED
    BY <2>1, <2>3, <2>4
<1>12. UdpTypeOK'
  <2>1. Cardinality(Probing') <= UdpWindow
    BY <1>2, <1>10, UdpConstants DEF UdpInv, UdpTypeOK
  <2>2. Probing' \subseteq UdpPorts /\ uready' \subseteq Probing'
    BY <1>1, <1>2, <1>3
  <2> QED
    BY <1>1, <1>3, <1>5, <2>1, <2>2 DEF UdpInv, UdpTypeOK, UdpEntry, UdpHolding
<1>13. /\ QueuedPorts(uq') \cap Probing' = {} /\ D \subseteq QueuedPorts(uq) \cup Probing
       /\ QueuedPorts(uq') \cup Probing' \subseteq (QueuedPorts(uq) \cup Probing) \ D
  BY <1>1, <1>2
<1>14. PortsDistinct(uq') /\ UNCHANGED uretain /\ UdpRecord(f)
  BY <1>1, <1>3
<1> QED
  BY <1>4, <1>11, <1>12, <1>13, <1>14, UdpCounts

\* as every other step does,
LEMMA UdpNextInv == UdpInv /\ [UdpNext]_udpvars => UdpInv'
<1> SUFFICES ASSUME UdpInv, [UdpNext]_udpvars PROVE UdpInv'
  OBVIOUS
<1>1. CASE UdpStop \/ UdpEndFill \/ UdpPoll \/ UdpFinish \/ UdpCancel \/ UdpExpire \/ UNCHANGED udpvars
  <2>1. UNCHANGED <<uq, up, ucount, uprobes, uretain>>
    BY <1>1 DEF UdpStop, UdpEndFill, UdpPoll, UdpFinish, UdpCancel, UdpExpire, udpvars
  <2>2. Probing' = Probing
    BY <2>1 DEF Probing
  <2>3. /\ uphase' \in {"fill", "poll", "judge", "done"} /\ uready' \subseteq Probing
        /\ uend' \in {"nothing", "token", "deadline"}
        /\ uworld' \in [cancelled : BOOLEAN, expired : BOOLEAN]
    BY <1>1 DEF UdpStop, UdpEndFill, UdpPoll, UdpFinish, UdpCancel, UdpExpire, udpvars, UdpInv, UdpTypeOK
  <2>4. UdpTypeOK'
    BY <2>1, <2>2, <2>3 DEF UdpInv, UdpTypeOK
  <2> QED
    BY <2>1, <2>2, <2>4, UdpFrame
<1>2. ASSUME NEW p \in Probing, UdpArrive(p) \/ UdpLapse(p) PROVE UdpInv'
  <2>1. UNCHANGED <<uq, ucount, uprobes, uretain, uphase, uready, uend, uworld>>
    BY <1>2 DEF UdpArrive, UdpLapse
  <2>2. \/ \E a \in UdpHeld : up' = [up EXCEPT ![p].held = a]
        \/ up' = [up EXCEPT ![p].due = TRUE]
    BY <1>2 DEF UdpArrive, UdpLapse
  <2>3. Probing' = Probing
    BY <2>2 DEF Probing
  <2>4. \A r \in Probing : up'[r] \in UdpHolding
    <3> TAKE r \in Probing
    <3>1. up[r] \in UdpHolding
      BY DEF UdpInv, UdpTypeOK, UdpHolding
    <3>2. \/ \E a \in UdpHeld : up'[r] = IF r = p THEN [up[r] EXCEPT !.held = a] ELSE up[r]
          \/ up'[r] = IF r = p THEN [up[r] EXCEPT !.due = TRUE] ELSE up[r]
      BY <2>2 DEF Probing
    <3>3. \A a \in UdpHeld : [up[r] EXCEPT !.held = a] \in UdpHolding
      BY <3>1 DEF UdpHolding
    <3>4. [up[r] EXCEPT !.due = TRUE] \in UdpHolding
      BY <3>1 DEF UdpHolding
    <3> QED
      BY <3>1, <3>2, <3>3, <3>4
  <2>5. UdpTypeOK'
    BY <2>1, <2>3, <2>4 DEF UdpInv, UdpTypeOK, UdpHolding
  <2> QED
    BY <2>1, <2>3, <2>5, UdpFrame
<1> QED
  BY <1>1, <1>2, UdpSent, UdpJudgeInv DEF UdpNext

\* so it always holds,
LEMMA UdpAlways == UdpSpec => []UdpInv
  BY UdpInitInv, UdpNextInv, PTL DEF UdpSpec

\* and what is promised of the sweep follows.
LEMMA UdpInvImplies == UdpInv => UdpTypeOK /\ UdpCountsExact
<1> SUFFICES ASSUME UdpInv PROVE UdpTypeOK /\ UdpCountsExact
  OBVIOUS
<1>1. /\ Counted + UdpUnscanned = Cardinality(UdpPorts)
      /\ \A s \in UdpStates : KeepsRecord(s) => Cardinality(KeptAs(s)) = ucount[s]
  BY DEF UdpInv
<1>2. Cardinality(KeptAs("open")) = ucount["open"]
  BY <1>1 DEF KeepsRecord, UdpStates
<1>3. uretain => \A s \in UdpStates : Cardinality(KeptAs(s)) = ucount[s]
  BY <1>1 DEF KeepsRecord
<1>4. ~ uretain => \A p \in UdpPorts : uprobes[p] \in {<< >>, <<"open">>}
  BY DEF UdpInv, KeepsRecord
<1> QED
  BY <1>1, <1>2, <1>3, <1>4 DEF UdpCountsExact, UdpInv

\* An answer that lies in the socket when its try lapses is not lost.
THEOREM LateAnswersCount == UdpSpec => UdpLateAnswerCounts
<1> DEFINE Kept == \A p \in Probing \ DOMAIN up' :
                     Telling(p) /\ UdpMayGoOn =>
                       /\ \A i \in 1 .. Len(uq') : uq'[i].port # p
                       /\ uretain => uprobes'[p] = <<Told(p)>>
<1>1. UdpInv /\ [UdpNext]_udpvars => [Kept]_udpvars
  <2> SUFFICES ASSUME UdpInv, [UdpNext]_udpvars, NEW p \in Probing, p \notin Probing', Telling(p), UdpMayGoOn
               PROVE  /\ \A i \in 1 .. Len(uq') : uq'[i].port # p
                      /\ uretain => uprobes'[p] = <<Told(p)>>
    BY DEF Probing
  <2>1. ASSUME UNCHANGED up \/ Probing \subseteq Probing' PROVE FALSE
    BY <2>1 DEF Probing
  <2>2. UdpJudge
    <3>1. UdpSend => UNCHANGED up \/ Probing \subseteq Probing'
      BY DEF UdpSend, Probing
    <3>2. ASSUME NEW r \in Probing, UdpArrive(r) \/ UdpLapse(r) PROVE Probing \subseteq Probing'
      BY <3>2 DEF UdpArrive, UdpLapse, Probing
    <3>3. UdpStop \/ UdpEndFill \/ UdpPoll \/ UdpFinish \/ UdpCancel \/ UdpExpire \/ UNCHANGED udpvars
            => UNCHANGED up
      BY DEF UdpStop, UdpEndFill, UdpPoll, UdpFinish, UdpCancel, UdpExpire, udpvars
    <3> QED
      BY <2>1, <3>1, <3>2, <3>3 DEF UdpNext
  <2>a. PICK D \in SUBSET Probing, again \in SUBSET Probing, denied \in SUBSET Probing :
          \E f \in [D -> UdpStates] : JudgesTo(D, again, denied, f)
    BY <2>2, UdpJudged
  <2>b. PICK f \in [D -> UdpStates] : JudgesTo(D, again, denied, f)
    BY <2>a
  <2>3. /\ UdpRecord(f) /\ D \cap again = {}
        /\ Probing' = Probing \ ((D \cup again) \cup denied)
        /\ QueuedPorts(uq') = (again \cup denied) \cup QueuedPorts(uq)
        /\ denied = {} /\ \A r \in D \cup again : Telling(r) => r \in D /\ f[r] = Told(r)
    BY <2>b DEF JudgesTo
  <2>4. p \in D /\ f[p] = Told(p) /\ p \notin again /\ denied = {}
    BY <2>3
  <2>5. p \notin QueuedPorts(uq')
    BY <2>3, <2>4 DEF UdpInv
  <2>6. D \in SUBSET UdpPorts /\ \A r \in D : uprobes[r] = << >>
    BY UdpParts DEF UdpInv
  <2>7. UNCHANGED uretain
    BY <2>2 DEF UdpJudge
  <2>8. \A r \in D : KeepsRecord(f[r]) => uprobes'[r] = <<f[r]>>
    BY <2>3, <2>6, <2>7, UdpRecorded
  <2>9. uretain => uprobes'[p] = <<Told(p)>>
    BY <2>4, <2>8 DEF KeepsRecord
  <2> QED
    BY <2>5, <2>9 DEF QueuedPorts
<1> QED
  BY <1>1, UdpAlways, PTL DEF UdpSpec, UdpLateAnswerCounts

-----------------------------------------------------------------------------
(* The portable scans.                                                     *)

\* A thread at work on a port.
PoolBusy == [port : PoolPorts, try : 1..PoolRetries + 1, stage : {"taken", "trying", "blocked"}]

\* The ports no thread concluded, none holds and none will take: given up.
PoolGone == {p \in PoolPorts : /\ pprobes[p] = << >> /\ p \notin ToSet(pq)
                               /\ \A w \in PoolWorkers : pw[w].port # p}

\* Queue, threads and verdicts share the ports out, each port at one place
\* only, and the counter of unscanned ports counts the others; a flag is
\* raised only where a port was given up.
PoolInv ==
    /\ pq \in Seq(PoolPorts) /\ IsInjective(pq)
    /\ pw \in [PoolWorkers -> PoolBusy \cup {Resting}]
    /\ \A w, v \in PoolWorkers : pw[w].port = pw[v].port /\ pw[w].port # 0 => w = v
    /\ \A w \in PoolWorkers : pw[w].port \notin ToSet(pq)
    /\ pprobes \in [PoolPorts -> Seq([state : PoolVerdicts, try : 1..PoolRetries + 1])]
    /\ \A p \in ToSet(pq) : pprobes[p] = << >>
    /\ \A w \in PoolWorkers : pw[w].port # 0 => pprobes[pw[w].port] = << >>
    /\ pleft = Cardinality(PoolGone)
    /\ pflags \in [cancelled : BOOLEAN, truncated : BOOLEAN]
    /\ pflags.cancelled \/ pflags.truncated => pleft > 0
    /\ pudp \in BOOLEAN
    /\ pworld \in [cancelled : BOOLEAN, expired : BOOLEAN, over : BOOLEAN]
    /\ pworld.over => pq = << >> /\ \A w \in PoolWorkers : pw[w] = Resting

\* What the assumption says of the constants.
LEMMA PoolConstants ==
  /\ IsFiniteSet(PoolPorts) /\ Cardinality(PoolPorts) \in Nat
  /\ PoolPorts = 1 .. Cardinality(PoolPorts) /\ PoolRetries \in Nat /\ 0 \notin PoolPorts
<1>1. IsFiniteSet(PoolPorts) /\ PoolPorts = 1 .. Cardinality(PoolPorts) /\ PoolRetries \in Nat
  BY PoolAssumption DEF PoolAssumption
<1>2. Cardinality(PoolPorts) \in Nat
  BY <1>1, FS_CardinalityType
<1>3. 0 \notin PoolPorts
  BY <1>1, <1>2
<1> QED
  BY <1>1, <1>2, <1>3

\* Ports concluded are ports of the pool.
LEMMA PoolGoneCount ==
  IsFiniteSet(PoolGone) /\ Cardinality(PoolGone) \in Nat /\ Cardinality(PoolGone) <= Cardinality(PoolPorts)
<1>1. PoolGone \subseteq PoolPorts
  BY DEF PoolGone
<1>2. IsFiniteSet(PoolGone) /\ Cardinality(PoolGone) <= Cardinality(PoolPorts)
  BY <1>1, PoolConstants, FS_Subset
<1> QED
  BY <1>2, FS_CardinalityType

\* The pool begins in its invariant.
LEMMA PoolInitInv == PoolInit => PoolInv
<1> SUFFICES ASSUME PoolInit PROVE PoolInv
  OBVIOUS
<1> DEFINE n == Cardinality(PoolPorts)
<1>1. /\ pq = [i \in 1 .. n |-> i] /\ pw = [w \in PoolWorkers |-> Resting]
      /\ pprobes = [p \in PoolPorts |-> << >>] /\ pleft = 0 /\ pudp \in BOOLEAN
      /\ pflags = [cancelled |-> FALSE, truncated |-> FALSE]
      /\ pworld = [cancelled |-> FALSE, expired |-> FALSE, over |-> FALSE]
  BY DEF PoolInit
<1>2. n \in Nat /\ PoolPorts = 1 .. n /\ 0 \notin PoolPorts
  BY PoolConstants
<1> HIDE DEF n
<1>3. pq \in Seq(PoolPorts) /\ Len(pq) = n /\ DOMAIN pq = 1 .. n
  BY <1>1, <1>2
<1>4. IsInjective(pq)
  BY <1>1, <1>3 DEF IsInjective
<1>5. ToSet(pq) = PoolPorts
  BY <1>1, <1>2, <1>3 DEF ToSet
<1>6. \A w \in PoolWorkers : pw[w] = Resting /\ pw[w].port = 0
  BY <1>1 DEF Resting
<1>7. PoolGone = {}
  BY <1>5 DEF PoolGone
<1>8. pleft = Cardinality(PoolGone)
  BY <1>1, <1>7, FS_EmptySet
<1>9. \A w \in PoolWorkers : pw[w].port \notin ToSet(pq)
  BY <1>2, <1>5, <1>6
<1>10. pw \in [PoolWorkers -> PoolBusy \cup {Resting}]
  BY <1>1
<1>11. /\ pprobes \in [PoolPorts -> Seq([state : PoolVerdicts, try : 1..PoolRetries + 1])]
       /\ \A p \in ToSet(pq) : pprobes[p] = << >>
  <2>1. << >> \in Seq([state : PoolVerdicts, try : 1..PoolRetries + 1])
    OBVIOUS
  <2>2. \A p \in PoolPorts : pprobes[p] = << >>
    BY <1>1
  <2> QED
    BY <1>1, <1>5, <2>1, <2>2
<1>12. /\ pflags \in [cancelled : BOOLEAN, truncated : BOOLEAN]
       /\ ~ (pflags.cancelled \/ pflags.truncated)
       /\ pworld \in [cancelled : BOOLEAN, expired : BOOLEAN, over : BOOLEAN] /\ ~ pworld.over
  BY <1>1
<1>13. /\ \A w, v \in PoolWorkers : pw[w].port = pw[v].port /\ pw[w].port # 0 => w = v
       /\ \A w \in PoolWorkers : pw[w].port # 0 => pprobes[pw[w].port] = << >>
  BY <1>6
<1> QED
  BY <1>1, <1>3, <1>4, <1>8, <1>9, <1>10, <1>11, <1>12, <1>13 DEF PoolInv

\* A thread takes the head of the queue.
LEMMA PoolTakeInv == ASSUME PoolInv, NEW w \in PoolWorkers, PoolTake(w) PROVE PoolInv'
<1> DEFINE h == Head(pq)
<1>1. /\ pq \in Seq(PoolPorts) /\ pq # << >> /\ IsInjective(pq) /\ pq' = Tail(pq)
      /\ pw' = [pw EXCEPT ![w] = [port |-> h, try |-> 1, stage |-> "taken"]]
      /\ UNCHANGED <<pprobes, pleft, pflags, pudp, pworld>>
  BY DEF PoolTake, PoolInv
<1>2. h \in ToSet(pq) /\ ToSet(pq') = ToSet(pq) \ {h} /\ IsInjective(pq')
  BY <1>1, TailElements
<1>3. h \in PoolPorts /\ pq' \in Seq(PoolPorts)
  BY <1>1, HeadTailProperties
<1>4. h # 0 /\ [port |-> h, try |-> 1, stage |-> "taken"] \in PoolBusy
  BY <1>3, PoolConstants DEF PoolBusy
<1> HIDE DEF h
<1>5. pw[w].port = 0
  <2>1. pw[w] \in PoolBusy \cup {Resting}
    BY DEF PoolInv
  <2>2. pw[w] \notin PoolBusy
    BY DEF PoolTake, PoolBusy
  <2> QED
    BY <2>1, <2>2 DEF Resting
<1>6. \A v \in PoolWorkers : pw'[v].port = IF v = w THEN h ELSE pw[v].port
  BY <1>1 DEF PoolInv
<1>7. pw' \in [PoolWorkers -> PoolBusy \cup {Resting}]
  BY <1>1, <1>4 DEF PoolInv
<1>8. \A v \in PoolWorkers : pw[v].port # h
  BY <1>2 DEF PoolInv
<1>9. PoolGone' = PoolGone
  <2>1. ASSUME NEW p \in PoolPorts
        PROVE  (p \notin ToSet(pq') /\ \A v \in PoolWorkers : pw'[v].port # p)
                 <=> (p \notin ToSet(pq) /\ \A v \in PoolWorkers : pw[v].port # p)
    <3>1. p # 0
      BY PoolConstants
    <3> QED
      BY <1>2, <1>5, <1>6, <3>1
  <2> QED
    BY <1>1, <2>1 DEF PoolGone
<1>10. \A v, u \in PoolWorkers : pw'[v].port = pw'[u].port /\ pw'[v].port # 0 => v = u
  BY <1>6, <1>8 DEF PoolInv
<1>11. \A v \in PoolWorkers : pw'[v].port \notin ToSet(pq')
  BY <1>2, <1>6 DEF PoolInv
<1>12. /\ \A p \in ToSet(pq') : pprobes'[p] = << >>
       /\ \A v \in PoolWorkers : pw'[v].port # 0 => pprobes'[pw'[v].port] = << >>
  BY <1>1, <1>2, <1>6 DEF PoolInv
<1>13. pleft' = Cardinality(PoolGone') /\ (pflags'.cancelled \/ pflags'.truncated => pleft' > 0)
  BY <1>1, <1>9 DEF PoolInv
<1>14. ~ pworld'.over
  BY <1>1 DEF PoolInv
<1> QED
  BY <1>1, <1>2, <1>3, <1>7, <1>10, <1>11, <1>12, <1>13, <1>14 DEF PoolInv

\* A thread goes on with the port it holds.
LEMMA PoolGoesOnInv ==
  ASSUME PoolInv, NEW w \in PoolWorkers, pw[w] \in PoolBusy, NEW r \in PoolBusy,
         r.port = pw[w].port, pw' = [pw EXCEPT ![w] = r],
         UNCHANGED <<pq, pprobes, pleft, pflags, pudp, pworld>>
  PROVE  PoolInv'
<1>1. \A v \in PoolWorkers : pw'[v].port = pw[v].port
  BY DEF PoolInv
<1>2. pw' \in [PoolWorkers -> PoolBusy \cup {Resting}]
  BY DEF PoolInv
<1>3. PoolGone' = PoolGone
  BY <1>1 DEF PoolGone
<1>4. pw[w].port # 0
  BY PoolConstants DEF PoolBusy
<1>5. ~ pworld'.over
  BY <1>4 DEF PoolInv, Resting
<1>6. \A v, u \in PoolWorkers : pw'[v].port = pw'[u].port /\ pw'[v].port # 0 => v = u
  BY <1>1 DEF PoolInv
<1>7. /\ \A v \in PoolWorkers : pw'[v].port \notin ToSet(pq')
      /\ \A v \in PoolWorkers : pw'[v].port # 0 => pprobes'[pw'[v].port] = << >>
  BY <1>1 DEF PoolInv
<1>8. pleft' = Cardinality(PoolGone')
  BY <1>3 DEF PoolInv
<1> QED
  BY <1>2, <1>5, <1>6, <1>7, <1>8 DEF PoolInv

\* A thread lets go of its port: what it held belongs to nobody else.
LEMMA PoolLetsGo ==
  ASSUME PoolInv, NEW w \in PoolWorkers, pw[w] \in PoolBusy,
         pw' = [pw EXCEPT ![w] = Resting]
  PROVE  /\ pw' \in [PoolWorkers -> PoolBusy \cup {Resting}]
         /\ \A v \in PoolWorkers : pw'[v].port = IF v = w THEN 0 ELSE pw[v].port
         /\ \A v \in PoolWorkers : pw'[v].port # pw[w].port
         /\ pw[w].port \in PoolPorts /\ pw[w].port \notin ToSet(pq) /\ pprobes[pw[w].port] = << >>
         /\ \A v, u \in PoolWorkers : pw'[v].port = pw'[u].port /\ pw'[v].port # 0 => v = u
         /\ \A v \in PoolWorkers : pw'[v].port \notin ToSet(pq)
         /\ ~ pworld.over
<1>1. pw' \in [PoolWorkers -> PoolBusy \cup {Resting}]
  BY DEF PoolInv
<1>2. \A v \in PoolWorkers : pw'[v].port = IF v = w THEN 0 ELSE pw[v].port
  BY DEF PoolInv, Resting
<1>3. pw[w].port \in PoolPorts /\ pw[w].port # 0
  BY PoolConstants DEF PoolBusy
<1>4. \A v \in PoolWorkers : pw'[v].port # pw[w].port
  BY <1>2, <1>3 DEF PoolInv
<1>5. pw[w].port \notin ToSet(pq) /\ pprobes[pw[w].port] = << >>
  BY <1>3 DEF PoolInv
<1>6. \A v, u \in PoolWorkers : pw'[v].port = pw'[u].port /\ pw'[v].port # 0 => v = u
  BY <1>2 DEF PoolInv
<1>7. ToSet(pq) \subseteq PoolPorts
  BY DEF PoolInv, ToSet
<1>8. \A v \in PoolWorkers : pw'[v].port \notin ToSet(pq)
  BY <1>2, <1>7, PoolConstants DEF PoolInv
<1>9. ~ pworld.over
  BY <1>3 DEF PoolInv, Resting
<1> QED
  BY <1>1, <1>2, <1>3, <1>4, <1>5, <1>6, <1>8, <1>9

\* A port is given up: one more is unscanned, and the report will say so.
LEMMA PoolGivesUpInv ==
  ASSUME PoolInv, NEW w \in PoolWorkers, pw[w] \in PoolBusy,
         pw' = [pw EXCEPT ![w] = Resting], pleft' = pleft + 1,
         pflags' \in [cancelled : BOOLEAN, truncated : BOOLEAN],
         UNCHANGED <<pq, pprobes, pudp, pworld>>
  PROVE  PoolInv'
<1> DEFINE p == pw[w].port
<1>1. /\ pw' \in [PoolWorkers -> PoolBusy \cup {Resting}]
      /\ \A v \in PoolWorkers : pw'[v].port = IF v = w THEN 0 ELSE pw[v].port
      /\ \A v \in PoolWorkers : pw'[v].port # p
      /\ p \in PoolPorts /\ p \notin ToSet(pq) /\ pprobes[p] = << >>
      /\ \A v, u \in PoolWorkers : pw'[v].port = pw'[u].port /\ pw'[v].port # 0 => v = u
      /\ \A v \in PoolWorkers : pw'[v].port \notin ToSet(pq)
      /\ ~ pworld.over
  BY PoolLetsGo
<1>2. p \notin PoolGone
  BY DEF PoolGone
<1>3. PoolGone' = PoolGone \cup {p}
  <2>1. ASSUME NEW o \in PoolPorts
        PROVE  (\A v \in PoolWorkers : pw'[v].port # o)
                 <=> (o = p \/ \A v \in PoolWorkers : pw[v].port # o)
    <3>1. o # 0
      BY PoolConstants
    <3> QED
      BY <1>1, <3>1
  <2> QED
    BY <1>1, <2>1 DEF PoolGone
<1> HIDE DEF p
<1>4. Cardinality(PoolGone') = Cardinality(PoolGone) + 1
  BY <1>2, <1>3, PoolGoneCount, FS_AddElement
<1>5. pleft' = Cardinality(PoolGone') /\ pleft' > 0
  BY <1>4, PoolGoneCount DEF PoolInv
<1>6. \A v \in PoolWorkers : pw'[v].port # 0 => pprobes'[pw'[v].port] = << >>
  BY <1>1 DEF PoolInv
<1> QED
  BY <1>1, <1>5, <1>6 DEF PoolInv

\* A port is concluded by the one thread that holds it.
LEMMA PoolConcludeInv ==
  ASSUME PoolInv, NEW w \in PoolWorkers, pw[w] \in PoolBusy,
         NEW verdict \in PoolVerdicts, PoolConclude(w, verdict)
  PROVE  PoolInv'
<1> DEFINE p == pw[w].port
           e == [state |-> verdict, try |-> pw[w].try]
<1>1. /\ pprobes' = [pprobes EXCEPT ![p] = Append(pprobes[p], e)]
      /\ pw' = [pw EXCEPT ![w] = Resting]
      /\ UNCHANGED <<pq, pleft, pflags, pudp, pworld>>
  BY DEF PoolConclude
<1>2. /\ pw' \in [PoolWorkers -> PoolBusy \cup {Resting}]
      /\ \A v \in PoolWorkers : pw'[v].port = IF v = w THEN 0 ELSE pw[v].port
      /\ \A v \in PoolWorkers : pw'[v].port # p
      /\ p \in PoolPorts /\ p \notin ToSet(pq) /\ pprobes[p] = << >>
      /\ \A v, u \in PoolWorkers : pw'[v].port = pw'[u].port /\ pw'[v].port # 0 => v = u
      /\ \A v \in PoolWorkers : pw'[v].port \notin ToSet(pq)
      /\ ~ pworld.over
  BY <1>1, PoolLetsGo
<1>3. e \in [state : PoolVerdicts, try : 1..PoolRetries + 1]
  BY DEF PoolBusy
<1> HIDE DEF p, e
<1>4. Append(<< >>, e) = <<e>>
  OBVIOUS
<1>5. pprobes'[p] = <<e>> /\ \A o \in PoolPorts \ {p} : pprobes'[o] = pprobes[o]
  BY <1>1, <1>2, <1>4 DEF PoolInv
<1>6. pprobes' \in [PoolPorts -> Seq([state : PoolVerdicts, try : 1..PoolRetries + 1])]
  <2>1. <<e>> \in Seq([state : PoolVerdicts, try : 1..PoolRetries + 1])
    BY <1>3
  <2>2. \A o \in PoolPorts : pprobes'[o] \in Seq([state : PoolVerdicts, try : 1..PoolRetries + 1])
    BY <1>5, <2>1 DEF PoolInv
  <2> QED
    BY <1>1, <2>2 DEF PoolInv
<1>7. PoolGone' = PoolGone
  <2>1. <<e>> # << >>
    OBVIOUS
  <2>2. p \notin PoolGone /\ p \notin PoolGone'
    BY <1>5, <2>1 DEF PoolGone, p
  <2>3. ASSUME NEW o \in PoolPorts \ {p}
        PROVE  (\A v \in PoolWorkers : pw'[v].port # o) <=> (\A v \in PoolWorkers : pw[v].port # o)
    <3>1. o # 0 /\ o # pw[w].port
      BY PoolConstants DEF p
    <3> QED
      BY <1>2, <3>1
  <2> QED
    BY <1>1, <1>5, <2>2, <2>3 DEF PoolGone
<1>8. \A o \in ToSet(pq') : pprobes'[o] = << >>
  <2>1. ToSet(pq) \subseteq PoolPorts
    BY DEF PoolInv, ToSet
  <2> QED
    BY <1>1, <1>2, <1>5, <2>1 DEF PoolInv
<1>9. \A v \in PoolWorkers : pw'[v].port # 0 => pprobes'[pw'[v].port] = << >>
  <2> TAKE v \in PoolWorkers
  <2>1. CASE pw'[v].port # 0
    <3>1. pw'[v].port \in PoolPorts
      BY <1>2, <2>1 DEF PoolBusy, Resting
    <3> QED
      BY <1>2, <1>5, <2>1, <3>1 DEF PoolInv
  <2> QED
    BY <2>1
<1>10. pleft' = Cardinality(PoolGone')
  BY <1>1, <1>7 DEF PoolInv
<1> QED
  BY <1>1, <1>2, <1>6, <1>8, <1>9, <1>10 DEF PoolInv

\* The end of the outside world leaves the pool's own invariant alone.
LEMMA PoolFrame ==
  ASSUME PoolInv, UNCHANGED <<pq, pw, pprobes, pleft, pflags, pudp>>,
         pworld' \in [cancelled : BOOLEAN, expired : BOOLEAN, over : BOOLEAN],
         pworld'.over => pq = << >> /\ \A w \in PoolWorkers : pw[w] = Resting
  PROVE  PoolInv'
<1>1. PoolGone' = PoolGone
  BY DEF PoolGone
<1> QED
  BY <1>1 DEF PoolInv

\* What a step of a thread may do.
LEMMA PoolStepParts ==
  ASSUME PoolInv, NEW w \in PoolWorkers, PoolStep(w)
  PROVE  \/ PoolTake(w)
         \/ /\ pw[w] \in PoolBusy
            /\ \E r \in PoolBusy : r.port = pw[w].port /\ pw' = [pw EXCEPT ![w] = r]
            /\ UNCHANGED <<pq, pprobes, pleft, pflags, pudp, pworld>>
         \/ /\ pw[w] \in PoolBusy /\ pw' = [pw EXCEPT ![w] = Resting] /\ pleft' = pleft + 1
            /\ pflags' \in [cancelled : BOOLEAN, truncated : BOOLEAN]
            /\ UNCHANGED <<pq, pprobes, pudp, pworld>>
         \/ pw[w] \in PoolBusy /\ \E v \in PoolVerdicts : PoolConclude(w, v)
<1>1. pw[w].stage # "idle" => pw[w] \in PoolBusy
  BY DEF PoolInv, Resting
<1>2. \A s \in {"taken", "trying", "blocked"} :
        pw[w] \in PoolBusy => [pw[w] EXCEPT !.stage = s] \in PoolBusy
                              /\ [pw[w] EXCEPT !.stage = s].port = pw[w].port
  BY DEF PoolBusy
<1>3. ASSUME PoolGiveUp(w)
      PROVE  /\ pw[w] \in PoolBusy /\ pw' = [pw EXCEPT ![w] = Resting] /\ pleft' = pleft + 1
             /\ pflags' \in [cancelled : BOOLEAN, truncated : BOOLEAN]
             /\ UNCHANGED <<pq, pprobes, pudp, pworld>>
  BY <1>1, <1>3 DEF PoolGiveUp, PoolInv
<1>4. CASE PoolBegin(w)
  <2>1. pw[w] \in PoolBusy
    BY <1>1, <1>4 DEF PoolBegin
  <2>2. CASE pudp /\ PoolConclude(w, "error")
    BY <2>1, <2>2 DEF PoolVerdicts
  <2>3. CASE pw' = [pw EXCEPT ![w].stage = "trying"] /\ UNCHANGED <<pq, pprobes, pleft, pflags, pudp, pworld>>
    <3>1. pw' = [pw EXCEPT ![w] = [pw[w] EXCEPT !.stage = "trying"]]
      BY <2>3
    <3> QED
      BY <1>2, <2>1, <2>3, <3>1
  <2> QED
    BY <1>4, <2>2, <2>3 DEF PoolBegin
<1>5. CASE PoolTry(w)
  <2>1. pw[w] \in PoolBusy /\ UNCHANGED <<pq, pprobes, pleft, pflags, pudp, pworld>>
    BY <1>1, <1>5 DEF PoolTry
  <2>2. pw' = [pw EXCEPT ![w] = [pw[w] EXCEPT !.stage = "blocked"]]
    BY <1>5 DEF PoolTry
  <2> QED
    BY <1>2, <2>1, <2>2
<1>6. CASE PoolReturn(w)
  <2>1. pw[w] \in PoolBusy /\ pw[w].try \in Nat
    BY <1>1, <1>6, PoolConstants DEF PoolReturn, PoolBusy
  <2>2. PICK outcome \in {"answered", "refused", "timeout", "failure", "oversized"} :
          LET d == Decision(outcome, pw[w].try) IN
          \/ /\ d = "retry" /\ ~ (pworld.expired /\ ~ pudp)
             /\ pw' = [pw EXCEPT ![w].try = @ + 1, ![w].stage = "trying"]
             /\ UNCHANGED <<pq, pprobes, pleft, pflags, pudp, pworld>>
          \/ /\ d = "retry" /\ pworld.expired /\ ~ pudp
             /\ pflags' = [pflags EXCEPT !.truncated = TRUE]
             /\ pleft' = pleft + 1
             /\ pw' = [pw EXCEPT ![w] = Resting]
             /\ UNCHANGED <<pq, pprobes, pudp, pworld>>
          \/ d # "retry" /\ PoolConclude(w, d)
    BY <1>6 DEF PoolReturn
  <2> DEFINE d == Decision(outcome, pw[w].try)
  <2>3. d \in PoolVerdicts \cup {"retry"}
    BY DEF Decision, PoolVerdicts
  <2>4. d = "retry" => pw[w].try <= PoolRetries
    BY DEF Decision
  <2> HIDE DEF d
  <2>5. CASE d = "retry" /\ pw' = [pw EXCEPT ![w].try = @ + 1, ![w].stage = "trying"]
             /\ UNCHANGED <<pq, pprobes, pleft, pflags, pudp, pworld>>
    <3> DEFINE r == [pw[w] EXCEPT !.try = pw[w].try + 1, !.stage = "trying"]
    <3>0. pw' = [pw EXCEPT ![w] = [pw[w] EXCEPT !.try = pw[w].try + 1, !.stage = "trying"]]
      BY <2>5
    <3>1. pw' = [pw EXCEPT ![w] = r]
      BY <3>0
    <3>2. pw[w].try + 1 \in 1 .. PoolRetries + 1
      BY <2>1, <2>4, <2>5, PoolConstants
    <3>3. r \in PoolBusy /\ r.port = pw[w].port
      BY <2>1, <3>2 DEF PoolBusy
    <3> HIDE DEF r
    <3> QED
      BY <2>1, <2>5, <3>1, <3>3
  <2>6. CASE /\ pflags' = [pflags EXCEPT !.truncated = TRUE] /\ pleft' = pleft + 1
             /\ pw' = [pw EXCEPT ![w] = Resting] /\ UNCHANGED <<pq, pprobes, pudp, pworld>>
    <3>1. pflags' \in [cancelled : BOOLEAN, truncated : BOOLEAN]
      BY <2>6 DEF PoolInv
    <3> QED
      BY <2>1, <2>6, <3>1
  <2>7. CASE d # "retry" /\ PoolConclude(w, d)
    BY <2>1, <2>3, <2>7
  <2> QED
    BY <2>2, <2>5, <2>6, <2>7 DEF d
<1> QED
  BY <1>3, <1>4, <1>5, <1>6 DEF PoolStep

\* Every step keeps the invariant,
LEMMA PoolNextInv == PoolInv /\ [PoolNext]_poolvars => PoolInv'
<1> SUFFICES ASSUME PoolInv, [PoolNext]_poolvars PROVE PoolInv'
  OBVIOUS
<1>1. CASE PoolCancel \/ PoolExpire \/ PoolJoin \/ UNCHANGED poolvars
  <2>1. UNCHANGED <<pq, pw, pprobes, pleft, pflags, pudp>>
    BY <1>1 DEF PoolCancel, PoolExpire, PoolJoin, poolvars
  <2>2. pworld' \in [cancelled : BOOLEAN, expired : BOOLEAN, over : BOOLEAN]
    BY <1>1 DEF PoolCancel, PoolExpire, PoolJoin, poolvars, PoolInv
  <2>3. CASE PoolJoin
    <3>1. \A w \in PoolWorkers : pw[w] = Resting
      <4> TAKE w \in PoolWorkers
      <4>1. pw[w] \in PoolBusy \cup {Resting} /\ pw[w].stage = "idle"
        BY <2>3 DEF PoolJoin, PoolInv
      <4> QED
        BY <4>1 DEF PoolBusy
    <3> QED
      BY <2>1, <2>2, <2>3, <3>1, PoolFrame DEF PoolJoin
  <2>4. CASE PoolCancel \/ PoolExpire \/ UNCHANGED poolvars
    <3>1. pworld'.over = pworld.over
      BY <2>4 DEF PoolCancel, PoolExpire, poolvars, PoolInv
    <3>2. pworld'.over => pq = << >> /\ \A w \in PoolWorkers : pw[w] = Resting
      BY <3>1 DEF PoolInv
    <3> QED
      BY <2>1, <2>2, <3>2, PoolFrame
  <2> QED
    BY <1>1, <2>3, <2>4
<1>2. ASSUME NEW w \in PoolWorkers, PoolStep(w) PROVE PoolInv'
  BY <1>2, PoolStepParts, PoolTakeInv, PoolGoesOnInv, PoolGivesUpInv, PoolConcludeInv
<1> QED
  BY <1>1, <1>2 DEF PoolNext

\* so it always holds,
LEMMA PoolAlways == PoolSpec => []PoolInv
  BY PoolInitInv, PoolNextInv, PTL DEF PoolSpec

\* and what is promised of the pool follows.
LEMMA PoolInvImplies == PoolInv => PoolTypeOK /\ PoolOneThreadPerPort
<1> SUFFICES ASSUME PoolInv PROVE PoolTypeOK /\ PoolOneThreadPerPort
  OBVIOUS
<1>1. PoolBusy \cup {Resting} \subseteq [port : PoolPorts \cup {0}, try : 0..PoolRetries + 1,
                                        stage : {"idle", "taken", "trying", "blocked"}]
  BY PoolConstants DEF PoolBusy, Resting
<1>2. pw \in [PoolWorkers -> [port : PoolPorts \cup {0}, try : 0..PoolRetries + 1,
                              stage : {"idle", "taken", "trying", "blocked"}]]
  BY <1>1 DEF PoolInv
<1>3. pleft \in 0..Cardinality(PoolPorts)
  BY PoolGoneCount, PoolConstants DEF PoolInv
<1>4. PoolTypeOK
  BY <1>2, <1>3 DEF PoolTypeOK, PoolInv
<1>5. ASSUME NEW w \in PoolWorkers, pw[w].port # 0, NEW i \in 1..Len(pq) PROVE pq[i] # pw[w].port
  <2>1. pq \in Seq(PoolPorts) /\ pw[w].port \notin ToSet(pq)
    BY DEF PoolInv
  <2>2. pq[i] \in ToSet(pq)
    BY <2>1 DEF ToSet
  <2> QED
    BY <2>1, <2>2
<1> QED
  BY <1>4, <1>5 DEF PoolOneThreadPerPort, PoolInv

-----------------------------------------------------------------------------

\* What the pool shows its caller: the mapping of PoolSweep.
PoolFound == [p \in PoolPorts |-> IF pprobes[p] = << >> THEN "none" ELSE pprobes[p][1].state]
PoolReport == [over |-> pworld.over,
               unscanned |-> IF pworld.over THEN pleft ELSE 0,
               truncated |-> pworld.over /\ (pflags.truncated \/ pleft > 0),
               cancelled |-> pworld.over /\ pflags.cancelled]

\* The ports without a verdict are those the found mapping leaves out.
LEMMA PoolLeft ==
  ASSUME PoolInv PROVE PoolSweep!Left = {p \in PoolPorts : pprobes[p] = << >>}
<1>1. \A p \in PoolPorts : pprobes[p] # << >> => pprobes[p][1].state \in PoolVerdicts
  <2> TAKE p \in PoolPorts
  <2>1. pprobes[p] \in Seq([state : PoolVerdicts, try : 1..PoolRetries + 1])
    BY DEF PoolInv
  <2>2. pprobes[p] # << >> => pprobes[p][1] \in [state : PoolVerdicts, try : 1..PoolRetries + 1]
    BY <2>1, FirstOfSeq
  <2> QED
    BY <2>2
<1> QED
  BY <1>1 DEF PoolSweep!Left, PoolVerdicts

\* A thread that gives its verdict settles its port.
LEMMA PoolSettles ==
  ASSUME PoolInv, PoolInv', ~ pworld.over, UNCHANGED pworld,
         \A p \in PoolPorts : pprobes[p] # << >> => pprobes'[p] = pprobes[p]
  PROVE  PoolSweep!Settle
<1>1. PoolReport' = PoolReport /\ PoolReport.over = FALSE
  BY DEF PoolReport, PoolInv
<1>2. PoolFound' \in [PoolPorts -> PoolVerdicts \cup {"none"}]
  <2> SUFFICES ASSUME NEW p \in PoolPorts, pprobes'[p] # << >>
               PROVE  pprobes'[p][1].state \in PoolVerdicts
    BY DEF PoolFound
  <2>1. pprobes'[p] \in Seq([state : PoolVerdicts, try : 1..PoolRetries + 1])
    BY DEF PoolInv
  <2>2. pprobes'[p][1] \in [state : PoolVerdicts, try : 1..PoolRetries + 1]
    BY <2>1, FirstOfSeq
  <2> QED
    BY <2>2
<1>3. \A p \in PoolPorts : PoolFound[p] # "none" => PoolFound'[p] = PoolFound[p]
  BY DEF PoolFound
<1> QED
  BY <1>1, <1>2, <1>3 DEF PoolSweep!Settle, PoolSweep!Left, PoolFound, PoolReport

\* The end of the scan closes it.
LEMMA PoolCloses ==
  ASSUME PoolInv, PoolJoin PROVE PoolSweep!Close
<1> DEFINE L == {p \in PoolPorts : pprobes[p] = << >>}
           stopped == pflags.cancelled
<1>1. /\ pworld' = [pworld EXCEPT !.over = TRUE] /\ ~ pworld.over /\ pq = << >>
      /\ UNCHANGED <<pq, pw, pprobes, pleft, pflags, pudp>>
  BY DEF PoolJoin
<1>2. \A w \in PoolWorkers : pw[w].port = 0
  <2> TAKE w \in PoolWorkers
  <2>1. pw[w] \in PoolBusy \cup {Resting} /\ pw[w].stage = "idle"
    BY DEF PoolJoin, PoolInv
  <2> QED
    BY <2>1 DEF PoolBusy, Resting
<1>3. PoolGone = L
  BY <1>1, <1>2, EmptyElements, PoolConstants DEF PoolGone
<1>4. pleft = Cardinality(L) /\ pleft \in Nat
  BY <1>3, PoolGoneCount DEF PoolInv
<1>5. L = {} <=> pleft = 0
  BY <1>3, <1>4, PoolGoneCount, FS_EmptySet
<1>6. /\ pflags.truncated => L # {}
      /\ stopped => L # {}
      /\ stopped \in BOOLEAN
  <2>1. pflags.truncated => pleft > 0
    BY DEF PoolInv
  <2>2. pflags.cancelled => pleft > 0
    BY DEF PoolInv
  <2>3. pflags.cancelled \in BOOLEAN
    BY DEF PoolInv
  <2> QED
    BY <1>4, <1>5, <2>1, <2>2, <2>3
<1>7. PoolSweep!Left = L
  BY PoolLeft
<1>8. PoolSweep!Cardinality(L) = Cardinality(L)
  BY DEF PoolSweep!Cardinality, Cardinality
<1> HIDE DEF L, stopped
<1>9. pworld'.over
  BY <1>1 DEF PoolInv
<1>10. (pflags.truncated \/ pleft > 0) <=> L # {}
  BY <1>4, <1>5, <1>6
<1>11. PoolReport' = [over |-> TRUE, unscanned |-> PoolSweep!Cardinality(L),
                      truncated |-> L # {}, cancelled |-> stopped]
  <2>1. PoolReport' = [over |-> TRUE, unscanned |-> pleft,
                       truncated |-> pflags.truncated \/ pleft > 0, cancelled |-> pflags.cancelled]
    BY <1>1, <1>9 DEF PoolReport, PoolInv
  <2>2. (pflags.truncated \/ pleft > 0) = (L # {})
    BY <1>10
  <2> QED
    BY <1>4, <1>8, <2>1, <2>2 DEF stopped
<1>12. PoolFound' = PoolFound /\ PoolReport.over = FALSE
  BY <1>1 DEF PoolFound, PoolReport, PoolInv
<1> QED
  <2>1. stopped \in BOOLEAN /\ (stopped => L # {})
    BY <1>6
  <2> QED
    BY <1>7, <1>11, <1>12, <2>1 DEF PoolSweep!Close, PoolFound, PoolReport

\* Each step of the pool is one of the promise, or none.
LEMMA PoolStepKeepsPromise ==
  ASSUME PoolInv, PoolInv', [PoolNext]_poolvars
  PROVE  PoolSweep!Settle \/ PoolSweep!Close \/ UNCHANGED <<PoolFound, PoolReport>>
<1>1. CASE PoolJoin
  BY <1>1, PoolCloses
<1>2. CASE PoolCancel \/ PoolExpire \/ UNCHANGED poolvars
  <2>1. pworld'.over = pworld.over /\ UNCHANGED <<pprobes, pleft, pflags>>
    BY <1>2 DEF PoolCancel, PoolExpire, poolvars, PoolInv
  <2> QED
    BY <2>1 DEF PoolFound, PoolReport
<1>3. ASSUME NEW w \in PoolWorkers, PoolStep(w)
      PROVE  PoolSweep!Settle
  <2>1. ~ pworld.over
    <3>1. CASE PoolTake(w)
      BY <3>1 DEF PoolTake, PoolInv
    <3>2. CASE pw[w] \in PoolBusy
      <4>1. pw[w] # Resting
        BY <3>2 DEF PoolBusy, Resting
      <4> QED
        BY <4>1 DEF PoolInv
    <3> QED
      BY <1>3, <3>1, <3>2, PoolStepParts
  <2>2. UNCHANGED pworld
    BY <1>3, PoolStepParts DEF PoolTake, PoolConclude
  <2>3. \A p \in PoolPorts : pprobes[p] # << >> => pprobes'[p] = pprobes[p]
    <3>1. UNCHANGED pprobes \/ (pw[w] \in PoolBusy /\ \E v \in PoolVerdicts : PoolConclude(w, v))
      BY <1>3, PoolStepParts DEF PoolTake
    <3>2. ASSUME pw[w] \in PoolBusy, NEW v \in PoolVerdicts, PoolConclude(w, v)
          PROVE  \A p \in PoolPorts : pprobes[p] # << >> => pprobes'[p] = pprobes[p]
      <4>1. pprobes[pw[w].port] = << >>
        BY <3>2, PoolLetsGo DEF PoolConclude
      <4> QED
        BY <3>2, <4>1 DEF PoolConclude, PoolInv
    <3> QED
      BY <3>1, <3>2
  <2> QED
    BY <2>1, <2>2, <2>3, PoolSettles
<1> QED
  BY <1>1, <1>2, <1>3 DEF PoolNext

\* The pool begins as the promise does.
LEMMA PoolBeginsAsPromised == PoolInit => PoolSweep!Init
<1> SUFFICES ASSUME PoolInit PROVE PoolSweep!Init
  OBVIOUS
<1>1. PoolFound = [p \in PoolPorts |-> "none"]
  BY DEF PoolInit, PoolFound
<1>2. PoolReport = [over |-> FALSE, unscanned |-> 0, truncated |-> FALSE, cancelled |-> FALSE]
  BY DEF PoolInit, PoolReport
<1> QED
  BY <1>1, <1>2 DEF PoolSweep!Init, PoolSweep!NoReport, PoolFound, PoolReport

\* The threads of the portable scans do together what every scanner promises:
\* a port gets one verdict and keeps it, and the counters read after the join
\* account for every port asked for.
THEOREM PoolScanKeepsPromise == PoolSpec => PoolKeepsPromise
<1>1. PoolInv /\ PoolInv' /\ [PoolNext]_poolvars
        => [PoolSweep!Settle \/ PoolSweep!Close]_<<PoolFound, PoolReport>>
  BY PoolStepKeepsPromise
<1>2. PoolSpec => PoolInit /\ [][PoolNext]_poolvars
  BY DEF PoolSpec
<1> QED
  BY <1>1, <1>2, PoolAlways, PoolBeginsAsPromised, PTL
     DEF PoolKeepsPromise, PoolSweep!Spec, PoolFound, PoolReport

\* The rest of a sequence, from a place on.
LEMMA RestOfSeq ==
  ASSUME NEW S, NEW s \in Seq(S), NEW n \in Nat, n < Len(s)
  PROVE  LET r == SubSeq(s, n + 1, Len(s))
         IN  /\ r # << >> /\ Head(r) = s[n + 1] /\ Len(r) = Len(s) - n /\ n + 1 \in 1 .. Len(s)
             /\ Tail(r) = SubSeq(s, (n + 1) + 1, Len(s))
<1> DEFINE m == Len(s)
           r == SubSeq(s, n + 1, m)
           t == SubSeq(s, (n + 1) + 1, m)
<1>1. m \in Nat /\ n + 1 \in 1 .. m /\ \A i \in 1 .. m : s[i] \in S
  BY ElementOfSeq, LenProperties
<1>2. /\ r = [i \in 1 .. (m - n) |-> s[i + n]] /\ r \in Seq(S)
  <2>1. r = [i \in 1 .. (m - (n + 1) + 1) |-> s[i + (n + 1) - 1]]
    BY <1>1
  <2>2. m - (n + 1) + 1 = m - n /\ \A i \in 1 .. (m - n) : i + (n + 1) - 1 = i + n
    BY <1>1
  <2>3. r = [i \in 1 .. (m - n) |-> s[i + n]]
    BY <2>1, <2>2
  <2>4. \A i \in 1 .. (m - n) : s[i + n] \in S
    BY <1>1
  <2>5. m - n \in Nat
    BY <1>1
  <2> QED
    BY <2>3, <2>4, <2>5
<1>3. t = [i \in 1 .. (m - (n + 1)) |-> s[i + (n + 1)]]
  <2>1. t = [i \in 1 .. (m - ((n + 1) + 1) + 1) |-> s[i + ((n + 1) + 1) - 1]]
    BY <1>1
  <2>2. m - ((n + 1) + 1) + 1 = m - (n + 1) /\ \A i \in 1 .. (m - (n + 1)) : i + ((n + 1) + 1) - 1 = i + (n + 1)
    BY <1>1
  <2> QED
    BY <2>1, <2>2
<1> HIDE DEF m, r, t
<1>4. Len(r) = m - n /\ r # << >>
  <2>1. m - n \in Nat /\ m - n > 0
    BY <1>1 DEF m
  <2> QED
    BY <1>2, <2>1
<1>5. Head(r) = s[n + 1]
  <2>1. r[1] = s[n + 1]
    BY <1>1, <1>2
  <2>2. Head(r) = r[1]
    OBVIOUS
  <2> QED
    BY <2>1, <2>2
<1>6. Tail(r) = t
  <2>0. r \in Seq(S) /\ r # << >>
    BY <1>2, <1>4
  <2>1. Tail(r) = [i \in 1 .. (Len(r) - 1) |-> r[i + 1]]
    <3>1. /\ Tail(r) \in Seq(S) /\ Len(Tail(r)) = Len(r) - 1
          /\ \A i \in 1 .. Len(Tail(r)) : Tail(r)[i] = r[i + 1]
      BY <2>0, HeadTailProperties
    <3>a. \A q \in Seq(S) : q = [i \in 1 .. Len(q) |-> q[i]]
      OBVIOUS
    <3>2. Tail(r) = [i \in 1 .. Len(Tail(r)) |-> Tail(r)[i]]
      BY <3>1, <3>a
    <3> QED
      BY <3>1, <3>2
  <2>2. Len(r) - 1 = m - (n + 1)
    BY <1>1, <1>4
  <2>3. \A i \in 1 .. (m - (n + 1)) : r[i + 1] = s[i + (n + 1)]
    BY <1>1, <1>2
  <2> QED
    BY <1>3, <2>1, <2>2, <2>3
<1> QED
  BY <1>1, <1>4, <1>5, <1>6 DEF m, r, t

\* Nothing is left after the last, and the whole is its own beginning.
LEMMA RestOfNothing ==
  ASSUME NEW S, NEW s \in Seq(S)
  PROVE  SubSeq(s, Len(s) + 1, Len(s)) = << >> /\ SubSeq(s, 1, Len(s)) = s
<1>1. Len(s) \in Nat /\ DOMAIN s = 1 .. Len(s)
  OBVIOUS
<1>2. SubSeq(s, Len(s) + 1, Len(s)) = << >>
  BY <1>1
<1>3. SubSeq(s, 1, Len(s)) = s
  BY <1>1
<1> QED
  BY <1>2, <1>3

-----------------------------------------------------------------------------
(* The port task.                                                          *)

Row == TaskAddresses \X TaskPorts \X TaskVerdicts

\* After n addresses of the scan: what was probed lies at these, what is not
\* marked as truncated is complete, and one address's ports are all counted.
Progress(n) ==
  /\ kleft = SubSeq(kips, n + 1, Len(kips))
  /\ \A e \in kprobed : \E i \in 1 .. n : e[1] = kips[i]
  /\ ~ kacct.truncated => \A i \in 1 .. n : kips[i] \in kscope => ProbedOf(kips[i]) = AskedPorts
  /\ Len(kips) = 1 /\ kips[1] \in kscope =>
       SumCounts + kacct.unscanned = IF n = 0 THEN 0 ELSE Cardinality(AskedPorts)

TaskShape ==
  /\ ktask.transport \in {"tcp", "udp"} /\ ktask.target \in Targets /\ AskedPorts \subseteq TaskPorts
  /\ ktask = [transport |-> ktask.transport, target |-> ktask.target,
              narrowed |-> ktask.narrowed, selection |-> ktask.selection]
  /\ kscope \subseteq TaskAddresses
  /\ kphase \in {"queued", "scanning", "ended"}
  /\ kresult \in {"none", "cancelled", "failed", "empty", "done"}
  /\ kips \in Seq(TaskAddresses) /\ IsInjective(kips) /\ Len(kips) <= MaxTaskIps
  /\ kacct \in [counts : [TaskVerdicts -> Nat], unscanned : Nat, truncated : BOOLEAN]
  /\ kout \in [events : SUBSET Row, assets : SUBSET Row, findings : SUBSET Row,
               attempted : SUBSET TaskPorts, summary : BOOLEAN, requested : Nat]
  /\ kprobed \subseteq Row

\* What was found is counted and shown.
TaskShows ==
  /\ IsFiniteSet(kprobed) /\ SumCounts = Cardinality(kprobed)
  /\ \A e \in kprobed : e[3] \in VerdictsOf(ktask.transport)
  /\ kout.findings = {e \in kprobed : e[3] = "open"}
  /\ Detailed => kout.events = {e \in kprobed : e[3] # "unknown"}

TaskEnded ==
  /\ kphase = "queued" => kips = << >> /\ kprobed = {} /\ kacct = NoAccount /\ kout = NoOutput
  /\ kphase # "ended" => kresult = "none"
  /\ kresult \in {"cancelled", "failed", "empty"} => kprobed = {}
  /\ kresult = "done" => /\ kleft = << >> /\ kout.requested = Cardinality(AskedPorts)
                         /\ ktask.transport = "udp" /\ Detailed => kout.attempted = UdpAttempted

TaskInv == TaskShape /\ (\E n \in 0 .. Len(kips) : Progress(n)) /\ TaskShows /\ TaskEnded

\* The addresses and the ports of a task are finitely many.
LEMMA TaskFinite ==
  ASSUME TaskShape
  PROVE  IsFiniteSet(AskedPorts) /\ Cardinality(AskedPorts) \in Nat
<1>1. IsFiniteSet(AskedPorts)
  BY PortTaskAssumption, FS_Subset DEF PortTaskAssumption, TaskShape
<1> QED
  BY <1>1, FS_CardinalityType

\* A task that has not begun accounts for everything.
LEMMA TaskInitInv == PortTaskInit => TaskInv
<1> SUFFICES ASSUME PortTaskInit PROVE TaskInv
  OBVIOUS
<1>1. /\ kips = << >> /\ kleft = << >> /\ kacct = NoAccount /\ kout = NoOutput /\ kprobed = {}
      /\ kphase = "queued" /\ kresult = "none" /\ kscope \subseteq TaskAddresses
  BY DEF PortTaskInit
<1>2. /\ ktask.transport \in {"tcp", "udp"} /\ ktask.target \in Targets
      /\ ktask = [transport |-> ktask.transport, target |-> ktask.target,
                  narrowed |-> ktask.narrowed, selection |-> ktask.selection]
      /\ ktask.selection \in {<<"common">>, <<"all">>} \cup ({"explicit"} \X (SUBSET TaskPorts \ {{}}))
  BY DEF PortTaskInit
<1>3. AskedPorts \subseteq TaskPorts
  <2>1. CommonPorts \subseteq TaskPorts
    BY PortTaskAssumption DEF PortTaskAssumption
  <2>2. CASE ktask.selection = <<"common">>
    BY <2>1, <2>2 DEF AskedPorts, TcpPortsFor, UdpPortsFor
  <2>3. CASE ktask.selection = <<"all">>
    BY <2>1, <2>3 DEF AskedPorts, TcpPortsFor, UdpPortsFor
  <2>4. CASE ktask.selection \in {"explicit"} \X (SUBSET TaskPorts \ {{}})
    <3>1. ktask.selection[1] = "explicit" /\ ktask.selection[2] \subseteq TaskPorts
      BY <2>4
    <3> QED
      BY <3>1 DEF AskedPorts, TcpPortsFor, UdpPortsFor
  <2> QED
    BY <1>2, <2>2, <2>3, <2>4
<1>4. /\ kips \in Seq(TaskAddresses) /\ IsInjective(kips) /\ Len(kips) = 0 /\ Len(kips) <= MaxTaskIps
  <2>1. 0 <= MaxTaskIps
    BY PortTaskAssumption DEF PortTaskAssumption
  <2> QED
    BY <1>1, <2>1, EmptyElements
<1>5. kacct \in [counts : [TaskVerdicts -> Nat], unscanned : Nat, truncated : BOOLEAN]
  BY <1>1 DEF NoAccount
<1>6. kout \in [events : SUBSET Row, assets : SUBSET Row, findings : SUBSET Row,
               attempted : SUBSET TaskPorts, summary : BOOLEAN, requested : Nat]
  BY <1>1 DEF NoOutput
<1>7. TaskShape
  BY <1>1, <1>2, <1>3, <1>4, <1>5, <1>6 DEF TaskShape
<1>8. SumCounts = 0 /\ Cardinality(kprobed) = 0 /\ IsFiniteSet(kprobed)
  BY <1>1, FS_EmptySet DEF SumCounts, NoAccount, TaskVerdicts
<1>9. TaskShows
  BY <1>1, <1>8 DEF TaskShows, NoOutput
<1>10. Progress(0)
  BY <1>1, <1>4, <1>8 DEF Progress, NoAccount
<1>11. TaskEnded
  BY <1>1 DEF TaskEnded
<1> QED
  BY <1>4, <1>7, <1>9, <1>10, <1>11 DEF TaskInv

\* Steps that change neither the scan nor what is known of it; the scope may
\* have lost addresses.
LEMMA TaskFrame ==
  ASSUME TaskInv, UNCHANGED <<kips, kleft, kacct, kprobed>>,
         kscope' \subseteq kscope, TaskShape', TaskEnded',
         ktask'.transport = ktask.transport, ktask'.selection = ktask.selection,
         kout'.findings = kout.findings, kout'.events = kout.events
  PROVE  TaskInv'
<1>1. AskedPorts' = AskedPorts /\ SumCounts' = SumCounts /\ (Detailed' <=> Detailed)
  BY DEF AskedPorts, SumCounts, Detailed
<1>2. \A a : ProbedOf(a)' = ProbedOf(a)
  BY DEF ProbedOf
<1>3. PICK n \in 0 .. Len(kips) : Progress(n)
  BY DEF TaskInv
<1>4. Progress(n)'
  BY <1>1, <1>2, <1>3 DEF Progress
<1>5. TaskShows'
  BY <1>1 DEF TaskInv, TaskShows
<1> QED
  BY <1>4, <1>5 DEF TaskInv

\* The steps that end a scan or change the world around it.
LEMMA TaskEndsInv ==
  ASSUME TaskInv,
         \/ EndsUnscanned \/ FinishEmptyScan \/ CancelTask \/ ExpireTask \/ NarrowScope
         \/ CompletePortScan \/ CompleteUdpScan \/ UNCHANGED taskvars
  PROVE  TaskInv'
<1>1. UNCHANGED <<kips, kleft, kacct, kprobed>>
  BY DEF EndsUnscanned, FinishEmptyScan, CancelTask, ExpireTask, NarrowScope, CompletePortScan,
         CompleteUdpScan, taskvars
<1>2. kscope' \subseteq kscope
  BY DEF EndsUnscanned, FinishEmptyScan, CancelTask, ExpireTask, NarrowScope, CompletePortScan,
         CompleteUdpScan, taskvars
<1>3. /\ ktask'.transport = ktask.transport /\ ktask'.selection = ktask.selection
      /\ ktask'.target = ktask.target
      /\ ktask' = [transport |-> ktask'.transport, target |-> ktask'.target,
                   narrowed |-> ktask'.narrowed, selection |-> ktask'.selection]
  <2>1. ktask = [transport |-> ktask.transport, target |-> ktask.target,
                 narrowed |-> ktask.narrowed, selection |-> ktask.selection]
    BY DEF TaskInv, TaskShape
  <2>2. ktask' = ktask \/ ktask' = [ktask EXCEPT !.narrowed = FALSE]
    BY DEF EndsUnscanned, FinishEmptyScan, CancelTask, ExpireTask, NarrowScope, CompletePortScan,
           CompleteUdpScan, taskvars
  <2>3. CASE ktask' = [ktask EXCEPT !.narrowed = FALSE]
    <3>1. ktask' = [transport |-> ktask.transport, target |-> ktask.target,
                    narrowed |-> FALSE, selection |-> ktask.selection]
      BY <2>1, <2>3
    <3> QED
      BY <3>1
  <2> QED
    BY <2>1, <2>2, <2>3
<1>4. AskedPorts' = AskedPorts /\ (Detailed' <=> Detailed)
  BY <1>3 DEF AskedPorts, Detailed
<1>5. Cardinality(AskedPorts) \in Nat /\ AskedPorts \subseteq TaskPorts /\ TaskShape
  BY TaskFinite DEF TaskInv, TaskShape
<1>6. kout \in [events : SUBSET Row, assets : SUBSET Row, findings : SUBSET Row,
                attempted : SUBSET TaskPorts, summary : BOOLEAN, requested : Nat]
  BY <1>5 DEF TaskShape
<1> DEFINE OutOK == /\ kout' \in [events : SUBSET Row, assets : SUBSET Row, findings : SUBSET Row,
                                  attempted : SUBSET TaskPorts, summary : BOOLEAN, requested : Nat]
                    /\ kout'.findings = kout.findings /\ kout'.events = kout.events
<1>7. UdpAttempted \subseteq TaskPorts
  BY <1>6 DEF UdpAttempted, Row
<1>8. CASE EndsUnscanned
  <2>1. kout' = kout /\ kphase' = "ended" /\ kresult' \in {"failed", "cancelled"} /\ kphase = "queued"
    BY <1>8 DEF EndsUnscanned, TaskEnds
  <2>2. kprobed' = {}
    BY <1>1, <2>1 DEF TaskInv, TaskEnded
  <2>3. TaskShape'
    BY <1>1, <1>2, <1>3, <1>4, <1>5, <2>1 DEF TaskShape
  <2>4. TaskEnded'
    BY <2>1, <2>2 DEF TaskEnded
  <2> QED
    BY <1>1, <1>2, <1>3, <2>1, <2>3, <2>4, TaskFrame
<1>9. CASE FinishEmptyScan
  <2>1. /\ kout' = [NoOutput EXCEPT !.requested = Cardinality(AskedPorts)]
        /\ kphase' = "ended" /\ kresult' = "empty" /\ kphase = "queued" /\ kout = NoOutput
    BY <1>9 DEF FinishEmptyScan, TaskEnds, TaskInv, TaskEnded
  <2>2. kout' = [events |-> {}, assets |-> {}, findings |-> {}, attempted |-> {},
                 summary |-> FALSE, requested |-> Cardinality(AskedPorts)]
    BY <2>1 DEF NoOutput
  <2>3. OutOK
    BY <1>5, <2>1, <2>2 DEF NoOutput
  <2>4. kprobed' = {}
    BY <1>1, <2>1 DEF TaskInv, TaskEnded
  <2>5. TaskShape'
    BY <1>1, <1>2, <1>3, <1>4, <1>5, <2>1, <2>3 DEF TaskShape
  <2>6. TaskEnded'
    BY <2>1, <2>4 DEF TaskEnded
  <2> QED
    BY <1>1, <1>2, <1>3, <2>3, <2>5, <2>6, TaskFrame
<1>10. CASE CancelTask \/ ExpireTask \/ NarrowScope \/ UNCHANGED taskvars
  <2>1. UNCHANGED <<kphase, kresult, kout>>
    BY <1>10 DEF CancelTask, ExpireTask, NarrowScope, taskvars
  <2>2. TaskShape'
    BY <1>1, <1>2, <1>3, <1>4, <1>5, <2>1 DEF TaskShape
  <2>3. UdpAttempted' = UdpAttempted
    BY <2>1 DEF UdpAttempted
  <2>4. TaskEnded'
    BY <1>1, <1>3, <1>4, <2>1, <2>3 DEF TaskInv, TaskEnded
  <2> QED
    BY <1>1, <1>2, <1>3, <2>1, <2>2, <2>4, TaskFrame
<1>11. CASE CompletePortScan \/ CompleteUdpScan
  <2>1. /\ kphase' = "ended" /\ kresult' = "done" /\ kleft = << >> /\ ktask' = ktask
    BY <1>11 DEF CompletePortScan, CompleteUdpScan, TaskEnds
  <2>2. PICK attempted \in SUBSET TaskPorts :
          /\ CompletedReport(attempted)
          /\ ktask.transport = "udp" => attempted = UdpAttempted
    <3>1. CASE CompletePortScan
      BY <1>5, <3>1 DEF CompletePortScan, TcpAttempted
    <3>2. CASE CompleteUdpScan
      BY <1>7, <3>2 DEF CompleteUdpScan
    <3> QED
      BY <1>11, <3>1, <3>2
  <2> DEFINE att == IF Detailed THEN attempted ELSE {}
             anchored == kout.assets # {}
  <2>3. kout' = [kout EXCEPT !.attempted = att, !.requested = Cardinality(AskedPorts), !.summary = anchored]
    BY <2>2 DEF CompletedReport
  <2>4. att \in SUBSET TaskPorts /\ anchored \in BOOLEAN /\ (Detailed => att = attempted)
    OBVIOUS
  <2> HIDE DEF att, anchored
  <2>5. OutOK /\ kout'.requested = Cardinality(AskedPorts) /\ kout'.attempted = att
    BY <1>5, <1>6, <2>3, <2>4
  <2>6. UdpAttempted' = UdpAttempted
    BY <2>5 DEF UdpAttempted
  <2>7. TaskShape'
    BY <1>1, <1>2, <1>3, <1>4, <1>5, <2>1, <2>5 DEF TaskShape
  <2>8. TaskEnded'
    BY <1>1, <1>4, <2>1, <2>2, <2>4, <2>5, <2>6 DEF TaskEnded
  <2> QED
    BY <1>1, <1>2, <1>3, <2>5, <2>7, <2>8, TaskFrame
<1> QED
  BY <1>8, <1>9, <1>10, <1>11

\* A scan is cut short, or passes over an address that left the scope.
LEMMA TaskBegins == TaskInv /\ BeginScan => TaskInv'
<1> SUFFICES ASSUME TaskInv, BeginScan PROVE TaskInv'
  OBVIOUS
<1>1. /\ kphase = "queued" /\ kphase' = "scanning" /\ kresult = "none"
      /\ UNCHANGED <<ktask, kscope, kworld, kacct, kout, kresult, kprobed>>
      /\ kprobed = {} /\ kacct = NoAccount
  BY DEF BeginScan, TaskInv, TaskEnded
<1> DEFINE C == TaskCandidates
<1>2. PICK order \in SetToSeqs(C) : kips' = FirstOf(order) /\ kleft' = FirstOf(order)
  BY DEF BeginScan, InResolverOrder
<1>3. kscope \subseteq TaskAddresses /\ IsFiniteSet(TaskAddresses) /\ MaxTaskIps \in Nat \ {0}
  BY PortTaskAssumption DEF PortTaskAssumption, TaskInv, TaskShape
<1>4. C \subseteq kscope
  BY DEF TaskCandidates
<1>5. IsFiniteSet(C)
  BY <1>3, <1>4, FS_Subset
<1> HIDE DEF C
<1>6. /\ Len(order) \in Nat
      /\ order \in [1 .. Len(order) -> C]
      /\ \A i, j \in 1 .. Len(order) : order[i] = order[j] => i = j
  BY <1>5, RowOfSet
<1> DEFINE first == FirstOf(order)
<1>7. \E m \in Nat : /\ m <= Len(order) /\ m <= MaxTaskIps
                    /\ first = [i \in 1 .. m |-> order[i]]
  <2>1. CASE Len(order) <= MaxTaskIps
    BY <1>6, <2>1 DEF FirstOf
  <2>2. CASE ~ (Len(order) <= MaxTaskIps)
    <3>1. first = SubSeq(order, 1, MaxTaskIps) /\ MaxTaskIps <= Len(order)
      BY <1>3, <1>6, <2>2 DEF FirstOf
    <3>2. SubSeq(order, 1, MaxTaskIps) = [i \in 1 .. (MaxTaskIps - 1 + 1) |-> order[i + 1 - 1]]
      BY <1>3
    <3>3. MaxTaskIps - 1 + 1 = MaxTaskIps /\ \A i \in 1 .. MaxTaskIps : i + 1 - 1 = i
      BY <1>3
    <3>4. first = [i \in 1 .. MaxTaskIps |-> order[i]]
      BY <3>1, <3>2, <3>3
    <3> QED
      BY <1>3, <3>1, <3>4
  <2> QED
    BY <2>1, <2>2
<1>8. PICK m \in Nat : m <= Len(order) /\ m <= MaxTaskIps /\ first = [i \in 1 .. m |-> order[i]]
  BY <1>7
<1> HIDE DEF first
<1>9. first \in Seq(TaskAddresses) /\ IsInjective(first) /\ Len(first) <= MaxTaskIps /\ Len(first) \in Nat
  <2>1. \A i \in 1 .. m : i \in 1 .. Len(order) /\ order[i] \in TaskAddresses
    BY <1>3, <1>4, <1>6, <1>8
  <2>2. first \in Seq(TaskAddresses) /\ Len(first) = m /\ DOMAIN first = 1 .. m
    BY <1>8, <2>1
  <2>3. IsInjective(first)
    BY <1>6, <1>8, <2>1, <2>2 DEF IsInjective
  <2> QED
    BY <1>8, <2>2, <2>3
<1>a. kips' = first /\ kleft' = first
  BY <1>2 DEF first
<1>10. AskedPorts' = AskedPorts /\ SumCounts' = SumCounts /\ (Detailed' <=> Detailed)
  BY <1>1 DEF AskedPorts, SumCounts, Detailed
<1>11. TaskShape'
  BY <1>1, <1>a, <1>9, <1>10 DEF TaskInv, TaskShape
<1>12. Progress(0)'
  <2>1. kleft' = SubSeq(kips', 0 + 1, Len(kips'))
    BY <1>a, <1>9, RestOfNothing
  <2>2. SumCounts = 0 /\ kacct.unscanned = 0
    BY <1>1 DEF SumCounts, NoAccount, TaskVerdicts
  <2> QED
    BY <1>1, <1>10, <2>1, <2>2 DEF Progress
<1>13. TaskShows' /\ TaskEnded'
  BY <1>1, <1>10 DEF TaskInv, TaskShows, TaskEnded
<1>14. 0 \in 0 .. Len(kips')
  BY <1>a, <1>9
<1> QED
  BY <1>11, <1>12, <1>13, <1>14 DEF TaskInv

\* A step of the scan that probes nothing: it says how far the scan is now.
LEMMA TaskMovesOn ==
  ASSUME TaskInv, Looking, UNCHANGED <<ktask, kscope, kphase, kout, kresult, kips, kprobed>>,
         kacct' \in [counts : [TaskVerdicts -> Nat], unscanned : Nat, truncated : BOOLEAN],
         kacct'.counts = kacct.counts,
         NEW m \in 0 .. Len(kips), Progress(m)'
  PROVE  TaskInv'
<1>1. AskedPorts' = AskedPorts /\ SumCounts' = SumCounts /\ (Detailed' <=> Detailed)
  BY DEF AskedPorts, SumCounts, Detailed
<1>2. TaskShape'
  BY <1>1 DEF TaskInv, TaskShape
<1>3. TaskShows'
  BY <1>1 DEF TaskInv, TaskShows
<1>4. kresult' = "none" /\ kphase' = "scanning"
  BY DEF TaskInv, TaskEnded, Looking
<1>5. TaskEnded'
  BY <1>4 DEF TaskEnded
<1>6. m \in 0 .. Len(kips')
  OBVIOUS
<1> QED
  BY <1>2, <1>3, <1>5, <1>6 DEF TaskInv

\* A task that is cut, or passes over an address, accounts for what is left.
LEMMA TaskCutInv == TaskInv /\ (CutByCancel \/ CutByDeadline \/ PassOverAddress) => TaskInv'
<1> SUFFICES ASSUME TaskInv, CutByCancel \/ CutByDeadline \/ PassOverAddress PROVE TaskInv'
  OBVIOUS
<1>1. /\ Looking /\ UNCHANGED <<ktask, kscope, kphase, kout, kresult, kips, kprobed>>
  BY DEF CutByCancel, CutByDeadline, PassOverAddress
<1>2. PICK n \in 0 .. Len(kips) : Progress(n)
  BY DEF TaskInv
<1>3. kips \in Seq(TaskAddresses) /\ Len(kips) \in Nat /\ n \in Nat
  BY LenProperties DEF TaskInv, TaskShape
<1>4. n < Len(kips)
  <2>1. n = Len(kips) => kleft = << >>
    BY <1>2, <1>3, RestOfNothing DEF Progress
  <2> QED
    BY <1>1, <1>2, <1>3, <2>1 DEF Looking
<1>5. /\ Head(kleft) = kips[n + 1] /\ Len(kleft) = Len(kips) - n /\ n + 1 \in 1 .. Len(kips)
      /\ Tail(kleft) = SubSeq(kips, (n + 1) + 1, Len(kips))
  BY <1>2, <1>3, <1>4, RestOfSeq DEF Progress
<1>6. AskedPorts' = AskedPorts /\ \A a : ProbedOf(a)' = ProbedOf(a)
  BY <1>1 DEF AskedPorts, ProbedOf
<1>7. Cardinality(AskedPorts) \in Nat
  BY TaskFinite DEF TaskInv
<1>8. kacct \in [counts : [TaskVerdicts -> Nat], unscanned : Nat, truncated : BOOLEAN]
  BY DEF TaskInv, TaskShape
<1>9. ASSUME NEW u \in Nat, Cut(u), kleft' = << >>,
             Len(kips) = 1 => u = Cardinality(AskedPorts)
      PROVE  TaskInv'
  <2>1. /\ kacct' \in [counts : [TaskVerdicts -> Nat], unscanned : Nat, truncated : BOOLEAN]
        /\ kacct'.counts = kacct.counts /\ kacct'.truncated /\ kacct'.unscanned = kacct.unscanned + u
    <3>1. kacct' = [kacct EXCEPT !.truncated = TRUE, !.unscanned = kacct.unscanned + u]
      BY <1>9 DEF Cut
    <3>2. kacct.unscanned + u \in Nat
      BY <1>8, <1>9
    <3> QED
      BY <1>8, <3>1, <3>2
  <2>2. SumCounts' = SumCounts
    BY <2>1 DEF SumCounts
  <2>3. kleft' = SubSeq(kips', Len(kips') + 1, Len(kips'))
    BY <1>1, <1>3, <1>9, RestOfNothing
  <2>4. \A e \in kprobed' : \E i \in 1 .. Len(kips') : e[1] = kips'[i]
    BY <1>1, <1>2, <1>3, <1>4 DEF Progress
  <2>5. (Len(kips) = 1 /\ kips[1] \in kscope) =>
          SumCounts' + kacct'.unscanned = IF Len(kips) = 0 THEN 0 ELSE Cardinality(AskedPorts)
    <3> SUFFICES ASSUME Len(kips) = 1, kips[1] \in kscope
                 PROVE  SumCounts' + kacct'.unscanned = Cardinality(AskedPorts)
      OBVIOUS
    <3>1. n = 0
      BY <1>3, <1>4
    <3>2. SumCounts + kacct.unscanned = 0
      BY <1>2, <3>1 DEF Progress
    <3>3. SumCounts \in Nat /\ kacct.unscanned \in Nat
      BY <1>8 DEF SumCounts, TaskVerdicts
    <3> QED
      BY <1>7, <1>9, <2>1, <2>2, <3>2, <3>3
  <2>6. Progress(Len(kips))'
    BY <1>1, <1>6, <2>1, <2>3, <2>4, <2>5 DEF Progress
  <2>7. Len(kips) \in 0 .. Len(kips)
    BY <1>3
  <2> QED
    BY <1>1, <2>1, <2>6, <2>7, TaskMovesOn
<1>10. CASE CutByCancel
  <2>1. Len(kleft) \in Nat
    BY <1>3, <1>4, <1>5
  <2>2. Cardinality(AskedPorts) * Len(kleft) \in Nat
    BY <1>7, <2>1
  <2>3. Len(kips) = 1 => Len(kleft) = 1
    BY <1>3, <1>4, <1>5
  <2>4. Len(kips) = 1 => Cardinality(AskedPorts) * Len(kleft) = Cardinality(AskedPorts)
    <3>1. \A c \in Nat : c * 1 = c
      OBVIOUS
    <3> QED
      BY <1>7, <2>3, <3>1
  <2> QED
    BY <1>9, <1>10, <2>2, <2>4 DEF CutByCancel
<1>11. CASE CutByDeadline
  BY <1>7, <1>9, <1>11 DEF CutByDeadline
<1>12. CASE PassOverAddress
  <2>1. kips[n + 1] \notin kscope /\ kleft' = Tail(kleft) /\ kacct' = kacct
    BY <1>5, <1>12 DEF PassOverAddress
  <2>2. SumCounts' = SumCounts
    BY <2>1 DEF SumCounts
  <2>3. kleft' = SubSeq(kips', (n + 1) + 1, Len(kips'))
    BY <1>1, <1>5, <2>1
  <2>4. \A e \in kprobed' : \E i \in 1 .. n + 1 : e[1] = kips'[i]
    BY <1>1, <1>2, <1>3 DEF Progress
  <2>5. ~ kacct.truncated => \A i \in 1 .. n + 1 : kips[i] \in kscope => ProbedOf(kips[i]) = AskedPorts
    <3> SUFFICES ASSUME ~ kacct.truncated, NEW i \in 1 .. n + 1, kips[i] \in kscope
                 PROVE  ProbedOf(kips[i]) = AskedPorts
      OBVIOUS
    <3>1. i \in 1 .. n
      BY <1>3, <2>1
    <3> QED
      BY <1>2, <3>1 DEF Progress
  <2>6. ~ (Len(kips') = 1 /\ kips'[1] \in kscope')
    <3>1. Len(kips) = 1 => n + 1 = 1
      BY <1>3, <1>4
    <3> QED
      BY <1>1, <2>1, <3>1
  <2>7. Progress(n + 1)'
    <3>1. (~ kacct.truncated => \A i \in 1 .. n + 1 : kips[i] \in kscope => ProbedOf(kips[i]) = AskedPorts)'
      BY <1>1, <1>6, <2>1, <2>5 DEF ProbedOf
    <3> QED
      BY <2>3, <2>4, <2>6, <3>1 DEF Progress
  <2>8. n + 1 \in 0 .. Len(kips)
    BY <1>3, <1>4
  <2> QED
    BY <1>1, <1>8, <2>1, <2>7, <2>8, TaskMovesOn
<1> QED
  BY <1>10, <1>11, <1>12

-----------------------------------------------------------------------------
(* The sweep of an address.                                                *)

\* The outcome's verdicts, one row each.
Rows(a, o) == {<<a, p, o[p]>> : p \in DOMAIN o}

\* The rows of an address are as many as its ports.
LEMMA RowsCount ==
  ASSUME NEW a, NEW D, IsFiniteSet(D), NEW V, NEW o \in [D -> V]
  PROVE  IsFiniteSet(Rows(a, o)) /\ Cardinality(Rows(a, o)) = Cardinality(D)
<1> DEFINE f == [p \in D |-> <<a, p, o[p]>>]
<1>1. f \in Bijection(D, Rows(a, o))
  <2>1. f \in Injection(D, Rows(a, o))
    BY DEF Rows, Injection, IsInjective
  <2>2. f \in Surjection(D, Rows(a, o))
    BY DEF Rows, Surjection
  <2> QED
    BY <2>1, <2>2 DEF Bijection
<1>2. ExistsBijection(D, Rows(a, o))
  BY <1>1 DEF ExistsBijection
<1> QED
  BY <1>2, FS_Bijection

\* The counts of an outcome add up to its ports.
LEMMA CountsAddUp ==
  ASSUME kacct.counts \in [TaskVerdicts -> Nat], NEW D, IsFiniteSet(D), NEW o \in [D -> TaskVerdicts]
  PROVE  LET c == CountsWith(o)
         IN  /\ c \in [TaskVerdicts -> Nat]
             /\ c["open"] + c["closed"] + c["unknown"] = SumCounts + Cardinality(D)
<1> DEFINE P(v) == {p \in D : o[p] = v}
           c == CountsWith(o)
<1>1. \A v \in TaskVerdicts : IsFiniteSet(P(v)) /\ Cardinality(P(v)) \in Nat
  <2> TAKE v \in TaskVerdicts
  <2>1. IsFiniteSet(P(v))
    BY FS_Subset
  <2> QED
    BY <2>1, FS_CardinalityType
<1>2. c = [v \in TaskVerdicts |-> kacct.counts[v] + Cardinality(P(v))]
  BY DEF CountsWith
<1>3. /\ D = (P("open") \cup P("closed")) \cup P("unknown")
      /\ P("open") \cap P("closed") = {} /\ (P("open") \cup P("closed")) \cap P("unknown") = {}
  BY DEF TaskVerdicts
<1>4. /\ IsFiniteSet(P("open")) /\ IsFiniteSet(P("closed")) /\ IsFiniteSet(P("unknown"))
      /\ Cardinality(P("open")) \in Nat /\ Cardinality(P("closed")) \in Nat
      /\ Cardinality(P("unknown")) \in Nat
  BY <1>1 DEF TaskVerdicts
<1>5. /\ kacct.counts["open"] \in Nat /\ kacct.counts["closed"] \in Nat
      /\ kacct.counts["unknown"] \in Nat
  BY DEF TaskVerdicts
<1> HIDE DEF P
<1>6. /\ IsFiniteSet(P("open") \cup P("closed"))
      /\ Cardinality(P("open") \cup P("closed")) = Cardinality(P("open")) + Cardinality(P("closed"))
  BY <1>3, <1>4, DisjointCount
<1>7. Cardinality(D) = Cardinality(P("open") \cup P("closed")) + Cardinality(P("unknown"))
  BY <1>3, <1>4, <1>6, DisjointCount
<1>8. /\ c["open"] = kacct.counts["open"] + Cardinality(P("open"))
      /\ c["closed"] = kacct.counts["closed"] + Cardinality(P("closed"))
      /\ c["unknown"] = kacct.counts["unknown"] + Cardinality(P("unknown"))
  BY <1>2 DEF TaskVerdicts
<1>9. c \in [TaskVerdicts -> Nat]
  <2>1. \A v \in TaskVerdicts : kacct.counts[v] + Cardinality(P(v)) \in Nat
    BY <1>1
  <2> QED
    BY <1>2, <2>1
<1>10. PICK i \in Nat, j \in Nat, k \in Nat, x \in Nat, y \in Nat, z \in Nat :
         /\ i = kacct.counts["open"] /\ j = kacct.counts["closed"] /\ k = kacct.counts["unknown"]
         /\ x = Cardinality(P("open")) /\ y = Cardinality(P("closed")) /\ z = Cardinality(P("unknown"))
  BY <1>4, <1>5
<1>11. SumCounts = i + j + k /\ Cardinality(D) = (x + y) + z
  BY <1>6, <1>7, <1>10 DEF SumCounts
<1>12. c["open"] + c["closed"] + c["unknown"] = (i + x) + (j + y) + (k + z)
  BY <1>8, <1>10
<1>13. (i + x) + (j + y) + (k + z) = (i + j + k) + ((x + y) + z)
  OBVIOUS
<1> QED
  BY <1>9, <1>11, <1>12, <1>13

\* The sweep of one address adds its rows.
LEMMA TaskScanInv == ASSUME TaskInv, NEW t, ScanAddress(t) PROVE TaskInv'
<1>1. PICK stopped \in BOOLEAN, late \in BOOLEAN :
         /\ kworld' = [cancelled |-> stopped, expired |-> late]
         /\ \E o \in SweepOutcomes(stopped, late) :
              /\ Tally(o, stopped) /\ Emit(Head(kleft), o)
              /\ kprobed' = kprobed \cup {<<Head(kleft), p, o[p]>> : p \in DOMAIN o}
         /\ kleft' = IF stopped THEN <<>> ELSE Tail(kleft)
  BY DEF ScanAddress
<1>2. PICK o \in SweepOutcomes(stopped, late) :
              /\ Tally(o, stopped) /\ Emit(Head(kleft), o)
              /\ kprobed' = kprobed \cup {<<Head(kleft), p, o[p]>> : p \in DOMAIN o}
  BY <1>1
<1> DEFINE D == DOMAIN o
           a == Head(kleft)
<1>3. Looking /\ a \in kscope /\ UNCHANGED <<ktask, kscope, kphase, kresult, kips>>
  BY DEF ScanAddress
<1>4. D \subseteq AskedPorts /\ o \in [D -> VerdictsOf(ktask.transport)]
  BY DEF SweepOutcomes
<1>5. AskedPorts \subseteq TaskPorts /\ IsFiniteSet(AskedPorts) /\ Cardinality(AskedPorts) \in Nat
  BY TaskFinite DEF TaskInv, TaskShape
<1>6. IsFiniteSet(D) /\ Cardinality(D) \in Nat
  <2>1. IsFiniteSet(D)
    BY <1>4, <1>5, FS_Subset
  <2> QED
    BY <2>1, FS_CardinalityType
<1>7. VerdictsOf(ktask.transport) \subseteq TaskVerdicts
  BY DEF VerdictsOf, TaskVerdicts, UdpTaskVerdicts
<1>8. o \in [D -> TaskVerdicts]
  BY <1>4, <1>7
<1>9. kprobed' = kprobed \cup Rows(a, o) /\ IsFiniteSet(Rows(a, o))
      /\ Cardinality(Rows(a, o)) = Cardinality(D)
  <2>1. kprobed' = kprobed \cup Rows(a, o)
    BY <1>2 DEF Rows
  <2>2. IsFiniteSet(Rows(a, o)) /\ Cardinality(Rows(a, o)) = Cardinality(D)
    <3> HIDE DEF a, D
    <3> QED
      BY <1>4, <1>6, RowsCount
  <2> QED
    BY <2>1, <2>2
<1>10. a \in TaskAddresses
  BY <1>3 DEF TaskInv, TaskShape
<1>11. Rows(a, o) \subseteq Row
  BY <1>4, <1>5, <1>8, <1>10 DEF Rows, Row
<1>12. Unscanned(o) = Cardinality(AskedPorts) - Cardinality(D) /\ Unscanned(o) \in Nat
  BY <1>4, <1>5, RestCount DEF Unscanned
<1>13. kacct \in [counts : [TaskVerdicts -> Nat], unscanned : Nat, truncated : BOOLEAN]
  BY DEF TaskInv, TaskShape
<1>14. /\ kacct'.counts = CountsWith(o) /\ kacct'.unscanned = kacct.unscanned + Unscanned(o)
       /\ kacct'.truncated = (kacct.truncated \/ stopped \/ Unscanned(o) > 0)
       /\ kacct' = [counts |-> kacct'.counts, unscanned |-> kacct'.unscanned, truncated |-> kacct'.truncated]
  BY <1>2 DEF Tally
<1>15. /\ CountsWith(o) \in [TaskVerdicts -> Nat]
       /\ CountsWith(o)["open"] + CountsWith(o)["closed"] + CountsWith(o)["unknown"]
            = SumCounts + Cardinality(D)
  BY <1>6, <1>8, <1>13, CountsAddUp
<1>16. SumCounts' = SumCounts + Cardinality(D)
  BY <1>14, <1>15 DEF SumCounts
<1>17. kacct' \in [counts : [TaskVerdicts -> Nat], unscanned : Nat, truncated : BOOLEAN]
  <2>1. kacct'.unscanned \in Nat /\ kacct'.truncated \in BOOLEAN
    BY <1>12, <1>13, <1>14
  <2>2. kacct'.counts \in [TaskVerdicts -> Nat]
    BY <1>14, <1>15
  <2> DEFINE c == kacct'.counts
             u == kacct'.unscanned
             t1 == kacct'.truncated
  <2>3. kacct' = [counts |-> c, unscanned |-> u, truncated |-> t1]
    BY <1>14
  <2>4. c \in [TaskVerdicts -> Nat] /\ u \in Nat /\ t1 \in BOOLEAN
    BY <2>1, <2>2
  <2> HIDE DEF c, u, t1
  <2> QED
    BY <2>3, <2>4
<1>18. PICK n \in 0 .. Len(kips) : Progress(n)
  BY DEF TaskInv
<1>19. kips \in Seq(TaskAddresses) /\ Len(kips) \in Nat /\ n \in Nat /\ IsInjective(kips)
  BY LenProperties DEF TaskInv, TaskShape
<1>20. n < Len(kips)
  <2>1. n = Len(kips) => kleft = << >>
    BY <1>18, <1>19, RestOfNothing DEF Progress
  <2> QED
    BY <1>3, <1>18, <1>19, <2>1 DEF Looking
<1>21. /\ a = kips[n + 1] /\ n + 1 \in 1 .. Len(kips)
       /\ Tail(kleft) = SubSeq(kips, (n + 1) + 1, Len(kips))
  BY <1>18, <1>19, <1>20, RestOfSeq DEF Progress
<1>22. \A e \in kprobed : e[1] # a
  <2>1. \A i \in 1 .. n : i \in 1 .. Len(kips) /\ i # n + 1
    BY <1>19, <1>20
  <2>2. \A i, j \in 1 .. Len(kips) : kips[i] = kips[j] => i = j
    BY <1>19 DEF IsInjective
  <2>3. \A i \in 1 .. n : kips[i] # kips[n + 1]
    BY <1>21, <2>1, <2>2
  <2> QED
    BY <1>18, <1>21, <2>3 DEF Progress
<1> HIDE DEF a, D
<1>23. \A e \in Rows(a, o) : e[1] = a /\ e[2] \in D /\ e[3] = o[e[2]]
  BY DEF Rows, D
<1>24. AskedPorts' = AskedPorts /\ (Detailed' <=> Detailed)
  BY <1>3 DEF AskedPorts, Detailed
<1>25. kout' = [kout EXCEPT !.findings = kout.findings \cup ShownOpen(a, o),
                            !.assets = kout.assets \cup ShownOpen(a, o) \cup ShownOther(a, o),
                            !.events = kout.events \cup PortEvents(ShownOpen(a, o) \cup ShownOther(a, o))]
  BY <1>2 DEF Emit, a
<1>26. /\ ShownOpen(a, o) = {e \in Rows(a, o) : e[3] = "open"}
       /\ ShownOther(a, o) = {e \in Rows(a, o) : Detailed /\ e[3] # "open"}
  BY DEF ShownOpen, ShownOther, Rows
<1>27. PortEvents(ShownOpen(a, o) \cup ShownOther(a, o)) \subseteq Rows(a, o)
       /\ (Detailed => PortEvents(ShownOpen(a, o) \cup ShownOther(a, o)) = {e \in Rows(a, o) : e[3] # "unknown"})
  BY <1>26 DEF PortEvents
<1> DEFINE fs == kout.findings \cup ShownOpen(a, o)
           as == kout.assets \cup ShownOpen(a, o) \cup ShownOther(a, o)
           es == kout.events \cup PortEvents(ShownOpen(a, o) \cup ShownOther(a, o))
<1>28. fs \subseteq Row /\ as \subseteq Row /\ es \subseteq Row
  BY <1>11, <1>26, <1>27 DEF TaskInv, TaskShape
<1>29. kout' = [kout EXCEPT !.findings = fs, !.assets = as, !.events = es]
  BY <1>25
<1> HIDE DEF fs, as, es
<1>30. /\ kout' \in [events : SUBSET Row, assets : SUBSET Row, findings : SUBSET Row,
                      attempted : SUBSET TaskPorts, summary : BOOLEAN, requested : Nat]
       /\ kout'.findings = fs /\ kout'.events = es
  BY <1>28, <1>29 DEF TaskInv, TaskShape
<1>31. TaskShape'
  BY <1>3, <1>9, <1>11, <1>17, <1>24, <1>30 DEF TaskInv, TaskShape
<1>32. TaskShows'
  <2>1. kprobed \cap Rows(a, o) = {}
    BY <1>22, <1>23
  <2>2. /\ IsFiniteSet(kprobed \cup Rows(a, o))
        /\ Cardinality(kprobed \cup Rows(a, o)) = Cardinality(kprobed) + Cardinality(Rows(a, o))
    BY <1>9, <2>1, DisjointCount DEF TaskInv, TaskShows
  <2>3. SumCounts' = Cardinality(kprobed')
    BY <1>9, <1>16, <2>2 DEF TaskInv, TaskShows
  <2>4. \A e \in Rows(a, o) : e[3] \in VerdictsOf(ktask.transport)
    BY <1>4, <1>23 DEF D
  <2>5. \A e \in kprobed' : e[3] \in VerdictsOf(ktask'.transport)
    BY <1>3, <1>9, <2>4 DEF TaskInv, TaskShows
  <2>6. fs = {e \in kprobed' : e[3] = "open"}
    BY <1>9, <1>26 DEF TaskInv, TaskShows, fs
  <2>7. Detailed => es = {e \in kprobed' : e[3] # "unknown"}
    BY <1>9, <1>27 DEF TaskInv, TaskShows, es
  <2> QED
    BY <1>9, <1>24, <1>30, <2>2, <2>3, <2>5, <2>6, <2>7 DEF TaskShows
<1>33. kresult' = "none" /\ kphase' = "scanning"
  BY <1>3 DEF TaskInv, TaskEnded, Looking
<1>34. TaskEnded'
  BY <1>33 DEF TaskEnded
<1>35. \A e \in kprobed' : \E i \in 1 .. n + 1 : e[1] = kips[i]
  <2>1. \A e \in kprobed : \E i \in 1 .. n : e[1] = kips[i]
    BY <1>18 DEF Progress
  <2>2. n + 1 \in 1 .. n + 1 /\ \A i \in 1 .. n : i \in 1 .. n + 1
    BY <1>19
  <2> QED
    BY <1>9, <1>21, <1>23, <2>1, <2>2
<1>36. (Len(kips) = 1 /\ kips[1] \in kscope) => SumCounts' + kacct'.unscanned = Cardinality(AskedPorts)
  <2> SUFFICES ASSUME Len(kips) = 1, kips[1] \in kscope
               PROVE  SumCounts' + kacct'.unscanned = Cardinality(AskedPorts)
    OBVIOUS
  <2>1. n = 0
    BY <1>19, <1>20
  <2>2. SumCounts + kacct.unscanned = 0
    BY <1>18, <2>1 DEF Progress
  <2>3. SumCounts \in Nat /\ kacct.unscanned \in Nat
    BY <1>13 DEF SumCounts, TaskVerdicts
  <2> QED
    BY <1>5, <1>6, <1>12, <1>14, <1>16, <2>2, <2>3
<1>37. \E m \in 0 .. Len(kips') : Progress(m)'
  <2>1. CASE stopped
    <3>1. kleft' = << >> /\ kacct'.truncated
      BY <1>1, <1>14, <2>1
    <3>2. kleft' = SubSeq(kips', Len(kips') + 1, Len(kips'))
      BY <1>3, <1>19, <3>1, RestOfNothing
    <3>3. \A e \in kprobed' : \E i \in 1 .. Len(kips) : e[1] = kips[i]
      BY <1>19, <1>20, <1>35
    <3>4. Len(kips) # 0 /\ Len(kips) \in 0 .. Len(kips)
      BY <1>19, <1>20
    <3>5. Progress(Len(kips))'
      BY <1>3, <1>24, <1>36, <3>1, <3>2, <3>3, <3>4 DEF Progress
    <3> QED
      BY <1>3, <3>4, <3>5
  <2>2. CASE ~ stopped
    <3>1. kleft' = SubSeq(kips', (n + 1) + 1, Len(kips'))
      BY <1>1, <1>3, <1>21, <2>2
    <3>2. ASSUME ~ kacct'.truncated, NEW i \in 1 .. n + 1, kips[i] \in kscope
          PROVE  {e[2] : e \in {x \in kprobed' : x[1] = kips[i]}} = AskedPorts
      <4>1. ~ kacct.truncated /\ ~ (Unscanned(o) > 0)
        BY <1>14, <3>2
      <4>2. CASE i \in 1 .. n
        <5>1. kips[i] # a
          <6>1. i \in 1 .. Len(kips) /\ i # n + 1
            BY <1>19, <1>20, <4>2
          <6> QED
            BY <1>19, <1>21, <6>1 DEF IsInjective
        <5>2. {x \in kprobed' : x[1] = kips[i]} = {x \in kprobed : x[1] = kips[i]}
          BY <1>9, <1>23, <5>1
        <5>3. ProbedOf(kips[i]) = AskedPorts
          BY <1>18, <3>2, <4>1, <4>2 DEF Progress
        <5> QED
          BY <5>2, <5>3 DEF ProbedOf
      <4>3. CASE i = n + 1
        <5>1. {x \in kprobed' : x[1] = a} = Rows(a, o)
          BY <1>9, <1>22, <1>23
        <5>2. {e[2] : e \in Rows(a, o)} = D
          <6>1. \A p \in D : <<a, p, o[p]>> \in Rows(a, o) /\ <<a, p, o[p]>>[2] = p
            BY DEF Rows, D
          <6> QED
            BY <1>23, <6>1
        <5>3. D = AskedPorts
          <6>1. Unscanned(o) = 0
            BY <1>12, <4>1
          <6>2. AskedPorts \ D = {}
            <7>1. IsFiniteSet(AskedPorts \ D)
              BY <1>5, FS_Subset
            <7> QED
              BY <6>1, <7>1, FS_EmptySet DEF Unscanned, D
          <6> QED
            BY <1>4, <6>2 DEF D
        <5> QED
          BY <1>21, <4>3, <5>1, <5>2, <5>3
      <4> QED
        BY <1>19, <4>2, <4>3
    <3>3. (~ kacct.truncated => \A i \in 1 .. n + 1 : kips[i] \in kscope => ProbedOf(kips[i]) = AskedPorts)'
      BY <1>3, <1>24, <3>2 DEF ProbedOf
    <3>4. n + 1 # 0 /\ n + 1 \in 0 .. Len(kips')
      BY <1>3, <1>19, <1>20
    <3>5. (Len(kips) = 1 /\ kips[1] \in kscope =>
             SumCounts + kacct.unscanned = IF n + 1 = 0 THEN 0 ELSE Cardinality(AskedPorts))'
      BY <1>3, <1>24, <1>36, <3>4
    <3>6. (\A e \in kprobed : \E i \in 1 .. n + 1 : e[1] = kips[i])'
      BY <1>3, <1>35
    <3>7. Progress(n + 1)'
      BY <3>1, <3>3, <3>5, <3>6 DEF Progress
    <3> QED
      BY <3>4, <3>7
  <2> QED
    BY <2>1, <2>2
<1> QED
  BY <1>31, <1>32, <1>34, <1>37 DEF TaskInv

\* Each step of the task keeps its invariant.
LEMMA TaskNextInv == TaskInv /\ [PortTaskNext]_taskvars => TaskInv'
<1> SUFFICES ASSUME TaskInv, [PortTaskNext]_taskvars PROVE TaskInv'
  OBVIOUS
<1>1. CASE TcpScanAddress \/ UdpScanAddress
  BY <1>1, TaskScanInv DEF TcpScanAddress, UdpScanAddress
<1> QED
  BY <1>1, TaskEndsInv, TaskBegins, TaskCutInv DEF PortTaskNext

\* The invariant of the task holds throughout.
LEMMA TaskAlways == PortTaskSpec => []TaskInv
  BY TaskInitInv, TaskNextInv, PTL DEF PortTaskSpec

\* The invariant says what the task is to account for.
LEMMA TaskInvImplies == TaskInv => PortTaskTypeOK /\ PortTaskWhole
<1> SUFFICES ASSUME TaskInv PROVE PortTaskTypeOK /\ PortTaskWhole
  OBVIOUS
<1>1. PICK n \in 0 .. Len(kips) : Progress(n)
  BY DEF TaskInv
<1>2. PortTaskTypeOK
  BY <1>1 DEF PortTaskTypeOK, TaskInv, TaskShape, Progress
<1>3. kips \in Seq(TaskAddresses) /\ Len(kips) \in Nat /\ n \in Nat /\ n <= Len(kips)
  BY LenProperties DEF TaskInv, TaskShape
<1>4. kresult \in {"cancelled", "failed", "empty"} => kprobed = {}
  BY DEF TaskInv, TaskEnded
<1>5. ASSUME kresult = "done"
      PROVE  /\ kout.findings = {e \in kprobed : e[3] = "open"}
             /\ SumCounts = Cardinality(kprobed)
             /\ ~ kacct.truncated => \A a \in Range(kips) : a \in kscope => ProbedOf(a) = AskedPorts
             /\ Len(kips) = 1 /\ kips[1] \in kscope =>
                  SumCounts + kacct.unscanned = kout.requested /\ PortsAttempted = SumCounts
             /\ ktask.transport = "udp" /\ Detailed => kout.attempted = {e[2] : e \in kprobed}
  <2>1. kleft = << >> /\ kout.requested = Cardinality(AskedPorts)
        /\ (ktask.transport = "udp" /\ Detailed => kout.attempted = UdpAttempted)
    BY <1>5 DEF TaskInv, TaskEnded
  <2>2. n = Len(kips)
    <3>1. n < Len(kips) => kleft # << >>
      BY <1>1, <1>3, RestOfSeq DEF Progress
    <3> QED
      BY <1>3, <2>1, <3>1
  <2>3. ~ kacct.truncated => \A a \in Range(kips) : a \in kscope => ProbedOf(a) = AskedPorts
    <3>1. \A a \in Range(kips) : \E i \in 1 .. n : a = kips[i]
      BY <1>3, <2>2 DEF Range
    <3> QED
      BY <1>1, <3>1 DEF Progress
  <2>4. (Len(kips) = 1 /\ kips[1] \in kscope) =>
           SumCounts + kacct.unscanned = kout.requested /\ PortsAttempted = SumCounts
    <3> SUFFICES ASSUME Len(kips) = 1, kips[1] \in kscope
                 PROVE  SumCounts + kacct.unscanned = kout.requested /\ PortsAttempted = SumCounts
      OBVIOUS
    <3>1. SumCounts + kacct.unscanned = kout.requested
      BY <1>1, <2>1, <2>2 DEF Progress
    <3>2. SumCounts \in Nat /\ kacct.unscanned \in Nat
      BY DEF TaskInv, TaskShape, SumCounts, TaskVerdicts
    <3> QED
      BY <3>1, <3>2 DEF PortsAttempted
  <2>5. ktask.transport = "udp" /\ Detailed => kout.attempted = {e[2] : e \in kprobed}
    <3> SUFFICES ASSUME ktask.transport = "udp", Detailed
                 PROVE  kout.attempted = {e[2] : e \in kprobed}
      OBVIOUS
    <3>1. \A e \in kprobed : e[3] # "unknown"
      BY DEF TaskInv, TaskShows, VerdictsOf, UdpTaskVerdicts
    <3>2. kout.events = kprobed
      BY <3>1 DEF TaskInv, TaskShows
    <3> QED
      BY <2>1, <3>2 DEF UdpAttempted
  <2>6. kout.findings = {e \in kprobed : e[3] = "open"} /\ SumCounts = Cardinality(kprobed)
    BY DEF TaskInv, TaskShows
  <2> QED
    BY <2>3, <2>4, <2>5, <2>6
<1>6. HumanSummary = "no open ports observed" => \A e \in kprobed : e[3] # "open"
  <2> SUFFICES ASSUME HumanSummary = "no open ports observed" PROVE \A e \in kprobed : e[3] # "open"
    OBVIOUS
  <2>1. kout.findings = {}
    BY DEF HumanSummary
  <2> QED
    BY <2>1 DEF TaskInv, TaskShows
<1> QED
  BY <1>2, <1>4, <1>5, <1>6 DEF PortTaskWhole

-----------------------------------------------------------------------------
(* All of them together: the components share no variable.                 *)

\* No port is in two hands, reported twice or dropped, whichever way it is
\* scanned, and the task around the scan reports what the scan found: for any
\* ports, windows, threads and retries, whatever answers, lapses, is refused,
\* cancelled, narrowed or runs out of time.
THEOREM PortsAreExact ==
  TcpSpec /\ SynSpec /\ UdpSpec /\ PoolSpec /\ PortTaskSpec => []PortsExact
<1>1. TcpInv /\ SynInv /\ UdpInv /\ PoolInv /\ TaskInv => PortsExact
  BY TcpInvImplies, SynInvImplies, UdpInvImplies, PoolInvImplies, TaskInvImplies DEF PortsExact
<1> QED
  BY <1>1, TcpAlways, SynAlways, UdpAlways, PoolAlways, TaskAlways, PTL

\* Everything keeps to its limits: the windows, the retries, the hops of an
\* alias, the queries of a domain, and the addresses the guard permits.
THEOREM NetworkStaysWithinBounds ==
  TcpSpec /\ SynSpec /\ UdpSpec /\ PoolSpec /\ PortTaskSpec /\ HostSpec /\ DnsSpec
    => []NetworkWithinBounds
<1>1. TcpInv /\ SynInv /\ UdpInv /\ PoolInv /\ TaskInv /\ HostInv /\ DnsInv => NetworkWithinBounds
  BY TcpInvImplies, SynInvImplies, UdpInvImplies, PoolInvImplies, TaskInvImplies, HostInvImplies,
     DnsInvImplies DEF NetworkWithinBounds
<1> QED
  BY <1>1, TcpAlways, SynAlways, UdpAlways, PoolAlways, TaskAlways, HostAlways, DnsAlways, PTL

-----------------------------------------------------------------------------
(* The search in waves: sets of providers and the initial list.            *)

\* Sets of providers are finite and can be counted.
LEMMA ProviderSets ==
  ASSUME NEW S \in SUBSET Provider
  PROVE  IsFiniteSet(S) /\ Cardinality(S) \in Nat
<1>1. IsFiniteSet(1 .. Requested)
  BY SearchConstants, FS_Interval
<1>2. IsFiniteSet(S)
  BY <1>1, FS_Subset DEF Provider
<1> QED
  BY <1>2, FS_CardinalityType

\* Two disjoint sets of providers count as their sum.
LEMMA ProviderUnion ==
  ASSUME NEW S \in SUBSET Provider, NEW T \in SUBSET Provider, S \cap T = {}
  PROVE  Cardinality(S \cup T) = Cardinality(S) + Cardinality(T)
<1>1. IsFiniteSet(S) /\ IsFiniteSet(T) /\ Cardinality(S) \in Nat /\ Cardinality(T) \in Nat
  BY ProviderSets
<1>2. Cardinality(S \cup T) = Cardinality(S) + Cardinality(T) - Cardinality({})
  BY <1>1, FS_Union
<1> QED
  BY <1>1, <1>2, FS_EmptySet

\* A limit is never below one.
LEMMA LimitPositive ==
  ASSUME NEW n \in Nat
  PROVE  AtLeastOne(n) \in Nat /\ AtLeastOne(n) >= 1
  BY DEF AtLeastOne

\* The search starts with the first AdmittedCount providers, each once.
LEMMA FirstPending ==
  ASSUME NEW q, q = [i \in 1 .. AdmittedCount |-> i]
  PROVE  /\ AdmittedCount \in Nat /\ AdmittedCount <= Requested
         /\ q \in Seq(Provider) /\ Len(q) = AdmittedCount
         /\ IsInjective(q)
<1>1. AdmittedCount \in Nat /\ AdmittedCount <= Requested /\ Requested \in Nat
  BY SearchConstants DEF AdmittedCount
<1>2. q \in [1 .. AdmittedCount -> Provider]
  BY <1>1 DEF Provider
<1>3. q \in Seq(Provider) /\ Len(q) = AdmittedCount
  BY <1>1, <1>2
<1>4. IsInjective(q)
  BY <1>2 DEF IsInjective
<1> QED
  BY <1>1, <1>3, <1>4

-----------------------------------------------------------------------------
(* Type correctness.                                                       *)

ThreadState == {"none", "spawned", "contacting", "value", "error", "cancelled", "deadline"}

TypeInv ==
  /\ pc \in {"top", "clock", "select", "wave", "done"}
  /\ pending \in Seq(Provider) /\ deferred \in Seq(Provider)
  /\ thread \in [Provider -> ThreadState]
  /\ completed \in Nat /\ skipped \in Nat /\ cancelled \in Nat /\ unscanned \in Nat
  /\ truncated \in BOOLEAN /\ flag \in BOOLEAN /\ expired \in BOOLEAN
  /\ observed \in SUBSET Provider
  /\ contacts \in [Provider -> Nat]
  /\ lateWaves \in Nat

\* The threads that have not ended one way or the other are a set of providers.
With(ends) == {i \in Wave : thread[i] \in ends}

\* The search starts well typed.
LEMMA TypeInit == Init => TypeInv
<1> SUFFICES ASSUME Init PROVE TypeInv
  OBVIOUS
<1>1. pending \in Seq(Provider) /\ Requested - AdmittedCount \in Nat
  BY FirstPending, SearchConstants DEF Init
<1>2. thread \in [Provider -> ThreadState] /\ contacts \in [Provider -> Nat]
  BY DEF Init, ThreadState
<1>3. deferred \in Seq(Provider) /\ observed \in SUBSET Provider
  BY DEF Init
<1>4. unscanned \in Nat /\ truncated \in BOOLEAN
  BY <1>1 DEF Init
<1>5. completed \in Nat /\ skipped \in Nat /\ cancelled \in Nat /\ lateWaves \in Nat
  BY DEF Init
<1>6. pc = "top" /\ flag = FALSE /\ expired = FALSE
  BY DEF Init
<1> QED
  BY <1>1, <1>2, <1>3, <1>4, <1>5, <1>6 DEF TypeInv

\* Every step keeps the types.
LEMMA TypeNext == TypeInv /\ [Next]_vars => TypeInv'
<1> SUFFICES ASSUME TypeInv, [Next]_vars PROVE TypeInv'
  OBVIOUS
<1> USE DEF TypeInv
<1>1. CASE Finish
  BY <1>1 DEF Finish, At, accounting
<1>2. CASE StopCancelled
  <2>1. Len(pending) \in Nat /\ cancelled + Len(pending) \in Nat /\ <<>> \in Seq(Provider)
    OBVIOUS
  <2> QED
    BY <1>2, <2>1 DEF StopCancelled, At
<1>3. CASE NotCancelled
  BY <1>3 DEF NotCancelled, At, accounting
<1>4. CASE StopExpired
  <2>1. Len(pending) \in Nat /\ unscanned + Len(pending) \in Nat /\ <<>> \in Seq(Provider)
    OBVIOUS
  <2> QED
    BY <1>4, <2>1 DEF StopExpired, At
<1>5. CASE NotExpired
  BY <1>5 DEF NotExpired, At, accounting
<1>6. CASE Consider
  <2>1. Head(pending) \in Provider /\ Tail(pending) \in Seq(Provider)
    BY <1>6 DEF Consider
  <2>2. thread' \in [Provider -> ThreadState]
    BY <1>6, <2>1 DEF Consider, ThreadState
  <2>3. deferred' \in Seq(Provider)
    <3>1. deferred' = deferred \/ deferred' = Append(deferred, Head(pending))
      BY <1>6 DEF Consider
    <3>2. Append(deferred, Head(pending)) \in Seq(Provider)
      BY <2>1
    <3> QED
      BY <3>1, <3>2
  <2>4. skipped' = skipped \/ skipped' = skipped + 1
    BY <1>6 DEF Consider
  <2>5. skipped' \in Nat
    BY <2>4
  <2> QED
    BY <1>6, <2>1, <2>2, <2>3, <2>5 DEF Consider
<1>7. CASE StartWave
  BY <1>7 DEF StartWave, At, accounting
<1>8. CASE Collect
  <2>1. \A ends : With(ends) \in SUBSET Provider /\ Cardinality(With(ends)) \in Nat
    BY ProviderSets DEF With, Wave
  <2>2. /\ completed' = completed + Cardinality(With({"value", "error"}))
        /\ cancelled' = cancelled + Cardinality(With({"cancelled"}))
        /\ unscanned' = unscanned + Cardinality(With({"deadline"}))
        /\ observed' = observed \cup With({"value", "error"})
    BY <1>8 DEF Collect, With
  <2>3. thread' \in [Provider -> ThreadState] /\ deferred' \in Seq(Provider)
    BY <1>8 DEF Collect, ThreadState
  <2>4. completed' \in Nat /\ cancelled' \in Nat /\ unscanned' \in Nat
    BY <2>1, <2>2
  <2>5. observed' \in SUBSET Provider
    BY <2>1, <2>2
  <2> QED
    BY <1>8, <2>3, <2>4, <2>5 DEF Collect, At
<1>9. CASE Cancel
  BY <1>9 DEF Cancel, accounting
<1>10. CASE DeadlinePasses
  BY <1>10 DEF DeadlinePasses, accounting
<1>11. CASE Returned \/ UNCHANGED vars
  BY <1>11 DEF Returned, vars, accounting
<1>12. ASSUME NEW i \in Provider, SendRequest(i) PROVE TypeInv'
  <2>1. thread' = [thread EXCEPT ![i] = "contacting"] /\ contacts' = [contacts EXCEPT ![i] = @ + 1]
    BY <1>12 DEF SendRequest, Moves
  <2>2. thread' \in [Provider -> ThreadState] /\ contacts' \in [Provider -> Nat]
    BY <2>1 DEF ThreadState
  <2> QED
    BY <1>12, <2>2 DEF SendRequest, Moves, accounting
<1>13. ASSUME NEW i \in Provider, ThreadEnds(i) PROVE TypeInv'
  <2>1. thread' \in [Provider -> ThreadState]
    BY <1>13 DEF ThreadEnds, Moves, ThreadState, Ended
  <2> QED
    BY <1>13, <2>1 DEF ThreadEnds, Moves, accounting
<1> QED
  BY <1>1, <1>2, <1>3, <1>4, <1>5, <1>6, <1>7, <1>8, <1>9, <1>10, <1>11, <1>12, <1>13
  DEF Next, Loop

\* The state of a search is well typed in every behaviour.
THEOREM SearchTypeCorrect == Spec => []TypeInv
<1> QED
  BY TypeInit, TypeNext, PTL DEF Spec

-----------------------------------------------------------------------------
(* Where a provider is: still to consider, deferred, in the wave, or done  *)
(* with; never in two of these places.                                     *)

PlaceInv ==
  /\ IsInjective(pending) /\ IsInjective(deferred)
  /\ ToSet(pending) \cap ToSet(deferred) = {}
  /\ ToSet(pending) \cap Wave = {}
  /\ ToSet(deferred) \cap Wave = {}
  /\ observed \cap ToSet(pending) = {}
  /\ observed \cap ToSet(deferred) = {}
  /\ observed \cap Wave = {}
  /\ pc \in {"top", "clock", "done"} => deferred = <<>> /\ Wave = {}
  /\ pc = "clock" => pending # <<>>
  /\ pc \in {"wave", "done"} => pending = <<>>

\* The entries of a list of providers are providers.
LEMMA ElementsOfSeq ==
  ASSUME NEW q \in Seq(Provider)
  PROVE  ToSet(q) \in SUBSET Provider
  BY DEF ToSet

\* What one turn of the wave selection does with the head of `pending`.
LEMMA ConsiderPlaces ==
  ASSUME TypeInv, PlaceInv, Consider
  PROVE  LET i == Head(pending)
         IN /\ i \in Provider /\ i \in ToSet(pending)
            /\ i \notin Wave /\ i \notin ToSet(deferred) /\ i \notin observed
            /\ ToSet(pending') = ToSet(pending) \ {i} /\ IsInjective(pending')
            /\ Len(pending') + 1 = Len(pending)
            /\ \/ /\ Wave' = Wave /\ deferred' = deferred /\ skipped' = skipped + 1
                  /\ thread' = thread
               \/ /\ HasRoom(i) /\ Wave' = Wave \cup {i} /\ deferred' = deferred
                  /\ skipped' = skipped /\ thread' = [thread EXCEPT ![i] = "spawned"]
               \/ /\ Wave' = Wave /\ deferred' = Append(deferred, i) /\ skipped' = skipped
                  /\ thread' = thread
<1> DEFINE i == Head(pending)
<1>1. pending \in Seq(Provider) /\ pending # <<>> /\ pending' = Tail(pending)
  BY DEF TypeInv, Consider
<1>2. i \in Provider /\ Len(pending') + 1 = Len(pending)
  BY <1>1
<1>3. i \in ToSet(pending) /\ ToSet(pending') = ToSet(pending) \ {i}
      /\ IsInjective(pending')
  BY <1>1, TailElements DEF PlaceInv
<1>4. i \notin Wave /\ i \notin ToSet(deferred) /\ i \notin observed
  BY <1>3 DEF PlaceInv
<1>5. ASSUME thread' = thread PROVE Wave' = Wave
  BY <1>5 DEF Wave
<1>6. ASSUME thread' = [thread EXCEPT ![i] = "spawned"] PROVE Wave' = Wave \cup {i}
  BY <1>2, <1>6 DEF Wave, TypeInv
<1>7. CASE i \notin Accepted /\ skipped' = skipped + 1 /\ UNCHANGED <<thread, deferred>>
  BY <1>2, <1>3, <1>4, <1>5, <1>7
<1>8. CASE /\ HasRoom(i) /\ thread' = [thread EXCEPT ![i] = "spawned"]
           /\ UNCHANGED <<skipped, deferred>>
  BY <1>2, <1>3, <1>4, <1>6, <1>8
<1>9. CASE deferred' = Append(deferred, i) /\ UNCHANGED <<skipped, thread>>
  BY <1>2, <1>3, <1>4, <1>5, <1>9
<1> QED
  BY <1>7, <1>8, <1>9 DEF Consider

\* What the end of a wave does with its threads.
LEMMA CollectPlaces ==
  ASSUME TypeInv, PlaceInv, Collect
  PROVE  /\ Wave' = {} /\ pending' = deferred /\ deferred' = <<>>
         /\ \A j \in Wave : thread[j] \in Ended
         /\ thread' = [j \in Provider |-> "none"]
         /\ completed' = completed + Cardinality(With({"value", "error"}))
         /\ observed' = observed \cup With({"value", "error"})
         /\ cancelled' = cancelled + Cardinality(With({"cancelled"}))
         /\ unscanned' = unscanned + Cardinality(With({"deadline"}))
         /\ truncated' = (truncated \/ With({"deadline"}) # {})
<1>1. thread' = [j \in Provider |-> "none"]
  BY DEF Collect
<1>2. Wave' = {}
  BY <1>1 DEF Wave
<1> QED
  BY <1>1, <1>2 DEF Collect, With

\* A step of a thread leaves it in the wave.
LEMMA ThreadPlaces ==
  ASSUME TypeInv, NEW i \in Provider, SendRequest(i) \/ ThreadEnds(i)
  PROVE  /\ Wave' = Wave /\ pc = "wave" /\ i \in Wave
         /\ UNCHANGED <<pc, pending, deferred, observed, completed, skipped, cancelled,
                        unscanned, truncated, flag, expired, lateWaves>>
<1>1. PICK from \in {"spawned", "contacting"}, to \in Ended \cup {"contacting"} :
        Moves(i, from, to)
  BY DEF SendRequest, ThreadEnds
<1>2. thread' = [thread EXCEPT ![i] = to] /\ thread[i] = from
  BY <1>1 DEF Moves
<1>3. Wave' = Wave /\ i \in Wave
  BY <1>2 DEF Wave, TypeInv, Ended
<1> QED
  BY <1>1, <1>3 DEF Moves, accounting

\* At the start every provider is in at most one place.
LEMMA PlaceInit == Init => PlaceInv
<1> SUFFICES ASSUME Init PROVE PlaceInv
  OBVIOUS
<1>1. IsInjective(pending) /\ deferred = <<>> /\ observed = {} /\ pc = "top"
  BY FirstPending DEF Init
<1>2. Wave = {}
  BY DEF Init, Wave
<1> QED
  BY <1>1, <1>2, EmptyElements DEF PlaceInv

\* Every step moves a provider from one place to another.
LEMMA PlaceNext == TypeInv /\ PlaceInv /\ [Next]_vars => PlaceInv'
<1> SUFFICES ASSUME TypeInv, PlaceInv, [Next]_vars PROVE PlaceInv'
  OBVIOUS
<1>1. ASSUME UNCHANGED thread PROVE Wave' = Wave
  BY <1>1 DEF Wave
<1>2. CASE Finish
  BY <1>1, <1>2 DEF Finish, At, PlaceInv
<1>3. CASE StopCancelled
  BY <1>1, <1>3, EmptyElements DEF StopCancelled, At, PlaceInv
<1>4. CASE NotCancelled
  BY <1>1, <1>4 DEF NotCancelled, At, PlaceInv
<1>5. CASE StopExpired
  BY <1>1, <1>5, EmptyElements DEF StopExpired, At, PlaceInv
<1>6. CASE NotExpired
  BY <1>1, <1>6 DEF NotExpired, At, PlaceInv
<1>7. CASE Consider
  <2> DEFINE i == Head(pending)
  <2>1. pc' = "select" /\ observed' = observed
    BY <1>7 DEF Consider
  <2>2. CASE deferred' = deferred
    BY <1>7, <2>1, <2>2, ConsiderPlaces DEF PlaceInv
  <2>3. CASE Wave' = Wave /\ deferred' = Append(deferred, i)
    <3>1. deferred \in Seq(Provider) /\ i \in Provider /\ i \notin ToSet(deferred)
          /\ i \in ToSet(pending) /\ i \notin Wave /\ i \notin observed
          /\ ToSet(pending') = ToSet(pending) \ {i} /\ IsInjective(pending')
      BY <1>7, ConsiderPlaces DEF TypeInv
    <3>2. ToSet(deferred') = ToSet(deferred) \cup {i} /\ IsInjective(deferred')
      BY <2>3, <3>1, AppendElements DEF PlaceInv
    <3> QED
      BY <2>1, <2>3, <3>1, <3>2 DEF PlaceInv
  <2> QED
    BY <1>7, <2>2, <2>3, ConsiderPlaces
<1>8. CASE StartWave
  BY <1>1, <1>8 DEF StartWave, At, PlaceInv
<1>9. CASE Collect
  <2>1. With({"value", "error"}) \subseteq Wave
    BY DEF With
  <2>2. pc' = "top" /\ pc = "wave"
    BY <1>9 DEF Collect, At
  <2> QED
    BY <1>9, <2>1, <2>2, CollectPlaces, EmptyElements DEF PlaceInv
<1>10. CASE Cancel
  BY <1>1, <1>10 DEF Cancel, PlaceInv
<1>11. CASE DeadlinePasses
  BY <1>1, <1>11 DEF DeadlinePasses, PlaceInv
<1>12. CASE Returned \/ UNCHANGED vars
  BY <1>1, <1>12 DEF Returned, vars, PlaceInv
<1>13. ASSUME NEW i \in Provider, SendRequest(i) \/ ThreadEnds(i) PROVE PlaceInv'
  BY <1>13, ThreadPlaces DEF PlaceInv
<1> QED
  BY <1>2, <1>3, <1>4, <1>5, <1>6, <1>7, <1>8, <1>9, <1>10, <1>11, <1>12, <1>13
  DEF Next, Loop

-----------------------------------------------------------------------------
(* The limits of a wave.                                                   *)

\* Every step keeps the wave within its limits: only Consider adds to it.
LEMMA LimitsNext == TypeInv /\ PlaceInv /\ WaveWithinLimits /\ [Next]_vars => WaveWithinLimits'
<1> SUFFICES ASSUME TypeInv, PlaceInv, WaveWithinLimits, [Next]_vars PROVE WaveWithinLimits'
  OBVIOUS
<1>1. ASSUME Wave' = Wave PROVE WaveWithinLimits'
  BY <1>1 DEF WaveWithinLimits
<1>2. CASE Consider
  <2> DEFINE i == Head(pending)
             On(W, h) == {j \in W : Host[j] = h}
  <2>1. CASE Wave' = Wave
    BY <1>1, <2>1
  <2>2. CASE HasRoom(i) /\ Wave' = Wave \cup {i}
    <3>1. i \in Provider /\ i \notin Wave /\ Wave \in SUBSET Provider
      BY <1>2, ConsiderPlaces DEF Wave
    <3>2. IsFiniteSet(Wave) /\ Cardinality(Wave) \in Nat
      BY <3>1, ProviderSets
    <3>3. Cardinality(Wave') = Cardinality(Wave) + 1
      BY <2>2, <3>1, <3>2, FS_AddElement
    <3>4. AtLeastOne(MaxConcurrency) \in Nat /\ AtLeastOne(MaxPerHost) \in Nat
      BY SearchConstants, LimitPositive
    <3>5. Cardinality(Wave') <= AtLeastOne(MaxConcurrency)
      BY <2>2, <3>2, <3>3, <3>4 DEF HasRoom
    <3>6. ASSUME NEW h \in HostName PROVE Cardinality(On(Wave', h)) <= AtLeastOne(MaxPerHost)
      <4>1. On(Wave, h) \in SUBSET Provider
        BY <3>1
      <4>2. IsFiniteSet(On(Wave, h)) /\ Cardinality(On(Wave, h)) \in Nat
        BY <4>1, ProviderSets
      <4>3. CASE Host[i] = h
        <5>1. On(Wave', h) = On(Wave, h) \cup {i} /\ i \notin On(Wave, h)
          BY <2>2, <3>1, <4>3
        <5>2. Cardinality(On(Wave', h)) = Cardinality(On(Wave, h)) + 1
          BY <4>2, <5>1, FS_AddElement
        <5>3. Cardinality(On(Wave, h)) < AtLeastOne(MaxPerHost)
          BY <2>2, <4>3 DEF HasRoom
        <5> QED
          BY <3>4, <4>2, <5>2, <5>3
      <4>4. CASE Host[i] # h
        <5>1. On(Wave', h) = On(Wave, h)
          BY <2>2, <4>4
        <5> QED
          BY <5>1 DEF WaveWithinLimits
      <4> QED
        BY <4>3, <4>4
    <3> QED
      BY <3>5, <3>6 DEF WaveWithinLimits
  <2> QED
    BY <1>2, <2>1, <2>2, ConsiderPlaces
<1>3. CASE Collect
  <2>1. Wave' = {}
    BY <1>3, CollectPlaces
  <2>2. \A h \in HostName : {j \in Wave' : Host[j] = h} = {}
    BY <2>1
  <2>3. AtLeastOne(MaxConcurrency) >= 1 /\ AtLeastOne(MaxPerHost) >= 1
        /\ AtLeastOne(MaxConcurrency) \in Nat /\ AtLeastOne(MaxPerHost) \in Nat
    BY SearchConstants, LimitPositive
  <2> QED
    BY <2>1, <2>2, <2>3, FS_EmptySet DEF WaveWithinLimits
<1>4. ASSUME NEW i \in Provider, SendRequest(i) \/ ThreadEnds(i) PROVE WaveWithinLimits'
  BY <1>1, <1>4, ThreadPlaces
<1>5. CASE UNCHANGED thread
  BY <1>1, <1>5 DEF Wave
<1>6. ASSUME Finish \/ StopCancelled \/ NotCancelled \/ StopExpired \/ NotExpired \/ StartWave
             \/ Cancel \/ DeadlinePasses \/ Returned \/ UNCHANGED vars
      PROVE  UNCHANGED thread
  BY <1>6 DEF Finish, StopCancelled, NotCancelled, StopExpired, NotExpired, StartWave, Cancel,
     DeadlinePasses, Returned, vars
<1> QED
  BY <1>2, <1>3, <1>4, <1>5, <1>6 DEF Next, Loop

\* However many providers there are and whatever the limits, a wave of
\* run_with_progress stays within max_concurrency and the limit of each host.
LEMMA WavesAreLimited == Spec => []WaveWithinLimits
<1>1. Init => WaveWithinLimits
  <2> SUFFICES ASSUME Init PROVE WaveWithinLimits
    OBVIOUS
  <2>1. Wave = {} /\ \A h \in HostName : {j \in Wave : Host[j] = h} = {}
    BY DEF Init, Wave
  <2>2. AtLeastOne(MaxConcurrency) >= 1 /\ AtLeastOne(MaxPerHost) >= 1
        /\ AtLeastOne(MaxConcurrency) \in Nat /\ AtLeastOne(MaxPerHost) \in Nat
    BY SearchConstants, LimitPositive
  <2> QED
    BY <2>1, <2>2, FS_EmptySet DEF WaveWithinLimits
<1> QED
  BY <1>1, TypeInit, TypeNext, PlaceInit, PlaceNext, LimitsNext, PTL DEF Spec

-----------------------------------------------------------------------------
(* The accounting.                                                         *)

\* Every step moves what it takes from one summand to another.
LEMMA AccountedNext ==
  TypeInv /\ PlaceInv /\ EveryProviderAccounted /\ [Next]_vars => EveryProviderAccounted'
<1> SUFFICES ASSUME TypeInv, PlaceInv, EveryProviderAccounted, [Next]_vars
             PROVE  EveryProviderAccounted'
  OBVIOUS
<1>1. /\ Len(pending) \in Nat /\ Len(deferred) \in Nat
      /\ Wave \in SUBSET Provider /\ IsFiniteSet(Wave) /\ Cardinality(Wave) \in Nat
      /\ completed \in Nat /\ skipped \in Nat /\ cancelled \in Nat /\ unscanned \in Nat
      /\ Requested \in Nat
  BY ProviderSets, SearchConstants DEF TypeInv, Wave
<1>2. completed + skipped + cancelled + unscanned
        + Len(pending) + Len(deferred) + Cardinality(Wave) = Requested
  BY DEF EveryProviderAccounted
<1>3. ASSUME UNCHANGED thread PROVE Wave' = Wave
  BY <1>3 DEF Wave
<1>4. CASE StopCancelled
  <2>1. Wave' = Wave /\ deferred' = deferred /\ completed' = completed /\ skipped' = skipped
        /\ unscanned' = unscanned /\ cancelled' = cancelled + Len(pending) /\ Len(pending') = 0
    BY <1>3, <1>4 DEF StopCancelled
  <2> QED
    BY <1>1, <1>2, <2>1 DEF EveryProviderAccounted
<1>5. CASE StopExpired
  <2>1. Wave' = Wave /\ deferred' = deferred /\ completed' = completed /\ skipped' = skipped
        /\ cancelled' = cancelled /\ unscanned' = unscanned + Len(pending) /\ Len(pending') = 0
    BY <1>3, <1>5 DEF StopExpired
  <2> QED
    BY <1>1, <1>2, <2>1 DEF EveryProviderAccounted
<1>6. CASE Consider
  <2> DEFINE i == Head(pending)
  <2>1. Len(pending') + 1 = Len(pending) /\ Len(pending') \in Nat
    BY <1>6, TypeNext, ConsiderPlaces DEF TypeInv
  <2>2. UNCHANGED <<completed, cancelled, unscanned>>
    BY <1>6 DEF Consider
  <2>3. CASE Wave' = Wave /\ deferred' = deferred /\ skipped' = skipped + 1
    BY <1>1, <1>2, <2>1, <2>2, <2>3 DEF EveryProviderAccounted
  <2>4. CASE Wave' = Wave \cup {i} /\ deferred' = deferred /\ skipped' = skipped
    <3>1. i \notin Wave
      BY <1>6, ConsiderPlaces
    <3>2. Cardinality(Wave') = Cardinality(Wave) + 1
      BY <1>1, <2>4, <3>1, FS_AddElement
    <3> QED
      BY <1>1, <1>2, <2>1, <2>2, <2>4, <3>2 DEF EveryProviderAccounted
  <2>5. CASE Wave' = Wave /\ deferred' = Append(deferred, i) /\ skipped' = skipped
    <3>1. Len(deferred') = Len(deferred) + 1
      BY <2>5 DEF TypeInv
    <3> QED
      BY <1>1, <1>2, <2>1, <2>2, <2>5, <3>1 DEF EveryProviderAccounted
  <2> QED
    BY <1>6, <2>3, <2>4, <2>5, ConsiderPlaces
<1>7. CASE Collect
  <2> DEFINE a == With({"value", "error"})
             b == With({"cancelled"})
             c == With({"deadline"})
  <2>1. a \in SUBSET Provider /\ b \in SUBSET Provider /\ c \in SUBSET Provider
        /\ a \cap b = {} /\ (a \cup b) \cap c = {}
    BY <1>1 DEF With
  <2>2. Wave = (a \cup b) \cup c
    BY <1>7, CollectPlaces DEF With, Ended
  <2>3. Cardinality(a) \in Nat /\ Cardinality(b) \in Nat /\ Cardinality(c) \in Nat
    BY <2>1, ProviderSets
  <2>4. Cardinality(Wave) = Cardinality(a) + Cardinality(b) + Cardinality(c)
    <3>1. Cardinality(a \cup b) = Cardinality(a) + Cardinality(b)
      BY <2>1, ProviderUnion
    <3>2. Cardinality((a \cup b) \cup c) = Cardinality(a \cup b) + Cardinality(c)
      <4>1. (a \cup b) \in SUBSET Provider
        BY <2>1
      <4> HIDE DEF a, b, c
      <4> QED
        BY <2>1, <4>1, ProviderUnion
    <3> QED
      BY <2>2, <3>1, <3>2
  <2>5. /\ Cardinality(Wave') = 0 /\ pending' = deferred /\ Len(deferred') = 0
        /\ completed' = completed + Cardinality(a)
        /\ cancelled' = cancelled + Cardinality(b)
        /\ unscanned' = unscanned + Cardinality(c)
    BY <1>7, CollectPlaces, FS_EmptySet
  <2>6. skipped' = skipped /\ Len(pending) = 0
    <3>1. pc = "wave"
      BY <1>7 DEF Collect, At
    <3> QED
      BY <1>7, <3>1 DEF Collect, PlaceInv
  <2> HIDE DEF a, b, c
  <2> DEFINE x == Cardinality(a)
             y == Cardinality(b)
             z == Cardinality(c)
             d == Len(deferred)
  <2>7. completed + skipped + cancelled + unscanned + 0 + d + (x + y + z) = Requested
    BY <1>2, <2>4, <2>6
  <2>8. x \in Nat /\ y \in Nat /\ z \in Nat /\ d \in Nat
    BY <1>1, <2>3
  <2>9. completed' = completed + x /\ cancelled' = cancelled + y /\ unscanned' = unscanned + z
        /\ Cardinality(Wave') = 0 /\ Len(pending') = d /\ Len(deferred') = 0
    BY <2>5
  <2> HIDE DEF x, y, z, d
  <2>10. (completed + x) + skipped + (cancelled + y) + (unscanned + z) + d + 0 + 0 = Requested
    BY <1>1, <2>7, <2>8
  <2> QED
    BY <2>6, <2>9, <2>10 DEF EveryProviderAccounted
<1>8. ASSUME NEW i \in Provider, SendRequest(i) \/ ThreadEnds(i) PROVE EveryProviderAccounted'
  BY <1>8, ThreadPlaces DEF EveryProviderAccounted
<1>9. ASSUME UNCHANGED <<pending, deferred, thread, accounting>> PROVE EveryProviderAccounted'
  BY <1>3, <1>9 DEF EveryProviderAccounted, accounting
<1>10. ASSUME Finish \/ NotCancelled \/ NotExpired \/ StartWave
             \/ Cancel \/ DeadlinePasses \/ Returned \/ UNCHANGED vars
      PROVE  UNCHANGED <<pending, deferred, thread, accounting>>
  BY <1>10 DEF Finish, NotCancelled, NotExpired, StartWave, Cancel,
     DeadlinePasses, Returned, vars
<1> QED
  BY <1>4, <1>5, <1>6, <1>7, <1>8, <1>9, <1>10 DEF Next, Loop

\* Whatever the providers do and whenever the search is stopped, every
\* requested provider is in exactly one counter or still under way; on return
\* this is the debug_assert of run_with_progress.
LEMMA ProvidersAreAccounted == Spec => []EveryProviderAccounted
<1>1. Init => EveryProviderAccounted
  <2> SUFFICES ASSUME Init PROVE EveryProviderAccounted
    OBVIOUS
  <2>1. Len(pending) = AdmittedCount /\ AdmittedCount \in Nat /\ Requested \in Nat
    BY FirstPending, SearchConstants DEF Init
  <2>2. Wave = {} /\ Len(deferred) = 0
    BY DEF Init, Wave
  <2> QED
    BY <2>1, <2>2, FS_EmptySet DEF Init, EveryProviderAccounted
<1> QED
  BY <1>1, TypeInit, TypeNext, PlaceInit, PlaceNext, AccountedNext, PTL DEF Spec

-----------------------------------------------------------------------------
(* Requests, observations and stopping.                                    *)

\* A provider that was sent a request is neither to be considered again nor
\* about to be sent one.
ContactInv ==
  /\ ContactedOnce
  /\ \A i \in Provider : contacts[i] # 0 =>
       i \notin ToSet(pending) /\ i \notin ToSet(deferred) /\ thread[i] # "spawned"

\* Every step keeps requests and observations single.
LEMMA ContactNext == TypeInv /\ PlaceInv /\ ContactInv /\ [Next]_vars => ContactInv'
<1> SUFFICES ASSUME TypeInv, PlaceInv, ContactInv, [Next]_vars PROVE ContactInv'
  OBVIOUS
<1> USE DEF ContactInv, ContactedOnce
<1>1. CASE Finish
  BY <1>1 DEF Finish, accounting
<1>2. CASE StopCancelled
  BY <1>2, EmptyElements DEF StopCancelled
<1>3. CASE NotCancelled
  BY <1>3 DEF NotCancelled, accounting
<1>4. CASE StopExpired
  BY <1>4, EmptyElements DEF StopExpired
<1>5. CASE NotExpired
  BY <1>5 DEF NotExpired, accounting
<1>6. CASE Consider
  <2> DEFINE i == Head(pending)
  <2>1. UNCHANGED <<contacts, completed, observed>>
    BY <1>6 DEF Consider
  <2>2. i \in ToSet(pending) /\ i \in Provider /\ ToSet(pending') \subseteq ToSet(pending)
    BY <1>6, ConsiderPlaces
  <2>3. contacts[i] = 0
    BY <2>2
  <2>4. \A j \in ToSet(deferred') : j = i \/ j \in ToSet(deferred)
    <3>1. CASE deferred' = deferred
      BY <3>1
    <3>2. CASE deferred' = Append(deferred, i)
      BY <1>6, <2>2, <3>2, AppendElements, ConsiderPlaces DEF PlaceInv, TypeInv
    <3> QED
      BY <1>6, <3>1, <3>2, ConsiderPlaces
  <2>5. \A j \in Provider : j # i => thread'[j] = thread[j]
    BY <1>6, <2>2, ConsiderPlaces DEF TypeInv
  <2> QED
    BY <2>1, <2>2, <2>3, <2>4, <2>5
<1>7. CASE StartWave
  BY <1>7 DEF StartWave, accounting
<1>8. CASE Collect
  <2> DEFINE a == With({"value", "error"})
  <2>1. a \in SUBSET Provider /\ observed \in SUBSET Provider /\ observed \cap a = {}
    BY DEF With, Wave, PlaceInv, TypeInv
  <2>2. Cardinality(observed \cup a) = Cardinality(observed) + Cardinality(a)
    BY <2>1, ProviderUnion
  <2>3. completed' = Cardinality(observed')
    BY <1>8, <2>2, CollectPlaces
  <2>4. contacts' = contacts
    BY <1>8 DEF Collect
  <2> QED
    BY <1>8, <2>3, <2>4, CollectPlaces, EmptyElements
<1>9. CASE Cancel
  BY <1>9 DEF Cancel, accounting
<1>10. CASE DeadlinePasses
  BY <1>10 DEF DeadlinePasses, accounting
<1>11. CASE Returned \/ UNCHANGED vars
  BY <1>11 DEF Returned, vars, accounting
<1>12. ASSUME NEW i \in Provider, SendRequest(i) PROVE ContactInv'
  <2>1. /\ thread[i] = "spawned" /\ thread' = [thread EXCEPT ![i] = "contacting"]
        /\ contacts' = [contacts EXCEPT ![i] = @ + 1]
        /\ UNCHANGED <<pending, deferred, completed, observed>>
    BY <1>12 DEF SendRequest, Moves, accounting
  <2>2. contacts[i] = 0
    BY <2>1
  <2>3. i \notin ToSet(pending) /\ i \notin ToSet(deferred)
    <3>1. i \in Wave
      BY <1>12, ThreadPlaces
    <3> QED
      BY <3>1 DEF PlaceInv
  <2>4. contacts'[i] = 1 /\ thread'[i] # "spawned"
    BY <2>1, <2>2 DEF TypeInv
  <2>5. \A j \in Provider : j # i => contacts'[j] = contacts[j] /\ thread'[j] = thread[j]
    BY <2>1 DEF TypeInv
  <2> QED
    BY <2>1, <2>3, <2>4, <2>5
<1>13. ASSUME NEW i \in Provider, ThreadEnds(i) PROVE ContactInv'
  <2>1. contacts' = contacts /\ UNCHANGED <<pending, deferred, completed, observed>>
    BY <1>13 DEF ThreadEnds, Moves, accounting
  <2>2. PICK to \in Ended : thread' = [thread EXCEPT ![i] = to]
    BY <1>13 DEF ThreadEnds, Moves
  <2>3. \A j \in Provider : thread'[j] = "spawned" => thread[j] = "spawned"
    BY <2>2 DEF TypeInv, Ended
  <2> QED
    BY <2>1, <2>3
<1> QED
  BY <1>1, <1>2, <1>3, <1>4, <1>5, <1>6, <1>7, <1>8, <1>9, <1>10, <1>11, <1>12, <1>13
  DEF Next, Loop

\* However often it is deferred, a provider is sent at most one request, and
\* there are as many completed providers as observations.
LEMMA ContactsAreSingle == Spec => []ContactedOnce
<1>1. Init => ContactInv
  <2> SUFFICES ASSUME Init PROVE ContactInv
    OBVIOUS
  <2>1. completed = 0 /\ observed = {} /\ \A i \in Provider : contacts[i] = 0
    BY DEF Init
  <2> QED
    BY <2>1, FS_EmptySet DEF ContactInv, ContactedOnce
<1>2. ContactInv => ContactedOnce
  BY DEF ContactInv
<1> QED
  BY <1>1, <1>2, TypeInit, TypeNext, PlaceInit, PlaceNext, ContactNext, PTL DEF Spec

\* Nothing is counted as stopped unless the search was stopped, and a wave
\* that starts late finds the loop leaving at its next look.
StopInv ==
  /\ ~flag => cancelled = 0 /\ \A i \in Provider : thread[i] # "cancelled"
  /\ ~expired => /\ unscanned = Requested - AdmittedCount
                 /\ \A i \in Provider : thread[i] # "deadline"
  /\ truncated <=> unscanned > 0
  /\ \/ lateWaves = 0
     \/ /\ lateWaves = 1
        /\ flag \/ expired
        /\ pc # "select" /\ (pc = "clock" => expired)

\* Every step keeps the counters of a search that was not stopped at rest.
LEMMA StopNext == TypeInv /\ PlaceInv /\ StopInv /\ [Next]_vars => StopInv'
<1> SUFFICES ASSUME TypeInv, PlaceInv, StopInv, [Next]_vars PROVE StopInv'
  OBVIOUS
<1> USE DEF StopInv
<1>1. CASE Finish
  BY <1>1 DEF Finish, At, accounting
<1>2. CASE StopCancelled
  BY <1>2 DEF StopCancelled, At
<1>3. CASE NotCancelled
  BY <1>3 DEF NotCancelled, At, accounting
<1>4. CASE StopExpired
  <2>1. Len(pending) \in Nat /\ Len(pending) > 0 /\ unscanned \in Nat
    BY <1>4 DEF StopExpired, At, PlaceInv, TypeInv
  <2>2. unscanned' > 0
    BY <1>4, <2>1 DEF StopExpired
  <2> QED
    BY <1>4, <2>2 DEF StopExpired, At
<1>5. CASE NotExpired
  BY <1>5 DEF NotExpired, At, accounting
<1>6. CASE Consider
  <2>1. Head(pending) \in Provider
    BY <1>6, ConsiderPlaces
  <2>2. \A j \in Provider : thread'[j] \in {thread[j], "spawned"}
    BY <1>6, <2>1, ConsiderPlaces DEF TypeInv
  <2>3. UNCHANGED <<pc, completed, cancelled, unscanned, truncated, flag, expired, lateWaves>>
    BY <1>6 DEF Consider
  <2> QED
    BY <2>2, <2>3
<1>7. CASE StartWave
  <2>1. lateWaves = 0
    BY <1>7 DEF StartWave, At
  <2> QED
    BY <1>7, <2>1 DEF StartWave, At, accounting
<1>8. CASE Collect
  <2> DEFINE b == With({"cancelled"})
             c == With({"deadline"})
  <2>1. /\ c \in SUBSET Provider /\ b \in SUBSET Provider
        /\ Cardinality(c) \in Nat /\ Cardinality(b) \in Nat
        /\ IsFiniteSet(c) /\ IsFiniteSet(b)
    BY ProviderSets DEF With, Wave
  <2>2. UNCHANGED <<flag, expired, lateWaves>> /\ pc = "wave" /\ pc' = "top"
    BY <1>8 DEF Collect, At
  <2>3. \A j \in Provider : thread'[j] = "none"
    BY <1>8, CollectPlaces
  <2>4. ~flag => b = {}
    BY DEF With, Wave
  <2>5. ~expired => c = {}
    BY DEF With, Wave
  <2>6. cancelled' = cancelled + Cardinality(b) /\ unscanned' = unscanned + Cardinality(c)
        /\ truncated' = (truncated \/ c # {})
    BY <1>8, CollectPlaces
  <2>7. Cardinality(b) = 0 <=> b = {}
    BY <2>1, FS_EmptySet
  <2>8. Cardinality(c) = 0 <=> c = {}
    BY <2>1, FS_EmptySet
  <2> HIDE DEF b, c
  <2>9. unscanned \in Nat /\ cancelled \in Nat
    BY DEF TypeInv
  <2>10. truncated' <=> unscanned' > 0
    <3>1. unscanned' > 0 <=> (unscanned > 0 \/ Cardinality(c) # 0)
      BY <2>1, <2>6, <2>9
    <3>2. truncated' <=> (truncated \/ Cardinality(c) # 0)
      BY <2>6, <2>8, Zenon
    <3> QED
      BY <3>1, <3>2, Zenon
  <2>11. ~flag' => cancelled' = 0
    BY <2>1, <2>2, <2>4, <2>6, <2>7
  <2>12. ~expired' => unscanned' = Requested - AdmittedCount
    BY <2>1, <2>2, <2>5, <2>6, <2>8, <2>9
  <2> QED
    BY <2>2, <2>3, <2>10, <2>11, <2>12
<1>9. CASE Cancel
  BY <1>9 DEF Cancel, accounting
<1>10. CASE DeadlinePasses
  BY <1>10 DEF DeadlinePasses, accounting
<1>11. CASE Returned \/ UNCHANGED vars
  BY <1>11 DEF Returned, vars, accounting
<1>12. ASSUME NEW i \in Provider, SendRequest(i) \/ ThreadEnds(i) PROVE StopInv'
  <2>1. PICK to \in Ended \cup {"contacting"} :
          /\ thread' = [thread EXCEPT ![i] = to]
          /\ to = "cancelled" => flag
          /\ to = "deadline" => expired
    BY <1>12 DEF SendRequest, ThreadEnds, Moves, Ended
  <2>2. \A j \in Provider : thread'[j] \in {thread[j], to}
    BY <2>1 DEF TypeInv
  <2> QED
    BY <1>12, <2>1, <2>2, ThreadPlaces
<1> QED
  BY <1>1, <1>2, <1>3, <1>4, <1>5, <1>6, <1>7, <1>8, <1>9, <1>10, <1>11, <1>12 DEF Next, Loop

\* Nothing is stopped at the start.
LEMMA StopInit == Init => StopInv
  BY DEF Init, StopInv

\* After a cancel or the deadline at most one more wave starts, the one that
\* was being filled.
LEMMA StopsSoon == Spec => []StopsWithinOneWave
<1>1. StopInv => StopsWithinOneWave
  BY DEF StopInv, StopsWithinOneWave
<1> QED
  BY <1>1, TypeInit, TypeNext, PlaceInit, PlaceNext, StopInit, StopNext, PTL DEF Spec

\* A search that nobody stopped returns with every admitted provider completed
\* or skipped, and `truncated` is set exactly when something was not scanned.
LEMMA SearchIsComplete == Spec => []CompleteUnlessStopped
<1>1. TypeInv /\ PlaceInv /\ StopInv /\ EveryProviderAccounted => CompleteUnlessStopped
  <2> SUFFICES ASSUME TypeInv, PlaceInv, StopInv, EveryProviderAccounted
               PROVE  CompleteUnlessStopped
    OBVIOUS
  <2>1. ASSUME pc = "done", ~flag, ~expired PROVE completed + skipped = AdmittedCount
    <3>1. cancelled = 0 /\ unscanned = Requested - AdmittedCount
      BY <2>1 DEF StopInv
    <3>2. Len(pending) = 0 /\ Len(deferred) = 0 /\ Cardinality(Wave) = 0
      BY <2>1, FS_EmptySet DEF PlaceInv
    <3>3. completed + skipped + unscanned = Requested
      BY <3>1, <3>2 DEF EveryProviderAccounted, TypeInv
    <3>4. AdmittedCount \in Nat /\ Requested \in Nat
      BY FirstPending, SearchConstants
    <3>5. completed \in Nat /\ skipped \in Nat
      BY DEF TypeInv
    <3> QED
      BY <3>1, <3>3, <3>4, <3>5
  <2> QED
    BY <2>1 DEF StopInv, CompleteUnlessStopped
<1>2. Spec => []EveryProviderAccounted
  BY ProvidersAreAccounted
<1> QED
  BY <1>1, <1>2, TypeInit, TypeNext, PlaceInit, PlaceNext, StopInit, StopNext, PTL DEF Spec

\* A search counts every provider once, contacts nobody twice, leaves nobody
\* out unless it was stopped, and keeps to its limits and to the cancel.
THEOREM SearchIsExact == Spec => []SearchExact
<1>1. SearchExact <=> /\ EveryProviderAccounted /\ ContactedOnce /\ CompleteUnlessStopped
                      /\ WaveWithinLimits /\ StopsWithinOneWave
  BY DEF SearchExact
<1> QED
  BY <1>1, WavesAreLimited, ProvidersAreAccounted, ContactsAreSingle, StopsSoon, SearchIsComplete, PTL

=============================================================================
