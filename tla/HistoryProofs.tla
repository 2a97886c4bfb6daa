---------------------------- MODULE HistoryProofs ----------------------------
(***************************************************************************)
(* Theorems about Monitor and ProjectHistory: whatever scans find, however *)
(* many schedules and processes there are and wherever they are killed,    *)
(* monitors tell of confirmed changes of consecutive scans, in order, and  *)
(* the project database says what the runs in it came to.                  *)
(***************************************************************************)
EXTENDS MCHistory, QueueLemmas

-----------------------------------------------------------------------------
(* What a comparison of two scans concludes.                               *)

\* A kind of task that met no error in the later scan, and succeeded in the
\* earlier one, succeeded again.
LEMMA SafeKind ==
  ASSUME NEW old, NEW new, NEW kind, NetworkSafe(kind, old, new), kind \in Succeeded(old)
  PROVE  /\ \E t \in new.tasks : t.kind = kind /\ t.state = "succeeded"
         /\ \A t \in new.tasks : t.kind = kind => t.state \notin Bad
<1>1. \A t \in new.tasks : t.kind = kind => t.state \notin Bad
  BY DEF NetworkSafe, TerminalErrors
<1>2. \E t \in new.tasks : t.kind = kind /\ t.state = "succeeded"
  BY DEF NetworkSafe, Succeeded
<1> QED
  BY <1>1, <1>2

\* What is covered, a task that succeeded asked for.
LEMMA CoveredAsked ==
  ASSUME NEW scan, NEW kind, NEW q, q \in Covered(scan, kind)
  PROVE  \E t \in scan.tasks : t.kind = kind /\ t.state = "succeeded" /\ q \in t.asked
BY DEF Covered

\* An absence that can be compared is one (Coverage::comparable_).
LEMMA ComparableIsAbsent ==
  ASSUME NEW old, NEW new, NEW e, Comparable(old, new, e),
         NEW kind \in Seekers(e, old.seen[e]) \cap Succeeded(old)
  PROVE  /\ \E t \in new.tasks : t.kind = kind /\ t.state = "succeeded" /\ Asks(t, e, old.seen[e])
         /\ \A t \in new.tasks : t.kind = kind => t.state \notin Bad
<1> DEFINE value == old.seen[e]
           key == e[2]
<1> HIDE DEF value, key
<1>0. kind \in Seekers(e, value) /\ kind \in Succeeded(old)
  BY DEF value
<1>1. CASE e[1] = "asset" /\ key[1] = "port"
  <2>1. kind = IF key[2] = "udp" THEN "UdpDiscovery" ELSE "PortDiscovery"
    BY <1>0, <1>1 DEF Seekers, key
  <2>2. ComparableAsset(old, new, key, value)
    BY <1>1 DEF Comparable, value, key
  <2>3. CASE key[2] = "udp"
    <3>1. NetworkSafe(kind, old, new) /\ UdpPortCovered(new, key[3])
      BY <1>0, <1>1, <2>1, <2>2, <2>3 DEF ComparableAsset
    <3>2. PICK t \in new.tasks : t.kind = kind /\ t.state = "succeeded" /\ <<"port", key[3]>> \in t.asked
      BY <2>1, <2>3, <3>1, CoveredAsked DEF UdpPortCovered
    <3>3. Asks(t, e, value)
      BY <2>1, <2>3, <3>2 DEF Asks, key
    <3> QED
      BY <1>0, <3>1, <3>2, <3>3, SafeKind DEF value
  <2>4. CASE key[2] # "udp"
    <3>1. NetworkSafe(kind, old, new) /\ PortCovered(new, key[3])
      BY <1>0, <1>1, <2>1, <2>2, <2>4 DEF ComparableAsset
    <3>2. PICK t \in new.tasks : t.kind = kind /\ t.state = "succeeded" /\ <<"port", key[3]>> \in t.asked
      BY <2>1, <2>4, <3>1, CoveredAsked DEF PortCovered
    <3>3. Asks(t, e, value)
      BY <2>1, <2>4, <3>2 DEF Asks, key
    <3> QED
      BY <1>0, <3>1, <3>2, <3>3, SafeKind DEF value
  <2> QED
    BY <2>3, <2>4
<1>2. CASE e[1] = "asset" /\ key[1] = "service"
  <2>1. kind = "ServiceProbe"
    BY <1>0, <1>2 DEF Seekers, key
  <2>2. ComparableAsset(old, new, key, value)
    BY <1>2 DEF Comparable, value, key
  <2>3. NetworkSafe(kind, old, new)
    BY <1>2, <2>1, <2>2 DEF ComparableAsset
  <2>4. \A t : t.kind = kind => Asks(t, e, value)
    BY <2>1 DEF Asks
  <2> QED
    BY <1>0, <2>3, <2>4, SafeKind DEF value
<1>3. CASE e[1] = "asset" /\ key[1] = "url"
  <2>1. ComparableAsset(old, new, key, value)
    BY <1>3 DEF Comparable, value, key
  <2>2. ComparableUrl(old, new, value)
    BY <1>3, <2>1 DEF ComparableAsset
  <2>3. \/ value.status /\ kind = "HttpProbe"
        \/ value.param # "" /\ kind = "Fuzz"
    BY <1>0, <1>3 DEF Seekers, key
  <2>4. CASE value.status /\ kind = "HttpProbe"
    <3>1. NetworkSafe(kind, old, new)
      BY <2>2, <2>4 DEF ComparableUrl
    <3>2. \A t : t.kind = kind => Asks(t, e, value)
      BY <2>4 DEF Asks
    <3> QED
      BY <1>0, <3>1, <3>2, SafeKind DEF value
  <2>5. CASE value.param # "" /\ kind = "Fuzz"
    <3>1. NetworkSafe(kind, old, new) /\ <<"param", value.param>> \in Covered(new, "Fuzz")
      BY <2>2, <2>5 DEF ComparableUrl
    <3> DEFINE asked == <<"param", value.param>>
    <3> HIDE DEF asked
    <3>4. asked \in Covered(new, kind)
      BY <2>5, <3>1 DEF asked
    <3>5. PICK t \in new.tasks : t.kind = kind /\ t.state = "succeeded" /\ asked \in t.asked
      BY <3>4, CoveredAsked
    <3>2. t.kind = kind /\ t.state = "succeeded" /\ <<"param", value.param>> \in t.asked
      BY <3>5 DEF asked
    <3>3. Asks(t, e, value)
      BY <2>5, <3>2 DEF Asks
    <3> QED
      BY <1>0, <3>1, <3>2, <3>3, SafeKind DEF value
  <2> QED
    BY <2>3, <2>4, <2>5
<1>4. CASE e[1] = "relationship" /\ key[1] # "other"
  <2>1. kind = "DnsProbe"
    BY <1>0, <1>4 DEF Seekers, key
  <2>2. ComparableRelationship(old, new, key)
    BY <1>4 DEF Comparable, key
  <2>3. NetworkSafe(kind, old, new) /\ \E type \in {key[1], "all"} : <<"record", type>> \in DnsTypes(new)
    BY <1>4, <2>1, <2>2 DEF ComparableRelationship
  <2>4. \E t \in new.tasks : t.kind = kind /\ t.state = "succeeded" /\ Asks(t, e, value)
    <3>1. CASE Covered(new, "DnsProbe") = {}
      <4>1. PICK t \in new.tasks : t.kind = kind /\ t.state = "succeeded"
        BY <1>0, <2>3, SafeKind
      <4>2. t.asked = {}
        BY <2>1, <3>1, <4>1 DEF Covered
      <4>3. Asks(t, e, value)
        BY <1>4, <2>1, <4>1, <4>2 DEF Asks
      <4> QED
        BY <4>1, <4>3
    <3>2. CASE Covered(new, "DnsProbe") # {}
      <4>1. PICK type \in {key[1], "all"} : <<"record", type>> \in Covered(new, "DnsProbe")
        BY <2>3, <3>2 DEF DnsTypes
      <4>2. PICK t \in new.tasks : t.kind = kind /\ t.state = "succeeded" /\ <<"record", type>> \in t.asked
        BY <2>1, <4>1, CoveredAsked
      <4>3. Asks(t, e, value)
        BY <1>4, <2>1, <4>2 DEF Asks, key
      <4> QED
        BY <4>2, <4>3
    <3> QED
      BY <3>1, <3>2
  <2> QED
    BY <1>0, <2>3, <2>4, SafeKind DEF value
<1>5. CASE e[1] = "finding"
  <2>1. kind \in FindingKinds
    BY <1>0, <1>5 DEF Seekers
  <2>2. ComparableFinding(old, new)
    BY <1>5 DEF Comparable
  <2>3. NetworkSafe(kind, old, new)
    BY <1>0, <2>1, <2>2 DEF ComparableFinding
  <2>4. \A t : t.kind = kind => Asks(t, e, value)
    BY <1>5, <2>1 DEF Asks, FindingKinds
  <2> QED
    BY <1>0, <2>3, <2>4, SafeKind DEF value
<1> QED
  BY <1>0, <1>1, <1>2, <1>3, <1>4, <1>5 DEF Seekers, key

\* What a comparison confirms is absent, and scans that agree differ in nothing.
LEMMA ConfirmedIsAbsent ==
  ASSUME NEW old, NEW new
  PROVE  \A e \in Confirmed(old, new) : Absent(old, new, e)
<1> SUFFICES ASSUME NEW e \in Confirmed(old, new) PROVE Absent(old, new, e)
  OBVIOUS
<1>1. /\ e \in DOMAIN old.seen \ DOMAIN new.seen
      /\ new.scope = old.scope /\ Comparable(old, new, e) /\ new.level >= old.level
  BY DEF Confirmed
<1> QED
  BY <1>1, ComparableIsAbsent DEF Absent

\* Only scans that differ give a reason to tell.
LEMMA ReasonsDiffer ==
  ASSUME NEW old, NEW new, Reasons(old, new) # {}
  PROVE  old.seen # new.seen
<1> SUFFICES ASSUME old.seen = new.seen PROVE FALSE
  OBVIOUS
<1>1. Added(old, new) = {} /\ Confirmed(old, new) = {} /\ Changed(old, new) = {}
  BY DEF Added, Confirmed, Changed
<1>2. Cardinality({}) = 0
  BY FS_EmptySet
<1>3. \A threshold \in Nat : ~Reached({}, threshold)
  BY <1>2 DEF Reached
<1>4. Thresholds["added"] \in Nat /\ Thresholds["removed"] \in Nat /\ Thresholds["changed"] \in Nat
  BY ThresholdsAssumption
<1>5. PICK r \in {"added", "removed", "changed"} :
        Reached(CASE r = "added" -> Added(old, new)
                  [] r = "removed" -> Confirmed(old, new)
                  [] r = "changed" -> Changed(old, new), Thresholds[r])
  BY DEF Reasons
<1>6. Reached({}, Thresholds[r])
  BY <1>1, <1>5
<1> QED
  BY <1>3, <1>4, <1>6

-----------------------------------------------------------------------------
(* The invariant of a monitor.                                             *)

Files == Cardinality(DOMAIN mfiles)
Contiguous == Files \in Nat /\ DOMAIN mfiles = 0 .. Files - 1 /\ mfiles = [i \in DOMAIN mfiles |-> mfiles[i]]

Baseline == [index : Nat, is : BOOLEAN]
Before == {"iterate", "scan"}
After == {"compare", "file", "webhook", "done"}
Schedules ==
  [at : {"number"}, previous : Baseline, cancelled : BOOLEAN]
  \cup [at : Before \cup After, previous : Baseline, cancelled : BOOLEAN, index : Nat, done : Nat,
        due : SUBSET mtold, alerts : SUBSET mtold]
  \cup [at : {"over"}]
SchedulesTyped == msched \in Seq(Schedules) /\ moverlap \in BOOLEAN

\* A schedule compares checkpoints that are there, and writes the next one or
\* one that another schedule wrote.
Placed(m) ==
  /\ m.at # "over" /\ m.previous.is => m.previous.index < Files
  /\ m.at \in Before => m.index <= Files
  /\ m.at \in After => m.index < Files
  /\ m.at = "compare" => m.previous.is

\* The one schedule that runs knows the newest checkpoint, and its own after it.
Follows(m) ==
  /\ m.at \in {"number"} \cup Before => (m.previous.is <=> Files > 0) /\ (m.previous.is => m.previous.index + 1 = Files)
  /\ m.at \in Before => m.index = Files
  /\ m.at \in After => m.index + 1 = Files /\ (m.previous.is => m.previous.index + 2 = Files)
Consecutive(a) ==
  /\ a.index = a.before + 1 /\ a.before \in DOMAIN mfiles /\ a.index \in DOMAIN mfiles
  /\ a.old = mfiles[a.before] /\ a.new = mfiles[a.index]
Alone ==
  ~moverlap =>
    /\ \A s, t \in Running : s = t
    /\ \A s \in Running : Follows(msched[s])
    /\ \A a \in mtold : Consecutive(a)

\* An alert that is due has been to the sinks before the next.
Sunk(m) ==
  /\ m.at \in Before \cup After => /\ ToFile => m.alerts \subseteq malerts
                                   /\ ToWebhook => m.alerts \subseteq mposted
  /\ m.at \in Before \cup {"compare"} => m.due = {}
  /\ m.at \in {"webhook", "done"} /\ ToFile => m.due \subseteq malerts
  /\ m.at = "done" /\ ToWebhook => m.due \subseteq mposted

MonitorInv ==
  /\ Contiguous /\ SchedulesTyped /\ AlertsConfirmed /\ Alone /\ SinksInOrder
  /\ \A s \in DOMAIN msched : Placed(msched[s]) /\ Sunk(msched[s])

\* A directory without files has nothing to be wrong about.
LEMMA MonitorStarts == MonitorInit => MonitorInv
<1> SUFFICES ASSUME MonitorInit PROVE MonitorInv
  OBVIOUS
<1> USE DEF MonitorInit
<1>1. DOMAIN mfiles = {} /\ DOMAIN msched = {}
  OBVIOUS
<1>2. Files = 0
  BY <1>1, FS_EmptySet DEF Files
<1>3. Contiguous
  BY <1>1, <1>2 DEF Contiguous
<1>4. SchedulesTyped
  <2>1. << >> \in Seq(Schedules)
    BY EmptySeq
  <2> QED
    BY <2>1 DEF SchedulesTyped
<1>5. AlertsConfirmed
  BY DEF AlertsConfirmed
<1>6. Alone
  BY <1>1 DEF Alone, Running
<1>7. SinksInOrder
  BY DEF SinksInOrder
<1> QED
  BY <1>1, <1>3, <1>4, <1>5, <1>6, <1>7 DEF MonitorInv

\* The newest checkpoint and the next index.
LEMMA NewestIsLast ==
  ASSUME Contiguous
  PROVE  /\ NextIndex = Files
         /\ NewestCheckpoint = IF Files = 0 THEN NoFile ELSE File(Files - 1)
<1>1. CASE Files = 0
  <2>1. DOMAIN mfiles = {}
    BY <1>1 DEF Contiguous
  <2>2. mfiles = << >>
    BY <2>1 DEF Contiguous
  <2> QED
    BY <1>1, <2>2 DEF NextIndex, NewestCheckpoint
<1>2. CASE Files # 0
  <2>1. /\ Files - 1 \in DOMAIN mfiles
        /\ \A j \in DOMAIN mfiles : Files - 1 >= j
        /\ \A i \in DOMAIN mfiles : (\A j \in DOMAIN mfiles : i >= j) => i = Files - 1
    BY <1>2 DEF Contiguous
  <2>2. Newest = Files - 1
    BY <2>1 DEF Newest
  <2>3. mfiles # << >>
    <3>1. DOMAIN << >> = {}
      OBVIOUS
    <3> QED
      BY <2>1, <3>1
  <2> QED
    BY <1>2, <2>2, <2>3 DEF NextIndex, NewestCheckpoint, Contiguous
<1> QED
  BY <1>1, <1>2

\* The checkpoints after one more was written.
LEMMA OneMoreFile ==
  ASSUME Contiguous, NEW i \in Nat, i <= Files, NEW scan,
         mfiles' = [k \in DOMAIN mfiles \cup {i} |-> IF k = i THEN scan ELSE mfiles[k]]
  PROVE  /\ Contiguous'
         /\ Files' = IF i = Files THEN Files + 1 ELSE Files
         /\ \A k \in DOMAIN mfiles : k # i => mfiles'[k] = mfiles[k]
         /\ DOMAIN mfiles \subseteq DOMAIN mfiles'
<1> DEFINE n == IF i = Files THEN Files + 1 ELSE Files
<1>1. DOMAIN mfiles = 0 .. Files - 1 /\ Files \in Nat
  BY DEF Contiguous
<1>2. DOMAIN mfiles' = DOMAIN mfiles \cup {i}
  OBVIOUS
<1>3. n \in Nat /\ DOMAIN mfiles' = 0 .. n - 1
  BY <1>1, <1>2
<1>4. Cardinality(0 .. n - 1) = n
  <2> HIDE DEF n
  <2>1. Cardinality(0 .. n - 1) = IF 0 > n - 1 THEN 0 ELSE (n - 1) - 0 + 1
    BY <1>3, FS_Interval
  <2> QED
    BY <1>3, <2>1
<1>5. Files' = n
  BY <1>3, <1>4 DEF Files
<1>6. mfiles' = [k \in DOMAIN mfiles' |-> mfiles'[k]]
  OBVIOUS
<1>7. Contiguous'
  <2> HIDE DEF n
  <2> QED
    BY <1>3, <1>5, <1>6 DEF Contiguous
<1>8. DOMAIN mfiles \subseteq DOMAIN mfiles' /\ \A k \in DOMAIN mfiles : k # i => mfiles'[k] = mfiles[k]
  BY <1>2
<1> QED
  BY <1>5, <1>7, <1>8

\* What a schedule that runs is made of.
LEMMA ScheduleShapes ==
  ASSUME SchedulesTyped, NEW s \in DOMAIN msched
  PROVE  /\ msched[s] \in Schedules
         /\ msched[s].at \in {"number", "over"} \cup Before \cup After
         /\ msched[s].at = "number" =>
              msched[s] \in [at : {"number"}, previous : Baseline, cancelled : BOOLEAN]
         /\ msched[s].at \in Before \cup After =>
              msched[s] \in [at : Before \cup After, previous : Baseline, cancelled : BOOLEAN, index : Nat, done : Nat,
                             due : SUBSET mtold, alerts : SUBSET mtold]
<1>1. msched[s] \in Schedules
  <2> HIDE DEF Schedules
  <2> QED
    BY DEF SchedulesTyped
<1> QED
  BY <1>1 DEF Schedules, Before, After

\* A step of one schedule that keeps what it should keeps the invariant.
LEMMA OneMoves ==
  ASSUME MonitorInv, NEW s \in Running, NEW n, msched' = [msched EXCEPT ![s] = n], moverlap' = moverlap,
         Contiguous', Files <= Files', mtold \subseteq mtold', malerts \subseteq malerts', mposted \subseteq mposted',
         AlertsConfirmed', SinksInOrder', (n \in Schedules)', Placed(n)', Sunk(n)',
         ~moverlap => \A a \in mtold' : Consecutive(a)', ~moverlap => Follows(n)'
  PROVE  MonitorInv'
<1>1. s \in DOMAIN msched /\ msched \in Seq(Schedules) /\ Files \in Nat /\ Files' \in Nat
  BY DEF MonitorInv, SchedulesTyped, Contiguous, Running
<1>2. /\ DOMAIN msched' = DOMAIN msched /\ msched'[s] = n
      /\ \A t \in DOMAIN msched : t # s => msched'[t] = msched[t]
  BY <1>1
<1>3. \A t \in DOMAIN msched : t # s => Placed(msched[t])' /\ Sunk(msched[t])'
  <2> SUFFICES ASSUME NEW t \in DOMAIN msched, t # s PROVE Placed(msched[t])' /\ Sunk(msched[t])'
    OBVIOUS
  <2> PICK m : m = msched[t]
    OBVIOUS
  <2>1. msched'[t] = m /\ Placed(m) /\ Sunk(m) /\ m \in Schedules
    BY <1>1, <1>2 DEF MonitorInv
  <2>2. /\ m.at # "over" => m.previous.index \in Nat
        /\ m.at \in Before \cup After => m.index \in Nat
    BY <2>1 DEF Schedules, Before, After, Baseline
  <2>3. Placed(m)'
    BY <1>1, <2>1, <2>2 DEF Placed, Before, After
  <2>4. Sunk(m)'
    BY <2>1 DEF Sunk
  <2>5. Placed(msched[t])'
    BY <2>1, <2>3 DEF Placed
  <2>6. Sunk(msched[t])'
    BY <2>1, <2>4 DEF Sunk
  <2> QED
    BY <2>5, <2>6
<1>4. SchedulesTyped'
  <2>1. Schedules \subseteq Schedules'
    <3> SUFFICES ASSUME NEW m \in Schedules PROVE m \in Schedules'
      OBVIOUS
    <3> QED
      BY DEF Schedules
  <2>2. msched' \in Seq(Schedules')
    <3> DEFINE S == Schedules'
    <3> HIDE DEF S
    <3>1. n \in S /\ Schedules \subseteq S
      BY <2>1 DEF S
    <3>2. msched \in Seq(S)
      BY <1>1, <3>1
    <3>3. msched' \in Seq(S)
      BY <1>1, <3>1, <3>2
    <3> QED
      BY <3>3 DEF S
  <2> QED
    BY <2>2 DEF MonitorInv, SchedulesTyped
<1>5. Alone'
  <2> SUFFICES ASSUME ~moverlap PROVE Alone'
    BY DEF Alone
  <2>1. Running' \subseteq {s}
    <3> SUFFICES ASSUME NEW t \in Running', t # s PROVE FALSE
      OBVIOUS
    <3>1. t \in Running
      BY <1>2 DEF Running, Is
    <3> QED
      BY <3>1 DEF MonitorInv, Alone
  <2>2. \A t \in Running' : Follows(msched[t])'
    <3>1. Follows(msched[s])'
      BY <1>2 DEF Follows
    <3> QED
      BY <2>1, <3>1
  <2>3. \A a \in mtold' : Consecutive(a)'
    OBVIOUS
  <2>4. \A t, u \in Running' : t = u
    BY <2>1
  <2> QED
    BY <2>2, <2>3, <2>4 DEF Alone
<1>6. \A t \in DOMAIN msched' : Placed(msched[t])' /\ Sunk(msched[t])'
  <2>1. Placed(msched[s])'
    BY <1>2 DEF Placed
  <2>2. Sunk(msched[s])'
    BY <1>2 DEF Sunk
  <2> QED
    BY <1>2, <1>3, <2>1, <2>2
<1> QED
  BY <1>4, <1>5, <1>6 DEF MonitorInv

Iterating == [at : Before \cup After, previous : Baseline, cancelled : BOOLEAN, index : Nat, done : Nat,
             due : SUBSET mtold, alerts : SUBSET mtold]

\* What the invariant says of a schedule that runs.
LEMMA Current ==
  ASSUME MonitorInv, NEW s \in DOMAIN msched, NEW m, m = msched[s], m.at # "over"
  PROVE  /\ s \in Running /\ Placed(m) /\ Sunk(m) /\ Files \in Nat
         /\ ~moverlap => Follows(m) /\ \A a \in mtold : Consecutive(a)
         /\ m.at = "number" => m \in [at : {"number"}, previous : Baseline, cancelled : BOOLEAN]
         /\ m.at \in Before \cup After => m \in Iterating
         /\ m.at \in {"number"} \cup Before \cup After
<1>1. s \in Running
  BY DEF Running, Is
<1>2. Placed(m) /\ Sunk(m) /\ Files \in Nat /\ SchedulesTyped
  BY DEF MonitorInv, Contiguous
<1>3. ~moverlap => Follows(m) /\ \A a \in mtold : Consecutive(a)
  BY <1>1 DEF MonitorInv, Alone
<1>4. /\ m.at = "number" => m \in [at : {"number"}, previous : Baseline, cancelled : BOOLEAN]
      /\ m.at \in Before \cup After => m \in Iterating
      /\ m.at \in {"number"} \cup Before \cup After
  BY <1>2, ScheduleShapes DEF Iterating
<1> QED
  BY <1>1, <1>2, <1>3, <1>4

\* A step that only moves a schedule on.
LEMMA OnlyMoves ==
  ASSUME MonitorInv, NEW s \in Running, NEW n, msched' = [msched EXCEPT ![s] = n],
         UNCHANGED <<mfiles, malerts, mposted, mshown, moverlap, mtold>>,
         n \in Schedules, Placed(n), Sunk(n), ~moverlap => Follows(n)
  PROVE  MonitorInv'
<1>1. Files' = Files /\ Files \in Nat
  BY DEF Files, MonitorInv, Contiguous
<1>2. Contiguous'
  BY <1>1 DEF MonitorInv, Contiguous
<1>3. AlertsConfirmed' /\ SinksInOrder'
  BY DEF MonitorInv, AlertsConfirmed, SinksInOrder
<1>4. (n \in Schedules)'
  BY DEF Schedules
<1>5. Placed(n)'
  BY <1>1 DEF Placed
<1>6. Sunk(n)'
  BY DEF Sunk
<1>7. ~moverlap => Follows(n)'
  BY <1>1 DEF Follows
<1>8. ~moverlap => \A a \in mtold' : Consecutive(a)'
  BY DEF MonitorInv, Alone, Consecutive
<1>9. mtold \subseteq mtold' /\ malerts \subseteq malerts' /\ mposted \subseteq mposted' /\ Files <= Files' /\ moverlap' = moverlap
  BY <1>1
<1> QED
  BY <1>2, <1>3, <1>4, <1>5, <1>6, <1>7, <1>8, <1>9, OneMoves

\* A schedule that is over asks for nothing.
LEMMA OverIsQuiet ==
  ASSUME NEW n, n = [at |-> "over"]
  PROVE  n \in Schedules /\ Placed(n) /\ Sunk(n) /\ Follows(n)
<1>1. n.at = "over"
  OBVIOUS
<1>2. n \in Schedules
  BY DEF Schedules
<1> QED
  BY <1>1, <1>2 DEF Placed, Sunk, Follows, Before, After

\* A schedule that looks for its first number reads the directory only.
LEMMA NumberKeeps ==
  ASSUME MonitorInv, NEW s \in DOMAIN msched, Number(s)
  PROVE  MonitorInv'
<1> PICK m : m = msched[s]
  OBVIOUS
<1>1. m.at = "number"
  BY DEF Number, Is
<1>2. /\ s \in Running /\ Placed(m) /\ Files \in Nat /\ (~moverlap => Follows(m))
      /\ m \in [at : {"number"}, previous : Baseline, cancelled : BOOLEAN]
  BY <1>1, Current
<1>3. NextIndex = Files
  BY NewestIsLast DEF MonitorInv
<1> PICK n : n = [at |-> "iterate", previous |-> m.previous, cancelled |-> m.cancelled,
                  index |-> Files, done |-> 0, due |-> {}, alerts |-> {}]
  OBVIOUS
<1>4. msched' = [msched EXCEPT ![s] = n]
  BY <1>3 DEF Number, Becomes
<1>5. n \in Schedules
  BY <1>2 DEF Schedules, Before
<1>6. Placed(n)
  BY <1>1, <1>2 DEF Placed, Before, After
<1>7. Sunk(n)
  BY DEF Sunk, Before, After
<1>8. ~moverlap => Follows(n)
  BY <1>1, <1>2 DEF Follows, Before, After
<1>9. UNCHANGED <<mfiles, malerts, mposted, mshown, moverlap, mtold>>
  BY DEF Number
<1> QED
  BY <1>2, <1>4, <1>5, <1>6, <1>7, <1>8, <1>9, OnlyMoves

\* A schedule that is cancelled tells of nothing any more.
LEMMA CancelKeeps ==
  ASSUME MonitorInv, NEW s \in DOMAIN msched, Cancel(s)
  PROVE  MonitorInv'
<1> PICK m : m = msched[s]
  OBVIOUS
<1>1. m.at # "over"
  BY DEF Cancel, Running, Is
<1>2. /\ s \in Running /\ Placed(m) /\ Sunk(m) /\ (~moverlap => Follows(m))
      /\ m \in [at : {"number"}, previous : Baseline, cancelled : BOOLEAN] \cup Iterating
  BY <1>1, Current
<1> PICK n : n = [m EXCEPT !.cancelled = TRUE]
  OBVIOUS
<1>3. msched' = [msched EXCEPT ![s] = n]
  BY DEF Cancel, Becomes
<1>4. n \in Schedules
  BY <1>2 DEF Schedules, Iterating
<1>5. /\ n.at = m.at /\ n.previous = m.previous
      /\ m.at \in Before \cup After => n.index = m.index /\ n.due = m.due /\ n.alerts = m.alerts
  BY <1>2 DEF Iterating, Before, After
<1>6. Placed(n)
  BY <1>2, <1>5 DEF Placed
<1>7. Sunk(n)
  BY <1>2, <1>5 DEF Sunk, Before, After
<1>8. ~moverlap => Follows(n)
  BY <1>2, <1>5 DEF Follows
<1>9. UNCHANGED <<mfiles, malerts, mposted, mshown, moverlap, mtold>>
  BY DEF Cancel
<1> QED
  BY <1>2, <1>3, <1>4, <1>6, <1>7, <1>8, <1>9, OnlyMoves

\* A schedule that goes on to its next scan keeps its baseline.
LEMMA IterateKeeps ==
  ASSUME MonitorInv, NEW s \in DOMAIN msched, Iterate(s)
  PROVE  MonitorInv'
<1> PICK m : m = msched[s]
  OBVIOUS
<1>1. m.at = "iterate"
  BY DEF Iterate, Is
<1>2. s \in Running /\ Placed(m) /\ Sunk(m) /\ (~moverlap => Follows(m)) /\ m \in Iterating
  BY <1>1, Current DEF Before
<1> PICK n : n = [m EXCEPT !.at = "scan"]
  OBVIOUS
<1>3. msched' = [msched EXCEPT ![s] = n]
  BY DEF Iterate, Becomes
<1>4. n \in Schedules
  BY <1>2 DEF Schedules, Iterating, Before
<1>5. n.at = "scan" /\ n.previous = m.previous /\ n.index = m.index /\ n.due = m.due /\ n.alerts = m.alerts
  BY <1>2 DEF Iterating
<1>6. Placed(n)
  BY <1>1, <1>2, <1>5 DEF Placed, Before, After
<1>7. Sunk(n)
  BY <1>1, <1>2, <1>5 DEF Sunk, Before, After
<1>8. ~moverlap => Follows(n)
  BY <1>1, <1>2, <1>5 DEF Follows, Before, After
<1>9. UNCHANGED <<mfiles, malerts, mposted, mshown, moverlap, mtold>>
  BY DEF Iterate
<1> QED
  BY <1>2, <1>3, <1>4, <1>6, <1>7, <1>8, <1>9, OnlyMoves

\* A schedule that is killed leaves its files as they are.
LEMMA KilledScheduleKeeps ==
  ASSUME MonitorInv, NEW s \in DOMAIN msched, KilledSchedule(s)
  PROVE  MonitorInv'
<1> PICK n : n = [at |-> "over"]
  OBVIOUS
<1>1. s \in Running /\ msched' = [msched EXCEPT ![s] = n]
      /\ UNCHANGED <<mfiles, malerts, mposted, mshown, moverlap, mtold>>
  BY DEF KilledSchedule, Ends, Becomes
<1> QED
  BY <1>1, OverIsQuiet, OnlyMoves

\* What was compared becomes what the next scan is compared with.
LEMMA NextIterationKeeps ==
  ASSUME MonitorInv, NEW s \in DOMAIN msched, NextIteration(s)
  PROVE  MonitorInv'
<1> PICK m : m = msched[s]
  OBVIOUS
<1>1. m.at = "done"
  BY DEF NextIteration, Is
<1>2. /\ s \in Running /\ Placed(m) /\ Sunk(m) /\ (~moverlap => Follows(m)) /\ m \in Iterating /\ Files \in Nat
  BY <1>1, Current DEF After
<1> PICK n : n = [m EXCEPT !.at = "iterate", !.previous = File(m.index), !.index = @ + 1, !.done = @ + 1,
                           !.alerts = @ \cup m.due, !.due = {}]
  OBVIOUS
<1>3. msched' = [msched EXCEPT ![s] = n]
  BY DEF NextIteration, Becomes
<1>10. n = [at |-> "iterate", previous |-> File(m.index), cancelled |-> m.cancelled, index |-> m.index + 1,
            done |-> m.done + 1, due |-> {}, alerts |-> m.alerts \cup m.due]
  BY <1>2 DEF Iterating
<1>5. n.at = "iterate" /\ n.previous = File(m.index) /\ n.index = m.index + 1 /\ n.due = {} /\ n.alerts = m.alerts \cup m.due
  BY <1>10
<1>4. n \in Schedules
  <2>1. n.alerts \in SUBSET mtold /\ n.due \in SUBSET mtold
    BY <1>2, <1>5 DEF Iterating
  <2>2. n \in Iterating
    <3>1. n.at \in Before \cup After /\ n.previous \in Baseline /\ n.cancelled \in BOOLEAN
          /\ n.index \in Nat /\ n.done \in Nat
      BY <1>2, <1>10 DEF Iterating, Before, File, Baseline
    <3> QED
      BY <1>10, <2>1, <3>1 DEF Iterating
  <2> QED
    BY <2>2 DEF Iterating, Schedules
<1>6. Placed(n)
  BY <1>1, <1>2, <1>5 DEF Placed, Before, After, File, Iterating
<1>7. Sunk(n)
  BY <1>1, <1>2, <1>5 DEF Sunk, Before, After
<1>8. ~moverlap => Follows(n)
  BY <1>1, <1>2, <1>5 DEF Follows, Before, After, File, Iterating
<1>9. UNCHANGED <<mfiles, malerts, mposted, mshown, moverlap, mtold>>
  BY DEF NextIteration
<1> QED
  BY <1>2, <1>3, <1>4, <1>6, <1>7, <1>8, <1>9, OnlyMoves

\* A schedule that ends may show what it told of: all of it went to the sinks.
LEMMA ShowsToldOnly ==
  ASSUME MonitorInv, NEW s \in DOMAIN msched, msched[s].at \in Before \cup After,
         Ends(s), mshown' = mshown \cup msched[s].alerts \/ mshown' = mshown,
         UNCHANGED <<mfiles, malerts, mposted, moverlap, mtold>>
  PROVE  MonitorInv'
<1> PICK m : m = msched[s]
  OBVIOUS
<1>1. m.at # "over"
  BY DEF Before, After
<1>2. s \in Running /\ Sunk(m) /\ m \in Iterating /\ Files \in Nat
  BY <1>1, Current
<1> PICK n : n = [at |-> "over"]
  OBVIOUS
<1>3. msched' = [msched EXCEPT ![s] = n]
  BY DEF Ends, Becomes
<1>4. SinksInOrder'
  <2>1. m.alerts \subseteq mtold /\ (ToFile => m.alerts \subseteq malerts) /\ (ToWebhook => m.alerts \subseteq mposted)
    BY <1>2 DEF Sunk, Iterating
  <2>2. SinksInOrder
    BY DEF MonitorInv
  <2> QED
    BY <2>1, <2>2 DEF SinksInOrder
<1>5. Files' = Files
  BY DEF Files
<1>6. Contiguous'
  BY <1>5 DEF MonitorInv, Contiguous
<1>7. AlertsConfirmed'
  BY DEF MonitorInv, AlertsConfirmed
<1>8. n \in Schedules /\ Placed(n) /\ Sunk(n) /\ Follows(n)
  BY OverIsQuiet
<1>9. (n \in Schedules)'
  BY <1>8 DEF Schedules
<1>10. Placed(n)' /\ Sunk(n)' /\ Follows(n)'
  BY DEF Placed, Sunk, Follows, Before, After
<1>11. ~moverlap => \A a \in mtold' : Consecutive(a)'
  BY DEF MonitorInv, Alone, Consecutive
<1>12. Files <= Files' /\ mtold \subseteq mtold' /\ malerts \subseteq malerts' /\ mposted \subseteq mposted'
  BY <1>2, <1>5
<1> QED
  BY <1>2, <1>3, <1>4, <1>6, <1>7, <1>9, <1>10, <1>11, <1>12, OneMoves

\* An alert that is shown is one of those computed.
LEMMA ShowKeeps ==
  ASSUME MonitorInv, NEW s \in DOMAIN msched, Show(s)
  PROVE  MonitorInv'
<1>1. msched[s].at \in Before \cup After
  BY DEF Show, Is, Before
<1> QED
  BY <1>1, ShowsToldOnly DEF Show

\* A scan that breaks off ends its schedule.
LEMMA BrokenKeeps ==
  ASSUME MonitorInv, NEW s \in DOMAIN msched, Broken(s)
  PROVE  MonitorInv'
<1>1. msched[s].at \in Before \cup After
  BY DEF Broken, Before, After
<1> QED
  BY <1>1, ShowsToldOnly DEF Broken, Fail

\* A scan is saved under its number before it is compared with anything.
LEMMA ScanKeeps ==
  ASSUME MonitorInv, NEW s \in DOMAIN msched, Scan(s)
  PROVE  MonitorInv'
<1> PICK m : m = msched[s]
  OBVIOUS
<1>1. m.at = "scan"
  BY DEF Scan, Is
<1>2. /\ s \in Running /\ Placed(m) /\ Sunk(m) /\ (~moverlap => Follows(m)) /\ m \in Iterating /\ Files \in Nat
      /\ (~moverlap => \A a \in mtold : Consecutive(a))
  BY <1>1, Current DEF Before
<1>3. m.index \in Nat /\ m.index <= Files
  BY <1>1, <1>2 DEF Placed, Before, Iterating
<1> PICK n : n = [m EXCEPT !.at = IF m.previous.is THEN "compare" ELSE "done"]
  OBVIOUS
<1>4. msched' = [msched EXCEPT ![s] = n]
  BY DEF Scan, Becomes
<1>5. PICK scan : mfiles' = [k \in DOMAIN mfiles \cup {m.index} |-> IF k = m.index THEN scan ELSE mfiles[k]]
  BY DEF Scan
<1>6. /\ Contiguous' /\ Files' = (IF m.index = Files THEN Files + 1 ELSE Files)
      /\ \A k \in DOMAIN mfiles : k # m.index => mfiles'[k] = mfiles[k]
      /\ DOMAIN mfiles \subseteq DOMAIN mfiles'
  BY <1>3, <1>5, OneMoreFile DEF MonitorInv
<1>7. /\ n.at = (IF m.previous.is THEN "compare" ELSE "done")
      /\ n.previous = m.previous /\ n.index = m.index /\ n.due = m.due /\ n.alerts = m.alerts
  BY <1>2 DEF Iterating
<1>8. UNCHANGED <<malerts, mposted, mshown, moverlap, mtold>>
  BY DEF Scan
<1>9. (n \in Schedules)'
  BY <1>2, <1>8 DEF Schedules, Iterating, After
<1>10. m.previous.index \in Nat /\ m.previous.is \in BOOLEAN
  BY <1>2 DEF Iterating, Baseline
<1>11. Placed(n)'
  BY <1>1, <1>2, <1>3, <1>6, <1>7, <1>10 DEF Placed, Before, After
<1>12. Sunk(n)'
  BY <1>1, <1>2, <1>7, <1>8 DEF Sunk, Before, After
<1>13. ~moverlap => Follows(n)'
  BY <1>1, <1>2, <1>3, <1>6, <1>7, <1>10 DEF Follows, Before, After
<1>14. ~moverlap => \A a \in mtold' : Consecutive(a)'
  <2> SUFFICES ASSUME ~moverlap, NEW a \in mtold' PROVE Consecutive(a)'
    OBVIOUS
  <2>1. Consecutive(a) /\ m.index = Files
    BY <1>1, <1>2, <1>8 DEF Follows, Before
  <2>2. m.index \notin DOMAIN mfiles
    BY <1>2, <2>1 DEF MonitorInv, Contiguous
  <2> QED
    BY <1>6, <2>1, <2>2 DEF Consecutive
<1>15. AlertsConfirmed' /\ SinksInOrder'
  BY <1>8 DEF MonitorInv, AlertsConfirmed, SinksInOrder
<1>16. Files <= Files' /\ mtold \subseteq mtold' /\ malerts \subseteq malerts' /\ mposted \subseteq mposted' /\ moverlap' = moverlap
  BY <1>2, <1>6, <1>8
<1> QED
  BY <1>2, <1>4, <1>6, <1>9, <1>11, <1>12, <1>13, <1>14, <1>15, <1>16, OneMoves

\* An alert is appended to the file after it was shown.
LEMMA AppendAlertKeeps ==
  ASSUME MonitorInv, NEW s \in DOMAIN msched, AppendAlert(s)
  PROVE  MonitorInv'
<1> PICK m : m = msched[s]
  OBVIOUS
<1>1. m.at = "file"
  BY DEF AppendAlert, Is
<1>2. /\ s \in Running /\ Placed(m) /\ Sunk(m) /\ (~moverlap => Follows(m)) /\ m \in Iterating /\ Files \in Nat
      /\ (~moverlap => \A a \in mtold : Consecutive(a))
  BY <1>1, Current DEF After
<1> PICK n : n = [m EXCEPT !.at = IF ToWebhook THEN "webhook" ELSE "done"]
  OBVIOUS
<1>3. msched' = [msched EXCEPT ![s] = n] /\ malerts' = malerts \cup m.due
  BY DEF AppendAlert, Becomes, Sink
<1>4. UNCHANGED <<mfiles, mposted, mshown, moverlap, mtold>>
  BY DEF AppendAlert
<1>5. Files' = Files
  BY <1>4 DEF Files
<1>6. /\ n.at = (IF ToWebhook THEN "webhook" ELSE "done")
      /\ n.previous = m.previous /\ n.index = m.index /\ n.due = m.due /\ n.alerts = m.alerts
  BY <1>2 DEF Iterating
<1>7. (n \in Schedules)'
  BY <1>2, <1>4 DEF Schedules, Iterating, After
<1>8. Placed(n)'
  BY <1>1, <1>2, <1>5, <1>6 DEF Placed, Before, After
<1>9. Sunk(n)'
  BY <1>1, <1>2, <1>3, <1>4, <1>6 DEF Sunk, Before, After
<1>10. ~moverlap => Follows(n)'
  BY <1>1, <1>2, <1>5, <1>6 DEF Follows, Before, After
<1>11. ~moverlap => \A a \in mtold' : Consecutive(a)'
  BY <1>2, <1>4 DEF Consecutive
<1>12. Contiguous'
  BY <1>4, <1>5 DEF MonitorInv, Contiguous
<1>13. AlertsConfirmed'
  BY <1>4 DEF MonitorInv, AlertsConfirmed
<1>14. SinksInOrder'
  <2>1. m.due \subseteq mtold
    BY <1>2 DEF Iterating
  <2> QED
    BY <1>3, <1>4, <2>1 DEF MonitorInv, SinksInOrder
<1>15. Files <= Files' /\ mtold \subseteq mtold' /\ malerts \subseteq malerts' /\ mposted \subseteq mposted' /\ moverlap' = moverlap
  BY <1>2, <1>3, <1>4, <1>5
<1> QED
  BY <1>2, <1>3, <1>7, <1>8, <1>9, <1>10, <1>11, <1>12, <1>13, <1>14, <1>15, OneMoves

\* An alert is posted after it was appended.
LEMMA PostWebhookKeeps ==
  ASSUME MonitorInv, NEW s \in DOMAIN msched, PostWebhook(s)
  PROVE  MonitorInv'
<1> PICK m : m = msched[s]
  OBVIOUS
<1>1. m.at = "webhook"
  BY DEF PostWebhook, Is
<1>2. /\ s \in Running /\ Placed(m) /\ Sunk(m) /\ (~moverlap => Follows(m)) /\ m \in Iterating /\ Files \in Nat
      /\ (~moverlap => \A a \in mtold : Consecutive(a))
  BY <1>1, Current DEF After
<1> PICK n : n = [m EXCEPT !.at = "done"]
  OBVIOUS
<1>3. msched' = [msched EXCEPT ![s] = n] /\ mposted' = mposted \cup m.due
  BY DEF PostWebhook, Becomes
<1>4. UNCHANGED <<mfiles, malerts, mshown, moverlap, mtold>>
  BY DEF PostWebhook
<1>5. Files' = Files
  BY <1>4 DEF Files
<1>6. n.at = "done" /\ n.previous = m.previous /\ n.index = m.index /\ n.due = m.due /\ n.alerts = m.alerts
  BY <1>2 DEF Iterating
<1>7. (n \in Schedules)'
  BY <1>2, <1>4 DEF Schedules, Iterating, After
<1>8. Placed(n)'
  BY <1>1, <1>2, <1>5, <1>6 DEF Placed, Before, After
<1>9. Sunk(n)'
  BY <1>1, <1>2, <1>3, <1>4, <1>6 DEF Sunk, Before, After
<1>10. ~moverlap => Follows(n)'
  BY <1>1, <1>2, <1>5, <1>6 DEF Follows, Before, After
<1>11. ~moverlap => \A a \in mtold' : Consecutive(a)'
  BY <1>2, <1>4 DEF Consecutive
<1>12. Contiguous'
  BY <1>4, <1>5 DEF MonitorInv, Contiguous
<1>13. AlertsConfirmed'
  BY <1>4 DEF MonitorInv, AlertsConfirmed
<1>14. SinksInOrder'
  <2>1. m.due \subseteq mtold /\ (ToFile => m.due \subseteq malerts)
    BY <1>1, <1>2 DEF Iterating, Sunk
  <2> QED
    BY <1>3, <1>4, <2>1 DEF MonitorInv, SinksInOrder
<1>15. Files <= Files' /\ mtold \subseteq mtold' /\ malerts \subseteq malerts' /\ mposted \subseteq mposted' /\ moverlap' = moverlap
  BY <1>2, <1>3, <1>4, <1>5
<1> QED
  BY <1>2, <1>3, <1>7, <1>8, <1>9, <1>10, <1>11, <1>12, <1>13, <1>14, <1>15, OneMoves

\* What is told of is what differs between the baseline and the scan.
LEMMA CompareKeeps ==
  ASSUME MonitorInv, NEW s \in DOMAIN msched, Compare(s)
  PROVE  MonitorInv'
<1> PICK m : m = msched[s]
  OBVIOUS
<1>1. m.at = "compare"
  BY DEF Compare, Is
<1>2. /\ s \in Running /\ Placed(m) /\ Sunk(m) /\ (~moverlap => Follows(m)) /\ m \in Iterating /\ Files \in Nat
      /\ (~moverlap => \A a \in mtold : Consecutive(a))
  BY <1>1, Current DEF After
<1>3. UNCHANGED <<mfiles, malerts, mposted, moverlap>>
  BY DEF Compare
<1> PICK old : old = mfiles[m.previous.index]
  OBVIOUS
<1> PICK new : new = mfiles[m.index]
  OBVIOUS
<1>4. CASE Incompatible(old, new)
  <2>1. Fail(s) /\ UNCHANGED mtold
    BY <1>4 DEF Compare
  <2>2. msched[s].at \in Before \cup After
    BY <1>1 DEF After
  <2> QED
    BY <1>3, <2>1, <2>2, ShowsToldOnly DEF Fail
<1>5. CASE ~Incompatible(old, new) /\ Reasons(old, new) = {}
  <2> PICK n : n = [m EXCEPT !.at = "done"]
    OBVIOUS
  <2>1. msched' = [msched EXCEPT ![s] = n] /\ UNCHANGED <<mshown, mtold>>
    BY <1>5 DEF Compare, Becomes
  <2>2. n.at = "done" /\ n.previous = m.previous /\ n.index = m.index /\ n.due = m.due /\ n.alerts = m.alerts
    BY <1>2 DEF Iterating
  <2>3. n \in Schedules
    BY <1>2 DEF Schedules, Iterating, After
  <2>4. Placed(n)
    BY <1>1, <1>2, <2>2 DEF Placed, Before, After
  <2>5. Sunk(n)
    BY <1>1, <1>2, <2>2 DEF Sunk, Before, After
  <2>6. ~moverlap => Follows(n)
    BY <1>1, <1>2, <2>2 DEF Follows, Before, After
  <2> QED
    BY <1>2, <1>3, <2>1, <2>3, <2>4, <2>5, <2>6, OnlyMoves
<1>6. CASE ~Incompatible(old, new) /\ Reasons(old, new) # {}
  <2> PICK alert : alert = [index |-> m.index, before |-> m.previous.index, old |-> old, new |-> new,
                            removed |-> Confirmed(old, new)]
    OBVIOUS
  <2> PICK n : n = [m EXCEPT !.at = Sink(ToFile, ToWebhook), !.due = {alert}]
    OBVIOUS
  <2>1. msched' = [msched EXCEPT ![s] = n] /\ mtold' = mtold \cup {alert} /\ UNCHANGED mshown
    BY <1>6 DEF Compare, Becomes
  <2>2. /\ n.at = (IF ToFile THEN "file" ELSE IF ToWebhook THEN "webhook" ELSE "done")
        /\ n.previous = m.previous /\ n.index = m.index /\ n.due = {alert} /\ n.alerts = m.alerts
    BY <1>2 DEF Iterating, Sink
  <2>3. Files' = Files
    BY <1>3 DEF Files
  <2>4. (n \in Schedules)'
    <3>1. n = [at |-> n.at, previous |-> m.previous, cancelled |-> m.cancelled, index |-> m.index,
               done |-> m.done, due |-> {alert}, alerts |-> m.alerts]
      BY <1>2 DEF Iterating, Sink
    <3>2. {alert} \in SUBSET mtold' /\ m.alerts \in SUBSET mtold'
      BY <1>2, <2>1 DEF Iterating
    <3>3. n.at \in Before \cup After
      BY <2>2 DEF After
    <3>4. m.previous \in Baseline /\ m.cancelled \in BOOLEAN /\ m.index \in Nat /\ m.done \in Nat
      BY <1>2 DEF Iterating
    <3> QED
      BY <3>1, <3>2, <3>3, <3>4 DEF Schedules
  <2>5. Placed(n)'
    BY <1>1, <1>2, <2>2, <2>3 DEF Placed, Before, After
  <2>6. Sunk(n)'
    <3>1. (ToFile => m.alerts \subseteq malerts) /\ (ToWebhook => m.alerts \subseteq mposted)
      BY <1>1, <1>2 DEF Sunk, After
    <3> QED
      BY <1>3, <2>2, <3>1 DEF Sunk, Before, After
  <2>7. ~moverlap => Follows(n)'
    BY <1>1, <1>2, <2>2, <2>3 DEF Follows, Before, After
  <2>8. AlertsConfirmed'
    <3>1. old.targets = new.targets
      BY <1>6 DEF Incompatible
    <3>2. old.seen # new.seen
      BY <1>6, ReasonsDiffer
    <3>3. \A e \in Confirmed(old, new) : Absent(old, new, e)
      BY ConfirmedIsAbsent
    <3>4. AlertsConfirmed
      BY DEF MonitorInv
    <3> QED
      BY <2>1, <3>1, <3>2, <3>3, <3>4 DEF AlertsConfirmed
  <2>9. ~moverlap => \A a \in mtold' : Consecutive(a)'
    <3> SUFFICES ASSUME ~moverlap, NEW a \in mtold' PROVE Consecutive(a)'
      OBVIOUS
    <3>1. CASE a \in mtold
      BY <1>2, <1>3, <3>1 DEF Consecutive
    <3>2. CASE a = alert
      <4>1. m.previous.is /\ m.index + 1 = Files /\ m.previous.index + 2 = Files
        BY <1>1, <1>2 DEF Placed, Follows, Before, After
      <4>2. m.index \in Nat /\ m.previous.index \in Nat
        BY <1>2 DEF Iterating, Baseline
      <4>3. m.index \in DOMAIN mfiles /\ m.previous.index \in DOMAIN mfiles
        BY <4>1, <4>2 DEF MonitorInv, Contiguous
      <4> QED
        BY <1>3, <3>2, <4>1, <4>2, <4>3 DEF Consecutive
    <3> QED
      BY <2>1, <3>1, <3>2
  <2>10. Contiguous'
    BY <1>3, <2>3 DEF MonitorInv, Contiguous
  <2>11. SinksInOrder'
    BY <1>3, <2>1 DEF MonitorInv, SinksInOrder
  <2>12. Files <= Files' /\ mtold \subseteq mtold' /\ malerts \subseteq malerts' /\ mposted \subseteq mposted' /\ moverlap' = moverlap
    BY <1>2, <1>3, <2>1, <2>3
  <2> QED
    BY <1>2, <2>1, <2>4, <2>5, <2>6, <2>7, <2>8, <2>9, <2>10, <2>11, <2>12, OneMoves
<1> QED
  BY <1>4, <1>5, <1>6

\* A schedule that begins shares the directory with those that run.
LEMMA BeginKeeps ==
  ASSUME MonitorInv, Begin
  PROVE  MonitorInv'
<1> PICK z : z = Len(msched) + 1
  OBVIOUS
<1> PICK n : n = [at |-> "number", previous |-> NewestCheckpoint, cancelled |-> FALSE]
  OBVIOUS
<1>1. msched' = Append(msched, n) /\ moverlap' = (moverlap \/ Running # {})
      /\ UNCHANGED <<mfiles, malerts, mposted, mshown, mtold>>
  BY DEF Begin
<1>2. msched \in Seq(Schedules) /\ Files \in Nat /\ Files' = Files
  BY <1>1 DEF MonitorInv, SchedulesTyped, Contiguous, Files
<1>3. n.previous = IF Files = 0 THEN NoFile ELSE File(Files - 1)
  BY NewestIsLast DEF MonitorInv
<1>4. n.previous \in Baseline /\ (n.previous.is <=> Files > 0) /\ (n.previous.is => n.previous.index + 1 = Files)
  <2>1. CASE Files = 0
    <3>1. n.previous = [index |-> 0, is |-> FALSE]
      BY <1>3, <2>1 DEF NoFile
    <3>2. n.previous \in Baseline
      <4>1. [index |-> 0, is |-> FALSE] \in Baseline
        BY DEF Baseline
      <4> QED
        BY <3>1, <4>1
    <3>3. ~n.previous.is
      BY <3>1
    <3> QED
      BY <2>1, <3>2, <3>3
  <2>2. CASE Files # 0
    <3>1. n.previous = [index |-> Files - 1, is |-> TRUE] /\ Files - 1 \in Nat
      BY <1>2, <1>3, <2>2 DEF File
    <3>2. n.previous \in Baseline
      <4>1. [index |-> Files - 1, is |-> TRUE] \in Baseline
        BY <3>1 DEF Baseline
      <4> QED
        BY <3>1, <4>1
    <3>3. n.previous.is
      BY <3>1
    <3>4. n.previous.index + 1 = Files /\ Files > 0
      BY <1>2, <2>2, <3>1
    <3> QED
      BY <3>2, <3>3, <3>4
  <2> QED
    BY <2>1, <2>2
<1>5. n \in Schedules /\ n.at = "number"
  BY <1>4 DEF Schedules
<1>6. /\ DOMAIN msched' = DOMAIN msched \cup {z} /\ z \notin DOMAIN msched /\ msched'[z] = n
      /\ \A t \in DOMAIN msched : msched'[t] = msched[t]
  <2> HIDE DEF Schedules
  <2> QED
    BY <1>1, <1>2
<1>7. SchedulesTyped'
  <2>1. Schedules' = Schedules
    BY <1>1 DEF Schedules
  <2>2. msched' \in Seq(Schedules)
    <3> HIDE DEF Schedules
    <3> QED
      BY <1>1, <1>2, <1>5
  <2> QED
    BY <1>1, <2>1, <2>2 DEF MonitorInv, SchedulesTyped
<1>8. Contiguous' /\ AlertsConfirmed' /\ SinksInOrder'
  BY <1>1, <1>2 DEF MonitorInv, Contiguous, AlertsConfirmed, SinksInOrder
<1>9. \A t \in DOMAIN msched' : Placed(msched[t])' /\ Sunk(msched[t])'
  <2> SUFFICES ASSUME NEW t \in DOMAIN msched' PROVE Placed(msched[t])' /\ Sunk(msched[t])'
    OBVIOUS
  <2> PICK m : m = msched'[t]
    OBVIOUS
  <2>1. Placed(m) /\ Sunk(m)
    <3>1. CASE t \in DOMAIN msched
      BY <1>6, <3>1 DEF MonitorInv
    <3>2. CASE t = z
      <4>1. m = n
        BY <1>6, <3>2
      <4>2. n.previous.index \in Nat
        BY <1>4 DEF Baseline
      <4>3. Placed(n)
        BY <1>2, <1>4, <1>5, <4>2 DEF Placed, Before, After
      <4>4. Sunk(n)
        BY <1>5 DEF Sunk, Before, After
      <4> QED
        BY <4>1, <4>3, <4>4
    <3> QED
      BY <1>6, <3>1, <3>2
  <2>2. Placed(m)' /\ Sunk(m)'
    BY <1>1, <1>2, <2>1 DEF Placed, Sunk
  <2>3. Placed(msched[t])'
    BY <2>2 DEF Placed
  <2>4. Sunk(msched[t])'
    BY <2>2 DEF Sunk
  <2> QED
    BY <2>3, <2>4
<1>10. Alone'
  <2> SUFFICES ASSUME ~moverlap, Running = {} PROVE Alone'
    BY <1>1 DEF Alone
  <2>1. Running' \subseteq {z}
    BY <1>6 DEF Running, Is
  <2>2. Follows(n)'
    BY <1>2, <1>4, <1>5 DEF Follows, Before, After
  <2>3. Follows(msched[z])'
    BY <1>6, <2>2 DEF Follows
  <2>4. \A a \in mtold' : Consecutive(a)'
    BY <1>1 DEF MonitorInv, Alone, Consecutive
  <2> QED
    BY <2>1, <2>3, <2>4 DEF Alone
<1> QED
  BY <1>7, <1>8, <1>9, <1>10 DEF MonitorInv

\* Each step of each schedule keeps the invariant.
LEMMA MonitorStep ==
  ASSUME MonitorInv, MonitorNext PROVE MonitorInv'
BY BeginKeeps, NumberKeeps, CancelKeeps, ShowKeeps, IterateKeeps, ScanKeeps, BrokenKeeps, CompareKeeps,
   AppendAlertKeeps, PostWebhookKeeps, NextIterationKeeps, KilledScheduleKeeps DEF MonitorNext

\* And so does a step that is not of a monitor.
LEMMA MonitorStutters ==
  ASSUME MonitorInv, UNCHANGED monitorvars PROVE MonitorInv'
<1> USE DEF monitorvars
<1>1. Files' = Files /\ Running' = Running
  BY DEF Files, Running, Is
<1>2. Contiguous' /\ AlertsConfirmed' /\ SinksInOrder'
  BY <1>1 DEF MonitorInv, Contiguous, AlertsConfirmed, SinksInOrder
<1>3. SchedulesTyped'
  BY DEF MonitorInv, SchedulesTyped, Schedules
<1>4. Alone'
  BY <1>1 DEF MonitorInv, Alone, Consecutive, Follows
<1>5. \A t \in DOMAIN msched' : Placed(msched[t])' /\ Sunk(msched[t])'
  BY <1>1 DEF MonitorInv, Placed, Sunk
<1> QED
  BY <1>2, <1>3, <1>4, <1>5 DEF MonitorInv

\* The invariant says what a monitor is to say.
LEMMA MonitorInvSuffices ==
  ASSUME MonitorInv PROVE ScheduleExact
<1>1. OneAfterAnother
  <2> SUFFICES ASSUME ~moverlap PROVE OneAfterAnother
    BY DEF OneAfterAnother
  <2>1. DOMAIN mfiles = {i \in DOMAIN mfiles : i < Cardinality(DOMAIN mfiles)}
    <3>1. DOMAIN mfiles = 0 .. Files - 1 /\ Files \in Nat
      BY DEF MonitorInv, Contiguous
    <3>2. DOMAIN mfiles = {i \in DOMAIN mfiles : i < Files}
      BY <3>1
    <3> QED
      BY <3>2 DEF Files
  <2>2. \A a \in mtold : Consecutive(a)
    BY DEF MonitorInv, Alone
  <2> QED
    BY <2>1, <2>2 DEF OneAfterAnother, Consecutive
<1> QED
  BY <1>1 DEF MonitorInv, ScheduleExact

\* Whatever its scans come to, however many schedules share its directory and
\* wherever they are cancelled, broken off or killed, a monitor tells of
\* confirmed absences only, of consecutive scans as long as schedules do not
\* overlap, and to each sink in turn (monitor_run.rs, diff.rs).
THEOREM AlertsAreExact == MCSpec => []MonitorExact
<1>1. MCInit => MonitorInv
  BY MonitorStarts DEF MCInit
<1>2. MonitorInv /\ [MCNext]_<<historyvars, monitorvars, focus>> => MonitorInv'
  <2> SUFFICES ASSUME MonitorInv, [MCNext]_<<historyvars, monitorvars, focus>> PROVE MonitorInv'
    OBVIOUS
  <2>1. MonitorNext \/ UNCHANGED monitorvars
    BY DEF MCNext
  <2> QED
    BY <2>1, MonitorStep, MonitorStutters
<1>3. MonitorInv => MonitorExact
  BY MonitorInvSuffices DEF MonitorExact
<1> QED
  BY <1>1, <1>2, <1>3, PTL DEF MCSpec

-----------------------------------------------------------------------------
(* What a comparison of two runs concludes.                                *)

\* A run in the database is what it came to, before its postures or with them.
Stored(run, o) ==
  /\ run.cover = Imported(o).cover /\ run.graph = o.graph /\ run.links = o.links
  /\ run.postures = << >> \/ (o.workflow = "scan" /\ run.postures = o.postures)

\* What a comparison may call removed, and what it must.
Justified(new, old, e) ==
  \/ e \in Missed(old, new) /\ (LookedFor(new, e) \/ TriedAgain(new, old.graph[e]))
  \/ e \in DOMAIN new.postures /\ LookedFor(new, e)
Due(new, old, e) == e \in Missed(old, new) /\ OfScan(e) /\ LookedFor(new, e) /\ e \notin DOMAIN old.postures

\* What was looked at, by a scan, by an investigation.
LEMMA CoverOfScan ==
  ASSUME NEW o, o.workflow = "scan"
  PROVE  /\ \A e : e \in Imported(o).cover.about <=> LookedFor(o, e)
         /\ \A x \in Imported(o).cover.modules : \E t \in o.tasks : t.module = x
         /\ Imported(o).cover.truncated = o.truncated
<1>1. Imported(o).cover = CoverageFromTasks(o.tasks, o.truncated)
  BY DEF Imported
<1> QED
  BY <1>1 DEF CoverageFromTasks, LookedFor

\* What was looked at, and what was repeated, by an investigation.
LEMMA CoverOfInvestigation ==
  ASSUME NEW o, o.workflow = "investigation"
  PROVE  /\ \A e \in Imported(o).cover.about : \E q \in o.observed : q.input = e
         /\ \A x \in Imported(o).cover.modules :
              x = <<"investigate", "seed">> \/ \E q \in o.observed : x = <<"investigate", q.transform>>
<1>1. Imported(o).cover = CoverageFromReport(o.observed, o.truncated)
  BY DEF Imported
<1> QED
  BY <1>1 DEF CoverageFromReport

\* The rows of a run: its postures, and its entities without one.
RowsSay(run, rows) ==
  /\ DOMAIN rows = DOMAIN run.graph \cup DOMAIN run.postures
  /\ \A e : e \in DOMAIN run.postures =>
       rows[e].kind = "tls_posture" /\ rows[e].module = <<"rxscan", "service">>
  /\ \A e : e \in DOMAIN run.graph /\ e \notin DOMAIN run.postures =>
       rows[e].kind = e[1] /\ rows[e].module = run.graph[e]

\* The rows a comparison reads are those.
LEMMA RowsOfRun ==
  ASSUME NEW run, NEW rows, rows = Rows(run)
  PROVE  RowsSay(run, rows)
BY DEF Rows, Row, RowsSay

\* An entity that is gone was in the earlier run's graph, and in the later one
\* is not or is a posture.
LEMMA GoneIsMissed ==
  ASSUME NEW new, NEW old, NEW n, NEW o, Stored(n, new), Stored(o, old), new \in Outcomes,
         NEW kinds, kinds \subseteq {"port", "ip_address", "host", "hostname"}, NEW type,
         NEW c \in Gone(ReadRows(o), ReadRows(n), kinds, type)
  PROVE  Justified(new, old, c.entity)
<1>1. PICK e : /\ e \in OfKind(Rows(o), kinds) \ OfKind(Rows(n), kinds) /\ e \in n.cover.about
               /\ c = Change(type, e)
  BY DEF Gone, ReadRows
<1>2. c.entity = e
  BY <1>1 DEF Change
<1>3. e \in DOMAIN Rows(o) /\ Rows(o)[e].kind \in kinds
  BY <1>1 DEF OfKind
<1>0. RowsSay(o, Rows(o)) /\ RowsSay(n, Rows(n))
  BY RowsOfRun
<1>4. e \in DOMAIN o.graph /\ e[1] \in kinds
  <2>1. Rows(o)[e].kind # "tls_posture"
    BY <1>3
  <2> QED
    BY <1>3, <1>0, <2>1 DEF RowsSay
<1>5. e \in DOMAIN n.postures \/ e \notin DOMAIN n.graph
  <2> SUFFICES ASSUME e \notin DOMAIN n.postures, e \in DOMAIN n.graph PROVE FALSE
    OBVIOUS
  <2>1. e \in DOMAIN Rows(n) /\ Rows(n)[e].kind = e[1]
    BY <1>0 DEF RowsSay
  <2> QED
    BY <1>1, <1>4, <2>1 DEF OfKind
<1>6. CASE new.workflow = "scan"
  <2>1. LookedFor(new, e)
    BY <1>1, <1>6, CoverOfScan DEF Stored
  <2>2. DOMAIN n.postures \subseteq DOMAIN new.postures
    <3>1. DOMAIN << >> = {}
      OBVIOUS
    <3> QED
      BY <3>1 DEF Stored
  <2> QED
    BY <1>2, <1>4, <1>5, <2>1, <2>2 DEF Justified, Missed, Stored
<1>7. CASE new.workflow = "investigation"
  <2>1. e \in DOMAIN new.graph
    BY <1>1, <1>7, CoverOfInvestigation, OutcomesAssumption DEF Stored
  <2>2. n.postures = << >>
    BY <1>7 DEF Stored
  <2>3. DOMAIN << >> = {}
    OBVIOUS
  <2> QED
    BY <1>5, <2>1, <2>2, <2>3 DEF Stored
<1> QED
  BY <1>6, <1>7, OutcomesAssumption

\* What an investigation removes, it looked at again.
LEMMA RepeatedIsMissed ==
  ASSUME NEW new, NEW old, NEW n, NEW o, Stored(n, new), Stored(o, old), new \in Outcomes, old \in Outcomes,
         NEW e \in DOMAIN Rows(o) \ DOMAIN Rows(n), Repeated(ReadRows(n), Rows(o)[e])
  PROVE  Justified(new, old, e)
<1>1. Rows(o)[e].module[1] \in {"investigate", "exposure"} /\ Rows(o)[e].module \in n.cover.modules
  BY DEF Repeated, Investigative, ReadRows
<1>0. RowsSay(o, Rows(o)) /\ RowsSay(n, Rows(n))
  BY RowsOfRun
<1>2. e \notin DOMAIN o.postures
  <2> SUFFICES ASSUME e \in DOMAIN o.postures PROVE FALSE
    OBVIOUS
  <2>1. Rows(o)[e].module[1] = "rxscan"
    BY <1>0 DEF RowsSay
  <2> QED
    BY <1>1, <2>1
<1>3. e \in DOMAIN old.graph /\ Rows(o)[e].module = old.graph[e] /\ e \notin DOMAIN new.graph
  BY <1>2, <1>0 DEF Stored, RowsSay
<1>4. CASE new.workflow = "scan"
  <2>1. PICK t \in new.tasks : t.module = old.graph[e]
    BY <1>1, <1>3, <1>4, CoverOfScan DEF Stored
  <2> QED
    BY <1>3, <1>4, <2>1, OutcomesAssumption
<1>5. CASE new.workflow = "investigation"
  <2>1. \/ old.graph[e] = <<"investigate", "seed">>
        \/ \E q \in new.observed : old.graph[e] = <<"investigate", q.transform>>
    BY <1>1, <1>3, <1>5, CoverOfInvestigation DEF Stored
  <2>2. TriedAgain(new, old.graph[e])
    BY <1>5, <2>1 DEF TriedAgain
  <2> QED
    BY <1>3, <2>2 DEF Justified, Missed
<1> QED
  BY <1>4, <1>5, OutcomesAssumption

\* Entities are told from relationships and matches.
IsEntity(e) == \E p \in Outcomes : e \in DOMAIN p.graph

\* No entity is a match of an advisory or a relationship.
LEMMA EntitiesAreDistinct ==
  ASSUME NEW e, IsEntity(e)
  PROVE  e[1] # "vuln" /\ \A p \in Outcomes : e \notin p.links
BY OutcomesAssumption DEF IsEntity

\* What a comparison of observations and links calls removed is justified.
LEMMA RowRemovals ==
  ASSUME NEW new, NEW old, NEW n, NEW o, Stored(n, new), Stored(o, old), new \in Outcomes, old \in Outcomes,
         NEW c \in RowChanges(ReadRows(o), ReadRows(n)), Removal(c), IsEntity(c.entity)
  PROVE  Justified(new, old, c.entity)
<1> DEFINE O == ReadRows(o)
           N == ReadRows(n)
<1>1. CASE c \in PortChanges(O, N)
  <2>1. c \in Gone(O, N, {"port"}, "closed")
    BY <1>1 DEF PortChanges, Removal, Change
  <2> QED
    BY <2>1, GoneIsMissed
<1>2. CASE c \in HostChanges(O, N)
  <2>1. c \in Gone(O, N, {"ip_address", "host"}, "disappeared")
    BY <1>2 DEF HostChanges, Removal, Change
  <2> QED
    BY <2>1, GoneIsMissed
<1>3. CASE c \in HostnameChanges(O, N)
  <2>1. c \in Gone(O, N, {"hostname"}, "removed")
    BY <1>3 DEF HostnameChanges, Removal, Change
  <2> QED
    BY <2>1, GoneIsMissed
<1>4. CASE c \in LinkChanges(O, N)
  <2>1. PICK l \in O.links \ N.links : c.entity = l
    BY <1>4 DEF LinkChanges, Removal, Change
  <2>2. O.links = old.links
    BY DEF ReadRows, Stored
  <2> QED
    BY <2>1, <2>2, EntitiesAreDistinct
<1>5. CASE c \in InvestigationChanges(O, N)
  <2>1. PICK e \in DOMAIN O.rows \ DOMAIN N.rows : Repeated(N, O.rows[e]) /\ c.entity = e
    BY <1>5 DEF InvestigationChanges, Removal, Change
  <2>2. O.rows = Rows(o) /\ N.rows = Rows(n)
    BY DEF ReadRows
  <2> QED
    BY <2>1, <2>2, RepeatedIsMissed
<1>6. CASE c \in FactChanges(O, N)
  BY <1>6 DEF FactChanges, Differing, Removal
<1> QED
  BY <1>1, <1>2, <1>3, <1>4, <1>5, <1>6 DEF RowChanges

\* What a comparison of the other tables calls removed is no entity.
LEMMA TableRemovals ==
  ASSUME NEW old, NEW new, NEW c \in TableChanges(old, new), Removal(c)
  PROVE  ~IsEntity(c.entity)
<1>1. CASE c \in Differing(old, new)
  BY <1>1 DEF Differing, Removal
<1>2. CASE c \in VulnChanges(old, new)
  <2>1. PICK k : c.entity = <<"vuln", k>>
    BY <1>2 DEF VulnChanges, Change
  <2> QED
    BY <2>1, EntitiesAreDistinct
<1> QED
  BY <1>1, <1>2 DEF TableChanges

\* What is due to be removed is gone.
LEMMA DueIsGone ==
  ASSUME NEW new, NEW old, NEW n, NEW o, Stored(n, new), Stored(o, old), NEW e, Due(new, old, e)
  PROVE  \E c \in RowChanges(ReadRows(o), ReadRows(n)) : c.entity = e /\ Removal(c)
<1> DEFINE O == ReadRows(o)
           N == ReadRows(n)
<1>1. e \in DOMAIN o.graph /\ e \notin DOMAIN o.postures /\ e \notin DOMAIN n.graph /\ e \in N.cover.about
  <2>1. new.workflow = "scan"
    BY DEF Due, LookedFor
  <2>2. e \in N.cover.about
    BY <2>1, CoverOfScan DEF Due, Stored, ReadRows
  <2>3. DOMAIN << >> = {}
    OBVIOUS
  <2> QED
    BY <2>2, <2>3 DEF Due, Missed, Stored
<1>2. O.rows = Rows(o) /\ N.rows = Rows(n)
  BY DEF ReadRows
<1>0. RowsSay(o, O.rows) /\ RowsSay(n, N.rows)
  BY <1>2, RowsOfRun
<1>3. e \in DOMAIN O.rows /\ O.rows[e].kind = e[1]
  BY <1>1, <1>0 DEF RowsSay
<1>4. ASSUME NEW kinds, kinds \subseteq {"port", "ip_address", "host", "hostname"}, e[1] \in kinds, NEW type
      PROVE  Change(type, e) \in Gone(O, N, kinds, type)
  <2>1. e \in OfKind(O.rows, kinds)
    BY <1>3, <1>4 DEF OfKind
  <2>2. e \notin OfKind(N.rows, kinds)
    <3> SUFFICES ASSUME e \in DOMAIN N.rows, N.rows[e].kind \in kinds PROVE FALSE
      BY DEF OfKind
    <3>1. e \in DOMAIN n.postures
      BY <1>1, <1>0 DEF RowsSay
    <3>2. N.rows[e].kind = "tls_posture"
      BY <1>0, <3>1 DEF RowsSay
    <3> QED
      BY <1>4, <3>2
  <2> QED
    BY <1>1, <2>1, <2>2 DEF Gone
<1>5. \A type : Change(type, e).entity = e /\ (type \in {"closed", "disappeared", "removed"} => Removal(Change(type, e)))
  BY DEF Change, Removal
<1>6. CASE e[1] = "port"
  <2>1. Change("closed", e) \in PortChanges(O, N)
    BY <1>4, <1>6 DEF PortChanges
  <2> QED
    BY <1>5, <2>1 DEF RowChanges
<1>7. CASE e[1] = "ip_address"
  <2>1. Change("disappeared", e) \in HostChanges(O, N)
    BY <1>4, <1>7 DEF HostChanges
  <2> QED
    BY <1>5, <2>1 DEF RowChanges
<1>8. CASE e[1] = "hostname"
  <2>1. Change("removed", e) \in HostnameChanges(O, N)
    BY <1>4, <1>8 DEF HostnameChanges
  <2> QED
    BY <1>5, <2>1 DEF RowChanges
<1> QED
  BY <1>6, <1>7, <1>8 DEF Due, OfScan

-----------------------------------------------------------------------------
(* The invariant of the database.                                          *)

HasRun(r, o) == \E i \in DOMAIN himports : himports[i].run = r /\ himports[i].outcome = o
RunFields == {"workflow", "cover", "graph", "links", "facts", "postures", "candidates", "software", "vulns"}

\* Each run was imported once, and is stored as what it came to.
RunsInv ==
  /\ himports \in Seq([run : Nat, outcome : Outcomes])
  /\ \A i, k \in DOMAIN himports : himports[i].run = himports[k].run => i = k
  /\ \A i \in DOMAIN himports : himports[i].run \in DOMAIN hruns
  /\ \A r \in DOMAIN hruns :
       /\ r \in DOMAIN hjobs /\ DOMAIN hruns[r] = RunFields
       /\ \E o \in Outcomes : HasRun(r, o) /\ Stored(hruns[r], o)

\* Of two runs that were imported, the changes are none that is invented, ...
Sound(r, p, changes) ==
  \A new, old \in Outcomes :
    HasRun(r, new) /\ HasRun(p, old) =>
      \A c \in changes : Removal(c) /\ IsEntity(c.entity) => Justified(new, old, c.entity)

\* ... and all that are due.
Whole(r, p, changes) ==
  \A new, old \in Outcomes :
    HasRun(r, new) /\ HasRun(p, old) =>
      \A e : Due(new, old, e) => \E c \in changes : c.entity = e /\ Removal(c)

\* What a process is made of, and what it knows.
Persisting == {"import", "evidence", "intelligence", "posture"}
Comparing == {"rows", "tables", "record"}
Shape(j) ==
  \/ j = Over
  \/ j.at \in Persisting /\ j = [at |-> j.at, run |-> j.run, outcome |-> j.outcome]
  \/ j.at = "note" /\ j = [at |-> j.at, run |-> j.run, outcome |-> j.outcome, events |-> j.events]
  \/ j.at \in Comparing /\ j = [at |-> j.at, run |-> j.run, old |-> j.old, command |-> TRUE, changes |-> j.changes]
  \/ j.at \in Comparing \cup {"attend"}
     /\ j = [at |-> j.at, run |-> j.run, old |-> j.old, command |-> FALSE, outcome |-> j.outcome, changes |-> j.changes]
Knows(w, j) ==
  /\ j.at = "import" => j.run = w /\ w \notin DOMAIN hruns /\ j.outcome \in Outcomes
  /\ j.at \notin {"import", "over"} => j.run \in DOMAIN hruns
  /\ j.at \in {"evidence", "intelligence", "attend", "note", "posture"} \/ (j.at \in Comparing /\ ~j.command) =>
       j.outcome \in Outcomes /\ HasRun(j.run, j.outcome) /\ (j.at # "evidence" => j.outcome.workflow = "scan")
  /\ j.at \in Comparing => j.old \in DOMAIN hruns
  /\ j.at \in {"tables", "record"} => Sound(j.run, j.old, j.changes) /\ Whole(j.run, j.old, j.changes)
JobsInv ==
  /\ \E S : hjobs \in Seq(S)
  /\ \A w \in DOMAIN hjobs : Shape(hjobs[w]) /\ Knows(w, hjobs[w])

\* What is stored of comparisons.
ChangesOf(pair) == {c.change : c \in {d \in hchanges : <<d.new, d.old>> = pair}}
ChangesInv ==
  /\ \A c \in hchanges : c.new \in DOMAIN hruns /\ c.old \in DOMAIN hruns /\ Sound(c.new, c.old, {c.change})
  /\ \A pair \in hcompared : /\ pair[1] \in DOMAIN hruns /\ pair[2] \in DOMAIN hruns /\ pair = <<pair[1], pair[2]>>
                             /\ Whole(pair[1], pair[2], ChangesOf(pair))

\* The table of entities has what it is made of, and says what the runs say.
EntitiesInv ==
  /\ \A e \in DOMAIN hentities : DOMAIN hentities[e] = {"first", "last", "count"}
  /\ EntitiesMatchRuns

DatabaseInv == RunsInv /\ JobsInv /\ ChangesInv /\ EntitiesInv

\* A run came to one thing.
LEMMA OneOutcome ==
  ASSUME RunsInv, NEW r, NEW o, NEW p, HasRun(r, o), HasRun(r, p)
  PROVE  o = p /\ Came(r) = o /\ r \in DOMAIN hruns /\ o \in Outcomes
<1>1. PICK i \in DOMAIN himports : himports[i].run = r /\ himports[i].outcome = o
  BY DEF HasRun
<1>2. \A k \in DOMAIN himports : himports[k].run = r => k = i
  BY <1>1 DEF RunsInv
<1>3. o = p
  BY <1>1, <1>2 DEF HasRun
<1>4. (CHOOSE k \in DOMAIN himports : himports[k].run = r) = i
  BY <1>1, <1>2
<1>5. Came(r) = o
  BY <1>1, <1>4 DEF Came
<1>6. o \in Outcomes
  <2> DEFINE R == [run : Nat, outcome : Outcomes]
  <2>1. himports[i] \in R
    <3>1. himports \in Seq(R)
      BY DEF RunsInv
    <3> HIDE DEF R
    <3> QED
      BY <1>1, <3>1
  <2> QED
    BY <1>1, <2>1
<1> QED
  BY <1>1, <1>3, <1>5, <1>6 DEF RunsInv

\* A run that is stored is what it came to.
LEMMA RunOutcome ==
  ASSUME RunsInv, NEW r \in DOMAIN hruns
  PROVE  Came(r) \in Outcomes /\ HasRun(r, Came(r)) /\ Stored(hruns[r], Came(r))
<1>1. PICK o \in Outcomes : HasRun(r, o) /\ Stored(hruns[r], o)
  BY DEF RunsInv
<1>2. Came(r) = o
  BY <1>1, OneOutcome
<1> QED
  BY <1>1, <1>2

\* An empty database has nothing to be wrong about.
LEMMA HistoryStarts == HistoryInit => DatabaseInv
<1> SUFFICES ASSUME HistoryInit PROVE DatabaseInv
  OBVIOUS
<1> USE DEF HistoryInit
<1>1. DOMAIN hruns = {} /\ DOMAIN hentities = {} /\ DOMAIN hjobs = {} /\ DOMAIN himports = {}
  OBVIOUS
<1>2. RunsInv
  <2>1. himports \in Seq([run : Nat, outcome : Outcomes])
    BY EmptySeq
  <2> QED
    BY <1>1, <2>1 DEF RunsInv
<1>3. JobsInv
  <2>1. hjobs \in Seq({})
    BY EmptySeq
  <2> QED
    BY <1>1, <2>1 DEF JobsInv
<1>4. ChangesInv
  BY DEF ChangesInv
<1>5. EntitiesInv
  BY <1>1 DEF EntitiesInv, EntitiesMatchRuns
<1> QED
  BY <1>2, <1>3, <1>4, <1>5 DEF DatabaseInv

\* What is known of runs that are there stays known.
LEMMA KnownStays ==
  ASSUME NEW r, NEW p, NEW changes,
         \A o : HasRun(r, o)' <=> HasRun(r, o), \A o : HasRun(p, o)' <=> HasRun(p, o)
  PROVE  /\ Sound(r, p, changes) => Sound(r, p, changes)'
         /\ Whole(r, p, changes) => Whole(r, p, changes)'
<1>1. ASSUME Sound(r, p, changes) PROVE Sound(r, p, changes)'
  <2> SUFFICES ASSUME NEW new \in Outcomes, NEW old \in Outcomes, HasRun(r, new)', HasRun(p, old)',
                      NEW c \in changes, Removal(c), IsEntity(c.entity)
               PROVE  Justified(new, old, c.entity)
    BY DEF Sound
  <2>1. HasRun(r, new) /\ HasRun(p, old)
    OBVIOUS
  <2> QED
    BY <1>1, <2>1 DEF Sound
<1>2. ASSUME Whole(r, p, changes) PROVE Whole(r, p, changes)'
  <2> SUFFICES ASSUME NEW new \in Outcomes, NEW old \in Outcomes, HasRun(r, new)', HasRun(p, old)',
                      NEW e, Due(new, old, e)
               PROVE  \E c \in changes : c.entity = e /\ Removal(c)
    BY DEF Whole
  <2>1. HasRun(r, new) /\ HasRun(p, old)
    OBVIOUS
  <2> QED
    BY <1>2, <2>1 DEF Whole
<1> QED
  BY <1>1, <1>2

\* A step of one process that keeps what it should keeps what all know.
LEMMA JobMoves ==
  ASSUME DatabaseInv, NEW w \in DOMAIN hjobs, NEW n, hjobs' = [hjobs EXCEPT ![w] = n],
         Shape(n), Knows(w, n)', DOMAIN hruns \subseteq DOMAIN hruns', DOMAIN hruns' \subseteq DOMAIN hruns \cup {w},
         \A r \in DOMAIN hruns : \A o : HasRun(r, o)' <=> HasRun(r, o)
  PROVE  JobsInv' /\ DOMAIN hjobs' = DOMAIN hjobs
<1>1. PICK S : hjobs \in Seq(S)
  BY DEF DatabaseInv, JobsInv
<1>2. /\ DOMAIN hjobs' = DOMAIN hjobs /\ hjobs'[w] = n
      /\ \A t \in DOMAIN hjobs : t # w => hjobs'[t] = hjobs[t]
  BY <1>1
<1>3. hjobs' \in Seq(S \cup {n})
  <2> PICK T : T = S \cup {n}
    OBVIOUS
  <2>1. hjobs \in Seq(T) /\ n \in T
    BY <1>1
  <2>2. hjobs' \in Seq(T)
    BY <2>1
  <2> QED
    BY <2>2
<1>4. ASSUME NEW t \in DOMAIN hjobs, t # w
      PROVE  Shape(hjobs[t])' /\ Knows(t, hjobs[t])'
  <2> PICK j : j = hjobs[t]
    OBVIOUS
  <2>1. Shape(j) /\ Knows(t, j) /\ hjobs'[t] = j
    BY <1>2, <1>4 DEF DatabaseInv, JobsInv
  <2>2. ASSUME j.at \in {"tables", "record"}
        PROVE  Sound(j.run, j.old, j.changes)' /\ Whole(j.run, j.old, j.changes)'
    <3>1. /\ j.run \in DOMAIN hruns /\ j.old \in DOMAIN hruns
          /\ Sound(j.run, j.old, j.changes) /\ Whole(j.run, j.old, j.changes)
      BY <2>1, <2>2 DEF Knows, Comparing
    <3>2. (\A o : HasRun(j.run, o)' <=> HasRun(j.run, o)) /\ (\A o : HasRun(j.old, o)' <=> HasRun(j.old, o))
      BY <3>1
    <3> QED
      BY <3>1, <3>2, KnownStays
  <2>3. Knows(t, j)'
    <3>1. j.at = "import" => j.run = t /\ t \notin DOMAIN hruns' /\ j.outcome \in Outcomes
      BY <1>4, <2>1 DEF Knows
    <3>2. j.at \notin {"import", "over"} => j.run \in DOMAIN hruns /\ j.run \in DOMAIN hruns'
      BY <2>1 DEF Knows
    <3>3. j.at \in {"evidence", "intelligence", "attend", "note", "posture"} \/ (j.at \in Comparing /\ ~j.command) =>
            j.outcome \in Outcomes /\ HasRun(j.run, j.outcome)' /\ (j.at # "evidence" => j.outcome.workflow = "scan")
      BY <2>1, <3>2 DEF Knows, Comparing
    <3>4. j.at \in Comparing => j.old \in DOMAIN hruns'
      BY <2>1 DEF Knows
    <3> QED
      BY <2>2, <3>1, <3>2, <3>3, <3>4 DEF Knows
  <2>4. Shape(hjobs[t])'
    BY <2>1 DEF Shape
  <2>5. Knows(t, hjobs[t])'
    BY <2>1, <2>3 DEF Knows
  <2> QED
    BY <2>4, <2>5
<1>5. Shape(hjobs[w])'
  BY <1>2 DEF Shape
<1>6. Knows(w, hjobs[w])'
  BY <1>2 DEF Knows
<1>7. \A t \in DOMAIN hjobs' : Shape(hjobs[t])' /\ Knows(t, hjobs[t])'
  BY <1>2, <1>4, <1>5, <1>6
<1> QED
  BY <1>2, <1>3, <1>7 DEF JobsInv

\* What is stored of comparisons stays so while runs are added.
LEMMA ChangesStay ==
  ASSUME ChangesInv, UNCHANGED <<hchanges, hcompared>>, DOMAIN hruns \subseteq DOMAIN hruns',
         \A r \in DOMAIN hruns : \A o : HasRun(r, o)' <=> HasRun(r, o)
  PROVE  ChangesInv'
<1>1. ASSUME NEW c \in hchanges'
      PROVE  c.new \in DOMAIN hruns' /\ c.old \in DOMAIN hruns' /\ Sound(c.new, c.old, {c.change})'
  <2>1. c.new \in DOMAIN hruns /\ c.old \in DOMAIN hruns /\ Sound(c.new, c.old, {c.change})
    BY DEF ChangesInv
  <2> QED
    BY <2>1, KnownStays
<1>2. ASSUME NEW pair \in hcompared'
      PROVE  /\ pair[1] \in DOMAIN hruns' /\ pair[2] \in DOMAIN hruns' /\ pair = <<pair[1], pair[2]>>
             /\ Whole(pair[1], pair[2], ChangesOf(pair))'
  <2> PICK changes : changes = ChangesOf(pair)
    OBVIOUS
  <2>1. pair[1] \in DOMAIN hruns /\ pair[2] \in DOMAIN hruns /\ pair = <<pair[1], pair[2]>> /\ Whole(pair[1], pair[2], changes)
    BY DEF ChangesInv
  <2>2. Whole(pair[1], pair[2], changes)'
    BY <2>1, KnownStays
  <2>3. ChangesOf(pair)' = changes
    BY DEF ChangesOf
  <2>4. Whole(pair[1], pair[2], ChangesOf(pair))'
    BY <2>2, <2>3 DEF Whole
  <2> QED
    BY <2>1, <2>4
<1> QED
  BY <1>1, <1>2 DEF ChangesInv

\* A step that leaves the runs and what is stored of them alone.
LEMMA OnlyJobMoves ==
  ASSUME DatabaseInv, NEW w \in DOMAIN hjobs, NEW n, hjobs' = [hjobs EXCEPT ![w] = n],
         Shape(n), Knows(w, n), UNCHANGED <<hruns, hentities, hchanges, himports, hcompared>>
  PROVE  DatabaseInv'
<1>1. \A r, o : HasRun(r, o)' <=> HasRun(r, o)
  BY DEF HasRun
<1>2. Knows(w, n)'
  <2>1. \A r, p, changes : /\ Sound(r, p, changes) => Sound(r, p, changes)'
                           /\ Whole(r, p, changes) => Whole(r, p, changes)'
    BY <1>1, KnownStays
  <2> QED
    BY <1>1, <2>1 DEF Knows
<1>3. JobsInv' /\ DOMAIN hjobs' = DOMAIN hjobs
  BY <1>1, <1>2, JobMoves
<1>4. RunsInv'
  <2>1. RunsInv
    BY DEF DatabaseInv
  <2>2. \A r \in DOMAIN hruns : /\ r \in DOMAIN hjobs' /\ DOMAIN hruns[r] = RunFields
                                /\ \E o \in Outcomes : HasRun(r, o)' /\ Stored(hruns[r], o)
    BY <1>1, <1>3, <2>1 DEF RunsInv
  <2>3. \A r \in DOMAIN hruns : \E o \in Outcomes : HasRun(r, o)' /\ Stored(hruns[r], o)'
    BY <2>2 DEF Stored
  <2> QED
    BY <2>1, <2>2, <2>3 DEF RunsInv
<1>5. ChangesInv'
  BY <1>1, ChangesStay DEF DatabaseInv
<1>6. EntitiesInv'
  <2>1. EntitiesInv /\ hruns' = hruns /\ hentities' = hentities /\ himports' = himports
    BY DEF DatabaseInv
  <2>2. \A e : Seeing(e)' = Seeing(e)
    BY DEF Seeing
  <2> QED
    BY <2>1, <2>2 DEF EntitiesInv, EntitiesMatchRuns
<1> QED
  BY <1>3, <1>4, <1>5, <1>6 DEF DatabaseInv

\* Another process begins.
LEMMA JobAdded ==
  ASSUME DatabaseInv, NEW n, hjobs' = Append(hjobs, n), Shape(n), NEW z, z = Len(hjobs) + 1,
         z \notin DOMAIN hjobs => Knows(z, n),
         UNCHANGED <<hruns, hentities, hchanges, himports, hcompared>>
  PROVE  DatabaseInv'
<1>0. \A r, o : HasRun(r, o)' <=> HasRun(r, o)
  BY DEF HasRun
<1>1. PICK S : hjobs \in Seq(S)
  BY DEF DatabaseInv, JobsInv
<1>2. /\ DOMAIN hjobs' = DOMAIN hjobs \cup {z} /\ hjobs'[z] = n /\ z \notin DOMAIN hjobs
      /\ \A t \in DOMAIN hjobs : hjobs'[t] = hjobs[t]
  BY <1>1
<1>3. hjobs' \in Seq(S \cup {n})
  <2> PICK T : T = S \cup {n}
    OBVIOUS
  <2>1. hjobs \in Seq(T) /\ n \in T
    BY <1>1
  <2>2. hjobs' \in Seq(T)
    BY <2>1
  <2> QED
    BY <2>2
<1>4. ASSUME NEW t \in DOMAIN hjobs'
      PROVE  Shape(hjobs[t])' /\ Knows(t, hjobs[t])'
  <2> PICK j : j = hjobs'[t]
    OBVIOUS
  <2>1. Shape(j) /\ Knows(t, j)
    BY <1>2 DEF DatabaseInv, JobsInv
  <2>2. \A r, p, changes : /\ Sound(r, p, changes) => Sound(r, p, changes)'
                           /\ Whole(r, p, changes) => Whole(r, p, changes)'
    BY <1>0, KnownStays
  <2>3. Knows(t, j)'
    BY <1>0, <2>1, <2>2 DEF Knows
  <2>4. Shape(hjobs[t])'
    BY <2>1 DEF Shape
  <2>5. Knows(t, hjobs[t])'
    BY <2>3 DEF Knows
  <2> QED
    BY <2>4, <2>5
<1>5. JobsInv'
  BY <1>3, <1>4 DEF JobsInv
<1>6. RunsInv'
  <2>1. RunsInv
    BY DEF DatabaseInv
  <2>2. \A r \in DOMAIN hruns : /\ r \in DOMAIN hjobs' /\ DOMAIN hruns[r] = RunFields
                                /\ \E o \in Outcomes : HasRun(r, o)' /\ Stored(hruns[r], o)
    BY <1>0, <1>2, <2>1 DEF RunsInv
  <2>3. \A r \in DOMAIN hruns : \E o \in Outcomes : HasRun(r, o)' /\ Stored(hruns[r], o)'
    BY <2>2 DEF Stored
  <2> QED
    BY <2>1, <2>2, <2>3 DEF RunsInv
<1>7. ChangesInv'
  BY <1>0, ChangesStay DEF DatabaseInv
<1>8. EntitiesInv'
  <2>1. EntitiesInv /\ hruns' = hruns /\ hentities' = hentities /\ himports' = himports
    BY DEF DatabaseInv
  <2>2. \A e : Seeing(e)' = Seeing(e)
    BY DEF Seeing
  <2> QED
    BY <2>1, <2>2 DEF EntitiesInv, EntitiesMatchRuns
<1> QED
  BY <1>5, <1>6, <1>7, <1>8 DEF DatabaseInv

\* A run that ends has yet to be imported.
LEMMA FinishKeeps ==
  ASSUME DatabaseInv, Finish PROVE DatabaseInv'
<1> PICK z : z = Len(hjobs) + 1
  OBVIOUS
<1>1. PICK o \in Outcomes : hjobs' = Append(hjobs, [at |-> "import", run |-> z, outcome |-> o])
  BY DEF Finish
<1> PICK n : n = [at |-> "import", run |-> z, outcome |-> o]
  OBVIOUS
<1>2. n.at = "import" /\ n.run = z /\ n.outcome = o
  OBVIOUS
<1>3. Shape(n)
  BY DEF Shape, Persisting
<1>4. z \notin DOMAIN hjobs => Knows(z, n)
  <2>1. DOMAIN hruns \subseteq DOMAIN hjobs
    BY DEF DatabaseInv, RunsInv
  <2> QED
    BY <1>2, <2>1 DEF Knows, Comparing
<1>5. UNCHANGED <<hruns, hentities, hchanges, himports, hcompared>>
  BY DEF Finish
<1> QED
  BY <1>1, <1>3, <1>4, <1>5, JobAdded

\* A command compares runs that are there.
LEMMA DiffCommandKeeps ==
  ASSUME DatabaseInv, DiffCommand PROVE DatabaseInv'
<1> PICK z : z = Len(hjobs) + 1
  OBVIOUS
<1>1. PICK new \in DOMAIN hruns, old \in DOMAIN hruns :
        hjobs' = Append(hjobs, [at |-> "rows", run |-> new, old |-> old, command |-> TRUE, changes |-> {}])
  BY DEF DiffCommand
<1> PICK n : n = [at |-> "rows", run |-> new, old |-> old, command |-> TRUE, changes |-> {}]
  OBVIOUS
<1>2. n.at = "rows" /\ n.run = new /\ n.old = old /\ n.command
  OBVIOUS
<1>3. Shape(n)
  BY DEF Shape, Comparing
<1>4. Knows(z, n)
  BY <1>2 DEF Knows, Comparing
<1>5. UNCHANGED <<hruns, hentities, hchanges, himports, hcompared>>
  BY DEF DiffCommand
<1> QED
  BY <1>1, <1>3, <1>4, <1>5, JobAdded

\* A process that is over knows nothing.
LEMMA OverIsFit ==
  ASSUME NEW w PROVE Shape(Over) /\ Knows(w, Over)
<1>1. Over.at = "over"
  BY DEF Over
<1> QED
  BY <1>1 DEF Shape, Knows, Comparing

\* A process that is killed, or that stores its evidence, is over.
LEMMA KilledKeeps ==
  ASSUME DatabaseInv, NEW w \in DOMAIN hjobs, Killed(w) \/ StoreEvidence(w) PROVE DatabaseInv'
<1> PICK n : n = Over
  OBVIOUS
<1>1. hjobs' = [hjobs EXCEPT ![w] = n] /\ UNCHANGED <<hruns, hentities, hchanges, himports, hcompared>>
  BY DEF Killed, StoreEvidence, Goes
<1>2. Shape(n) /\ Knows(w, n)
  BY OverIsFit
<1> QED
  BY <1>1, <1>2, OnlyJobMoves

\* What a process knows, by where it is.
LEMMA AtStep ==
  ASSUME DatabaseInv, NEW w \in DOMAIN hjobs, NEW j, j = hjobs[w]
  PROVE  /\ Knows(w, j)
         /\ j.at \in Persisting => j = [at |-> j.at, run |-> j.run, outcome |-> j.outcome]
         /\ j.at = "note" => j = [at |-> j.at, run |-> j.run, outcome |-> j.outcome, events |-> j.events]
         /\ j.at \in Comparing =>
              \/ j = [at |-> j.at, run |-> j.run, old |-> j.old, command |-> TRUE, changes |-> j.changes]
              \/ j = [at |-> j.at, run |-> j.run, old |-> j.old, command |-> FALSE, outcome |-> j.outcome,
                      changes |-> j.changes]
         /\ j.at = "attend" =>
              j = [at |-> j.at, run |-> j.run, old |-> j.old, command |-> FALSE, outcome |-> j.outcome,
                   changes |-> j.changes]
<1>1. Shape(j) /\ Knows(w, j)
  BY DEF DatabaseInv, JobsInv
<1>2. Over.at = "over"
  BY DEF Over
<1> QED
  BY <1>1, <1>2 DEF Shape, Persisting, Comparing

\* What deserves attention is read, not written.
LEMMA GenerateAttentionKeeps ==
  ASSUME DatabaseInv, NEW w \in DOMAIN hjobs, GenerateAttention(w) PROVE DatabaseInv'
<1> PICK j : j = hjobs[w]
  OBVIOUS
<1>1. j.at = "attend"
  BY DEF GenerateAttention, At
<1> PICK events : events = Attention(hruns[j.run], Previous(j.run))
  OBVIOUS
<1> PICK n : n = [at |-> "note", run |-> j.run, outcome |-> j.outcome, events |-> events]
  OBVIOUS
<1>2. hjobs' = [hjobs EXCEPT ![w] = n] /\ UNCHANGED <<hruns, hentities, hchanges, himports, hcompared>>
  BY DEF GenerateAttention, Goes
<1>3. Shape(n)
  BY DEF Shape
<1>4. Knows(w, n)
  <2>1. Knows(w, j)
    BY AtStep
  <2>2. n.at = "note" /\ n.run = j.run /\ n.outcome = j.outcome
    OBVIOUS
  <2> QED
    BY <1>1, <2>1, <2>2 DEF Knows, Comparing
<1> QED
  BY <1>2, <1>3, <1>4, OnlyJobMoves

\* What deserves attention is stored in a table of its own.
LEMMA RecordAttentionKeeps ==
  ASSUME DatabaseInv, NEW w \in DOMAIN hjobs, RecordAttention(w) PROVE DatabaseInv'
<1> PICK j : j = hjobs[w]
  OBVIOUS
<1>1. j.at = "note"
  BY DEF RecordAttention, At
<1> PICK n : n = [at |-> "posture", run |-> j.run, outcome |-> j.outcome]
  OBVIOUS
<1>2. hjobs' = [hjobs EXCEPT ![w] = n] /\ UNCHANGED <<hruns, hentities, hchanges, himports, hcompared>>
  BY DEF RecordAttention, Goes
<1>3. Shape(n)
  BY DEF Shape, Persisting
<1>4. Knows(w, n)
  <2>1. Knows(w, j)
    BY AtStep
  <2>2. n.at = "posture" /\ n.run = j.run /\ n.outcome = j.outcome
    OBVIOUS
  <2> QED
    BY <1>1, <2>1, <2>2 DEF Knows, Comparing
<1> QED
  BY <1>2, <1>3, <1>4, OnlyJobMoves

\* Comparing the rows of two runs finds what is due and invents nothing.
LEMMA RowsCompared ==
  ASSUME RunsInv, NEW r \in DOMAIN hruns, NEW p \in DOMAIN hruns, NEW changes,
         changes = RowChanges(ReadRows(hruns[p]), ReadRows(hruns[r]))
  PROVE  Sound(r, p, changes) /\ Whole(r, p, changes)
<1>1. ASSUME NEW new \in Outcomes, NEW old \in Outcomes, HasRun(r, new), HasRun(p, old)
      PROVE  Stored(hruns[r], new) /\ Stored(hruns[p], old)
  <2>1. new = Came(r) /\ old = Came(p)
    BY <1>1, OneOutcome
  <2> QED
    BY <2>1, RunOutcome
<1>2. Sound(r, p, changes)
  <2> SUFFICES ASSUME NEW new \in Outcomes, NEW old \in Outcomes, HasRun(r, new), HasRun(p, old),
                      NEW c \in changes, Removal(c), IsEntity(c.entity)
               PROVE  Justified(new, old, c.entity)
    BY DEF Sound
  <2>1. Stored(hruns[r], new) /\ Stored(hruns[p], old)
    BY <1>1
  <2> QED
    BY <2>1, RowRemovals
<1>3. Whole(r, p, changes)
  <2> SUFFICES ASSUME NEW new \in Outcomes, NEW old \in Outcomes, HasRun(r, new), HasRun(p, old),
                      NEW e, Due(new, old, e)
               PROVE  \E c \in changes : c.entity = e /\ Removal(c)
    BY DEF Whole
  <2>1. Stored(hruns[r], new) /\ Stored(hruns[p], old)
    BY <1>1
  <2> QED
    BY <2>1, DueIsGone
<1> QED
  BY <1>2, <1>3

\* A comparison that goes on, of a command or of a scan.
OfCommand(a, r, p, changes) == [at |-> a, run |-> r, old |-> p, command |-> TRUE, changes |-> changes]
OfScanning(a, r, p, o, changes) ==
  [at |-> a, run |-> r, old |-> p, command |-> FALSE, outcome |-> o, changes |-> changes]
Advanced(j, to, changes) == [j EXCEPT !.at = to, !.changes = changes]

\* A command's comparison is still one after a step.
LEMMA CommandAdvances ==
  ASSUME NEW a, NEW r, NEW p, NEW before, NEW to, NEW changes
  PROVE  Advanced(OfCommand(a, r, p, before), to, changes) = OfCommand(to, r, p, changes)
<1> PICK j : j = OfCommand(a, r, p, before)
  OBVIOUS
<1> PICK n : n = [j EXCEPT !.at = to, !.changes = changes]
  OBVIOUS
<1>1. n = [at |-> to, run |-> r, old |-> p, command |-> TRUE, changes |-> changes]
  BY DEF OfCommand
<1> QED
  BY <1>1 DEF Advanced, OfCommand

\* And so is a scan's.
LEMMA ScanningAdvances ==
  ASSUME NEW a, NEW r, NEW p, NEW o, NEW before, NEW to, NEW changes
  PROVE  Advanced(OfScanning(a, r, p, o, before), to, changes) = OfScanning(to, r, p, o, changes)
<1> PICK j : j = OfScanning(a, r, p, o, before)
  OBVIOUS
<1> PICK n : n = [j EXCEPT !.at = to, !.changes = changes]
  OBVIOUS
<1>1. n = [at |-> to, run |-> r, old |-> p, command |-> FALSE, outcome |-> o, changes |-> changes]
  BY DEF OfScanning
<1> QED
  BY <1>1 DEF Advanced, OfScanning

\* A scan whose comparison is recorded turns to what deserves attention.
Turned(j, to) == [j EXCEPT !.at = to]
LEMMA ScanningAttends ==
  ASSUME NEW a, NEW r, NEW p, NEW o, NEW changes, NEW to
  PROVE  Turned(OfScanning(a, r, p, o, changes), to) = OfScanning(to, r, p, o, changes)
<1> PICK j : j = OfScanning(a, r, p, o, changes)
  OBVIOUS
<1> PICK n : n = [j EXCEPT !.at = to]
  OBVIOUS
<1>1. n = [at |-> to, run |-> r, old |-> p, command |-> FALSE, outcome |-> o, changes |-> changes]
  BY DEF OfScanning
<1> QED
  BY <1>1 DEF Turned, OfScanning

\* What a comparison that goes on is made of, and knows.
LEMMA ComparisonGoesOn ==
  ASSUME DatabaseInv, NEW w \in DOMAIN hjobs, NEW j, j = hjobs[w], j.at \in Comparing,
         NEW to \in {"tables", "record"}, NEW changes, NEW n, n = Advanced(j, to, changes),
         Sound(j.run, j.old, changes), Whole(j.run, j.old, changes)
  PROVE  Shape(n) /\ Knows(w, n)
<1>1. Knows(w, j)
  BY AtStep
<1>2. j.run \in DOMAIN hruns /\ j.old \in DOMAIN hruns
  BY <1>1 DEF Knows, Comparing
<1>3. \/ j = OfCommand(j.at, j.run, j.old, j.changes)
      \/ j = OfScanning(j.at, j.run, j.old, j.outcome, j.changes)
  BY AtStep DEF OfCommand, OfScanning
<1>4. CASE j = OfCommand(j.at, j.run, j.old, j.changes)
  <2>1. n = OfCommand(to, j.run, j.old, changes)
    BY <1>4, CommandAdvances
  <2>2. n.at = to /\ n.run = j.run /\ n.old = j.old /\ n.changes = changes
    BY <2>1 DEF OfCommand
  <2>3. n.command
    BY <2>1 DEF OfCommand
  <2>4. n = OfCommand(n.at, n.run, n.old, n.changes) /\ n.at \in Comparing
    BY <2>1, <2>2 DEF Comparing
  <2>5. Shape(n)
    BY <2>4 DEF Shape, OfCommand
  <2>6. Knows(w, n)
    BY <1>2, <2>2, <2>3 DEF Knows, Comparing
  <2> QED
    BY <2>5, <2>6
<1>5. CASE j = OfScanning(j.at, j.run, j.old, j.outcome, j.changes)
  <2>1. n = OfScanning(to, j.run, j.old, j.outcome, changes)
    BY <1>5, ScanningAdvances
  <2>2. n.at = to /\ n.run = j.run /\ n.old = j.old /\ n.outcome = j.outcome /\ n.changes = changes
    BY <2>1 DEF OfScanning
  <2>3. ~j.command
    BY <1>5 DEF OfScanning
  <2>4. n = OfScanning(n.at, n.run, n.old, n.outcome, n.changes) /\ n.at \in Comparing
    BY <2>1, <2>2 DEF Comparing
  <2>5. Shape(n)
    BY <2>4 DEF Shape, OfScanning
  <2>6. j.outcome \in Outcomes /\ HasRun(j.run, j.outcome) /\ j.outcome.workflow = "scan"
    BY <1>1, <2>3 DEF Knows, Comparing
  <2>7. Knows(w, n)
    BY <1>2, <2>2, <2>6 DEF Knows, Comparing
  <2> QED
    BY <2>5, <2>7
<1> QED
  BY <1>3, <1>4, <1>5

\* The first half of a comparison finds all that is due.
LEMMA CompareRowsKeeps ==
  ASSUME DatabaseInv, NEW w \in DOMAIN hjobs, CompareRows(w) PROVE DatabaseInv'
<1> PICK j : j = hjobs[w]
  OBVIOUS
<1>1. j.at = "rows"
  BY DEF CompareRows, At
<1> PICK changes : changes = RowChanges(ReadRows(hruns[j.old]), ReadRows(hruns[j.run]))
  OBVIOUS
<1> PICK n : n = Advanced(j, "tables", changes)
  OBVIOUS
<1>2. hjobs' = [hjobs EXCEPT ![w] = n] /\ UNCHANGED <<hruns, hentities, hchanges, himports, hcompared>>
  BY DEF CompareRows, Goes, Advanced
<1>3. j.run \in DOMAIN hruns /\ j.old \in DOMAIN hruns
  BY <1>1, AtStep DEF Knows, Comparing
<1>4. Sound(j.run, j.old, changes) /\ Whole(j.run, j.old, changes)
  BY <1>3, RowsCompared DEF DatabaseInv
<1>5. Shape(n) /\ Knows(w, n)
  BY <1>1, <1>4, ComparisonGoesOn DEF Comparing
<1> QED
  BY <1>2, <1>5, OnlyJobMoves

\* The second half adds no removal of an entity.
LEMMA CompareTablesKeeps ==
  ASSUME DatabaseInv, NEW w \in DOMAIN hjobs, CompareTables(w) PROVE DatabaseInv'
<1> PICK j : j = hjobs[w]
  OBVIOUS
<1>1. j.at = "tables"
  BY DEF CompareTables, At
<1>2. Knows(w, j) /\ \/ j = OfCommand(j.at, j.run, j.old, j.changes)
                     \/ j = OfScanning(j.at, j.run, j.old, j.outcome, j.changes)
  BY <1>1, AtStep DEF Comparing, OfCommand, OfScanning
<1> PICK more : more = TableChanges(ReadTables(hruns[j.old]), ReadTables(hruns[j.run]))
  OBVIOUS
<1> PICK changes : changes = j.changes \cup more
  OBVIOUS
<1> PICK n : n = Advanced(j, "record", changes)
  OBVIOUS
<1>3. hjobs' = [hjobs EXCEPT ![w] = n] /\ UNCHANGED <<hruns, hentities, hchanges, himports, hcompared>>
  <2>1. n = [j EXCEPT !.at = "record", !.changes = @ \cup more]
    BY <1>2 DEF Advanced, OfCommand, OfScanning
  <2> QED
    BY <2>1 DEF CompareTables, Goes
<1>4. Sound(j.run, j.old, j.changes) /\ Whole(j.run, j.old, j.changes)
  BY <1>1, <1>2 DEF Knows
<1>5. \A c \in more : Removal(c) => ~IsEntity(c.entity)
  BY TableRemovals
<1>6. Sound(j.run, j.old, changes)
  BY <1>4, <1>5 DEF Sound
<1>7. Whole(j.run, j.old, changes)
  BY <1>4 DEF Whole
<1>8. Shape(n) /\ Knows(w, n)
  BY <1>1, <1>6, <1>7, ComparisonGoesOn DEF Comparing
<1> QED
  BY <1>3, <1>8, OnlyJobMoves

\* What is stored of a comparison is what it found.
LEMMA RecordedIsFound ==
  ASSUME ChangesInv, NEW r \in DOMAIN hruns, NEW p \in DOMAIN hruns, NEW changes,
         Sound(r, p, changes), Whole(r, p, changes), UNCHANGED <<hruns, himports>>,
         hchanges' = hchanges \cup {[new |-> r, old |-> p, change |-> c] : c \in changes},
         hcompared' = hcompared \/ hcompared' = hcompared \cup {<<r, p>>}
  PROVE  ChangesInv'
<1>1. \A q, o : HasRun(q, o)' <=> HasRun(q, o)
  BY DEF HasRun
<1>2. ASSUME NEW c \in hchanges'
      PROVE  c.new \in DOMAIN hruns' /\ c.old \in DOMAIN hruns' /\ Sound(c.new, c.old, {c.change})'
  <2>1. c.new \in DOMAIN hruns /\ c.old \in DOMAIN hruns /\ Sound(c.new, c.old, {c.change})
    <3>1. CASE c \in hchanges
      BY <3>1 DEF ChangesInv
    <3>2. CASE c \notin hchanges
      <4>1. PICK d \in changes : c = [new |-> r, old |-> p, change |-> d]
        BY <3>2
      <4>2. c.new = r /\ c.old = p /\ c.change = d
        BY <4>1
      <4>3. Sound(r, p, {d})
        BY DEF Sound
      <4> QED
        BY <4>2, <4>3
    <3> QED
      BY <3>1, <3>2
  <2> QED
    BY <1>1, <2>1, KnownStays
<1>3. ASSUME NEW pair \in hcompared'
      PROVE  /\ pair[1] \in DOMAIN hruns' /\ pair[2] \in DOMAIN hruns' /\ pair = <<pair[1], pair[2]>>
             /\ Whole(pair[1], pair[2], ChangesOf(pair))'
  <2> PICK found : found = ChangesOf(pair)'
    OBVIOUS
  <2>1. ChangesOf(pair) \subseteq found
    BY DEF ChangesOf
  <2>2. /\ pair[1] \in DOMAIN hruns /\ pair[2] \in DOMAIN hruns /\ pair = <<pair[1], pair[2]>>
        /\ Whole(pair[1], pair[2], found)
    <3>1. CASE pair \in hcompared
      <4>1. /\ pair[1] \in DOMAIN hruns /\ pair[2] \in DOMAIN hruns /\ pair = <<pair[1], pair[2]>>
            /\ Whole(pair[1], pair[2], ChangesOf(pair))
        BY <3>1 DEF ChangesInv
      <4>2. Whole(pair[1], pair[2], found)
        BY <2>1, <4>1 DEF Whole
      <4> QED
        BY <4>1, <4>2
    <3>2. CASE pair \notin hcompared
      <4>1. pair = <<r, p>> /\ pair[1] = r /\ pair[2] = p
        BY <3>2
      <4>2. changes \subseteq found
        <5> SUFFICES ASSUME NEW d \in changes PROVE d \in ChangesOf(pair)'
          OBVIOUS
        <5> PICK c : c = [new |-> r, old |-> p, change |-> d]
          OBVIOUS
        <5>1. c \in hchanges' /\ <<c.new, c.old>> = pair /\ c.change = d
          BY <4>1
        <5> QED
          BY <5>1 DEF ChangesOf
      <4>3. Whole(r, p, found)
        BY <4>2 DEF Whole
      <4> QED
        BY <4>1, <4>3
    <3> QED
      BY <3>1, <3>2
  <2>3. Whole(pair[1], pair[2], found)'
    BY <1>1, <2>2, KnownStays
  <2>4. Whole(pair[1], pair[2], ChangesOf(pair))'
    BY <2>3 DEF Whole
  <2> QED
    BY <2>2, <2>4
<1> QED
  BY <1>2, <1>3 DEF ChangesInv

\* While no run is imported the entities and the runs stay as they are.
LEMMA RunsStay ==
  ASSUME RunsInv, EntitiesInv, UNCHANGED <<hruns, hentities, himports>>, DOMAIN hjobs \subseteq DOMAIN hjobs'
  PROVE  RunsInv' /\ EntitiesInv'
<1>1. \A r, o : HasRun(r, o)' <=> HasRun(r, o)
  BY DEF HasRun
<1>2. RunsInv'
  <2>1. \A r \in DOMAIN hruns : /\ r \in DOMAIN hjobs' /\ DOMAIN hruns[r] = RunFields
                                /\ \E o \in Outcomes : HasRun(r, o)' /\ Stored(hruns[r], o)
    BY <1>1 DEF RunsInv
  <2>2. \A r \in DOMAIN hruns : \E o \in Outcomes : HasRun(r, o)' /\ Stored(hruns[r], o)'
    BY <2>1 DEF Stored
  <2> QED
    BY <2>1, <2>2 DEF RunsInv
<1>3. EntitiesInv'
  <2>1. \A e : Seeing(e)' = Seeing(e)
    BY DEF Seeing
  <2> QED
    BY <2>1 DEF EntitiesInv, EntitiesMatchRuns
<1> QED
  BY <1>2, <1>3

\* A comparison is stored as it was made.
LEMMA RecordChangesKeeps ==
  ASSUME DatabaseInv, NEW w \in DOMAIN hjobs, RecordChanges(w) PROVE DatabaseInv'
<1> PICK j : j = hjobs[w]
  OBVIOUS
<1>1. j.at = "record"
  BY DEF RecordChanges, At
<1>2. Knows(w, j) /\ \/ j = OfCommand(j.at, j.run, j.old, j.changes)
                     \/ j = OfScanning(j.at, j.run, j.old, j.outcome, j.changes)
  BY <1>1, AtStep DEF Comparing, OfCommand, OfScanning
<1>3. /\ j.run \in DOMAIN hruns /\ j.old \in DOMAIN hruns
      /\ Sound(j.run, j.old, j.changes) /\ Whole(j.run, j.old, j.changes)
  BY <1>1, <1>2 DEF Knows, Comparing
<1>4. UNCHANGED <<hruns, hentities, himports>>
  BY DEF RecordChanges
<1>5. ChangesInv'
  <2>1. hchanges' = hchanges \cup {[new |-> j.run, old |-> j.old, change |-> c] : c \in j.changes}
    BY DEF RecordChanges
  <2>2. hcompared' = hcompared \/ hcompared' = hcompared \cup {<<j.run, j.old>>}
    BY DEF RecordChanges
  <2> QED
    BY <1>3, <1>4, <2>1, <2>2, RecordedIsFound DEF DatabaseInv
<1>6. \A r \in DOMAIN hruns : \A o : HasRun(r, o)' <=> HasRun(r, o)
  BY <1>4 DEF HasRun
<1>7. PICK n : hjobs' = [hjobs EXCEPT ![w] = n] /\ Shape(n) /\ Knows(w, n)
  <2>1. CASE j = OfCommand(j.at, j.run, j.old, j.changes)
    <3>1. j.command
      BY <2>1 DEF OfCommand
    <3>2. hjobs' = [hjobs EXCEPT ![w] = Over]
      BY <3>1 DEF RecordChanges, Goes
    <3> QED
      BY <3>2, OverIsFit
  <2>2. CASE j = OfScanning(j.at, j.run, j.old, j.outcome, j.changes)
    <3>1. ~j.command
      BY <2>2 DEF OfScanning
    <3> PICK n : n = [j EXCEPT !.at = "attend"]
      OBVIOUS
    <3>2. hjobs' = [hjobs EXCEPT ![w] = n]
      BY <3>1 DEF RecordChanges, Goes
    <3>3. n = OfScanning("attend", j.run, j.old, j.outcome, j.changes)
      BY <2>2, ScanningAttends DEF Turned
    <3>4. n.at = "attend" /\ n.run = j.run /\ n.old = j.old /\ n.outcome = j.outcome /\ n.changes = j.changes
      BY <3>3 DEF OfScanning
    <3>5. n = OfScanning(n.at, n.run, n.old, n.outcome, n.changes)
      BY <3>3, <3>4
    <3>6. Shape(n)
      BY <3>4, <3>5 DEF Shape, OfScanning
    <3>7. Knows(w, n)
      BY <1>1, <1>2, <3>1, <3>4 DEF Knows, Comparing
    <3> QED
      BY <3>2, <3>6, <3>7
  <2> QED
    BY <1>2, <2>1, <2>2
<1>8. Knows(w, n)'
  <2>1. \A r, p, changes : /\ Sound(r, p, changes) => Sound(r, p, changes)'
                           /\ Whole(r, p, changes) => Whole(r, p, changes)'
    <3>1. \A r, o : HasRun(r, o)' <=> HasRun(r, o)
      BY <1>4 DEF HasRun
    <3> QED
      BY <3>1, KnownStays
  <2>2. \A r, o : HasRun(r, o)' <=> HasRun(r, o)
    BY <1>4 DEF HasRun
  <2> QED
    BY <1>4, <1>7, <2>1, <2>2 DEF Knows
<1>9. JobsInv' /\ DOMAIN hjobs' = DOMAIN hjobs
  BY <1>4, <1>6, <1>7, <1>8, JobMoves
<1> QED
  BY <1>4, <1>5, <1>9, RunsStay DEF DatabaseInv

\* The imports of runs that saw an entity are finitely many, and none saw an
\* entity that is not in the table.
LEMMA SeeingIsBounded ==
  ASSUME RunsInv, EntitiesInv, NEW e
  PROVE  /\ Seeing(e) \subseteq 1..Len(himports) /\ IsFiniteSet(Seeing(e)) /\ Cardinality(Seeing(e)) \in Nat
         /\ e \notin DOMAIN hentities => Seeing(e) = {}
<1> DEFINE S == Seeing(e)
           n == Len(himports)
<1>1. n \in Nat /\ DOMAIN himports = 1..n
  <2> PICK R : himports \in Seq(R)
    BY DEF RunsInv
  <2> QED
    OBVIOUS
<1>2. S \subseteq 1..n
  BY <1>1 DEF Seeing
<1>3. ASSUME NEW i \in S PROVE e \in DOMAIN hentities
  <2>1. i \in DOMAIN himports /\ e \in DOMAIN himports[i].outcome.graph
    BY DEF Seeing
  <2> PICK r : r = himports[i].run
    OBVIOUS
  <2>2. r \in DOMAIN hruns
    BY <2>1 DEF RunsInv
  <2>3. HasRun(r, himports[i].outcome)
    BY <2>1 DEF HasRun
  <2>4. Came(r) = himports[i].outcome
    BY <2>3, OneOutcome
  <2>5. hruns[r].graph = himports[i].outcome.graph
    BY <2>2, <2>4, RunOutcome DEF Stored
  <2> QED
    BY <2>1, <2>2, <2>5 DEF EntitiesInv, EntitiesMatchRuns
<1>4. IsFiniteSet(S)
  <2> HIDE DEF S, n
  <2>1. 0 \in Nat
    OBVIOUS
  <2>2. IsFiniteSet(1..n)
    BY <1>1, FS_Interval
  <2> QED
    BY <1>2, <2>2, FS_Subset
<1>5. Cardinality(S) \in Nat
  <2> HIDE DEF S
  <2> QED
    BY <1>4, FS_CardinalityType
<1> QED
  BY <1>2, <1>3, <1>4, <1>5

\* A run is imported once, after all that were.
LEMMA ImportIsNew ==
  ASSUME RunsInv, NEW w, w \notin DOMAIN hruns, NEW o, NEW z, z = Len(himports) + 1,
         himports' = Append(himports, [run |-> w, outcome |-> o])
  PROVE  /\ z \in Nat /\ z \notin DOMAIN himports /\ DOMAIN himports' = DOMAIN himports \cup {z}
         /\ himports'[z].run = w /\ himports'[z].outcome = o
         /\ \A i \in DOMAIN himports : i \in Nat /\ i < z /\ himports'[i] = himports[i] /\ himports[i].run # w
         /\ \A r \in DOMAIN hruns : \A p : HasRun(r, p)' <=> HasRun(r, p)
         /\ HasRun(w, o)'
<1> PICK m : m = [run |-> w, outcome |-> o]
  OBVIOUS
<1>1. m.run = w /\ m.outcome = o
  OBVIOUS
<1>2. /\ z \in Nat /\ z \notin DOMAIN himports /\ DOMAIN himports' = DOMAIN himports \cup {z} /\ himports'[z] = m
      /\ \A i \in DOMAIN himports : i \in Nat /\ i < z /\ himports'[i] = himports[i]
  <2> PICK R : himports \in Seq(R)
    BY DEF RunsInv
  <2> QED
    OBVIOUS
<1>3. \A i \in DOMAIN himports : himports[i].run # w
  BY DEF RunsInv
<1>4. ASSUME NEW r \in DOMAIN hruns, NEW p PROVE HasRun(r, p)' <=> HasRun(r, p)
  BY <1>1, <1>2 DEF HasRun
<1>5. HasRun(w, o)'
  BY <1>1, <1>2 DEF HasRun
<1> QED
  BY <1>1, <1>2, <1>3, <1>4, <1>5

\* What a run is stored as when it is imported.
LEMMA ImportedIsStored ==
  ASSUME NEW o
  PROVE  /\ Stored(Imported(o), o) /\ DOMAIN Imported(o) = RunFields
         /\ Imported(o).graph = o.graph /\ Imported(o).workflow = o.workflow
<1>1. Imported(o).graph = o.graph /\ Imported(o).links = o.links /\ Imported(o).postures = << >>
  BY DEF Imported
<1>2. Imported(o).workflow = o.workflow
  BY DEF Imported
<1>3. DOMAIN Imported(o) = RunFields
  BY DEF Imported, RunFields
<1> QED
  BY <1>1, <1>2, <1>3 DEF Stored

\* The runs after an import.
LEMMA RunsGrow ==
  ASSUME RunsInv, NEW w \in DOMAIN hjobs, w \in Nat, w \notin DOMAIN hruns, NEW o \in Outcomes, NEW run, run = Imported(o),
         himports' = Append(himports, [run |-> w, outcome |-> o]),
         hruns' = [r \in DOMAIN hruns \cup {w} |-> IF r = w THEN run ELSE hruns[r]],
         DOMAIN hjobs' = DOMAIN hjobs
  PROVE  RunsInv'
<1> PICK z : z = Len(himports) + 1
  OBVIOUS
<1>1. /\ z \in Nat /\ z \notin DOMAIN himports /\ DOMAIN himports' = DOMAIN himports \cup {z}
      /\ himports'[z].run = w /\ himports'[z].outcome = o
      /\ \A i \in DOMAIN himports : i \in Nat /\ i < z /\ himports'[i] = himports[i] /\ himports[i].run # w
      /\ \A r \in DOMAIN hruns : \A p : HasRun(r, p)' <=> HasRun(r, p)
      /\ HasRun(w, o)'
  BY ImportIsNew
<1>2. himports' \in Seq([run : Nat, outcome : Outcomes])
  <2> PICK R : R = [run : Nat, outcome : Outcomes]
    OBVIOUS
  <2> PICK m : m = [run |-> w, outcome |-> o]
    OBVIOUS
  <2>1. m \in R
    OBVIOUS
  <2>2. himports \in Seq(R)
    BY DEF RunsInv
  <2>3. himports' \in Seq(R)
    BY <2>1, <2>2
  <2> QED
    BY <2>3
<1>3. \A i, k \in DOMAIN himports' : himports'[i].run = himports'[k].run => i = k
  BY <1>1 DEF RunsInv
<1>4. \A i \in DOMAIN himports' : himports'[i].run \in DOMAIN hruns'
  BY <1>1 DEF RunsInv
<1>5. ASSUME NEW r \in DOMAIN hruns'
      PROVE  /\ r \in DOMAIN hjobs' /\ DOMAIN hruns'[r] = RunFields
             /\ \E p \in Outcomes : HasRun(r, p)' /\ Stored(hruns[r], p)'
  <2>1. CASE r = w
    <3>1. hruns'[r] = run
      BY <2>1
    <3>2. Stored(run, o) /\ DOMAIN run = RunFields
      BY ImportedIsStored
    <3>3. Stored(hruns[r], o)'
      BY <3>1, <3>2 DEF Stored
    <3> QED
      BY <1>1, <2>1, <3>1, <3>2, <3>3
  <2>2. CASE r # w
    <3>1. hruns'[r] = hruns[r] /\ r \in DOMAIN hruns
      BY <2>2
    <3>2. PICK p \in Outcomes : HasRun(r, p) /\ Stored(hruns[r], p)
      BY <3>1 DEF RunsInv
    <3>3. Stored(hruns[r], p)'
      BY <3>1, <3>2 DEF Stored
    <3>4. r \in DOMAIN hjobs /\ DOMAIN hruns[r] = RunFields
      BY <3>1 DEF RunsInv
    <3> QED
      BY <1>1, <3>1, <3>2, <3>3, <3>4
  <2> QED
    BY <2>1, <2>2
<1> QED
  BY <1>2, <1>3, <1>4, <1>5 DEF RunsInv

\* A row of an entity that is seen again.
Renewed(t, id) == [t EXCEPT !.last = id, !.count = @ + 1]
LEMMA RowRenewed ==
  ASSUME NEW t, NEW id, DOMAIN t = {"first", "last", "count"}
  PROVE  /\ DOMAIN Renewed(t, id) = {"first", "last", "count"} /\ Renewed(t, id).first = t.first
         /\ Renewed(t, id).last = id /\ Renewed(t, id).count = t.count + 1
BY DEF Renewed

\* The rows after a run, of an entity that is new, that was seen again, that
\* was not seen.
RowsAfter(entities, id, seen, after) ==
  /\ DOMAIN after = DOMAIN entities \cup seen
  /\ \A e \in DOMAIN after :
       /\ e \notin DOMAIN entities => after[e] = [first |-> id, last |-> id, count |-> 1]
       /\ e \in DOMAIN entities /\ e \in seen => after[e] = Renewed(entities[e], id)
       /\ e \in DOMAIN entities /\ e \notin seen => after[e] = entities[e]

\* The table of entities after a run has those rows.
LEMMA UpsertedRows ==
  ASSUME NEW entities, NEW id, NEW seen, NEW after, after = Upserted(entities, id, seen)
  PROVE  RowsAfter(entities, id, seen, after)
<1>1. DOMAIN after = DOMAIN entities \cup seen
  BY DEF Upserted
<1>2. ASSUME NEW e \in DOMAIN after
      PROVE  /\ e \notin DOMAIN entities => after[e] = [first |-> id, last |-> id, count |-> 1]
             /\ e \in DOMAIN entities /\ e \in seen => after[e] = Renewed(entities[e], id)
             /\ e \in DOMAIN entities /\ e \notin seen => after[e] = entities[e]
  BY <1>1 DEF Upserted, Renewed
<1> QED
  BY <1>1, <1>2 DEF RowsAfter

\* The entities after an import.
LEMMA EntitiesGrow ==
  ASSUME RunsInv, EntitiesInv, NEW w, w \notin DOMAIN hruns, NEW o, NEW run, run = Imported(o),
         himports' = Append(himports, [run |-> w, outcome |-> o]),
         hruns' = [r \in DOMAIN hruns \cup {w} |-> IF r = w THEN run ELSE hruns[r]],
         NEW seen, seen = DOMAIN o.graph, hentities' = Upserted(hentities, w, seen)
  PROVE  EntitiesInv'
<1> PICK z : z = Len(himports) + 1
  OBVIOUS
<1> PICK after : after = hentities'
  OBVIOUS
<1>1. /\ z \in Nat /\ z \notin DOMAIN himports /\ DOMAIN himports' = DOMAIN himports \cup {z}
      /\ himports'[z].run = w /\ himports'[z].outcome = o
      /\ \A i \in DOMAIN himports : i \in Nat /\ i < z /\ himports'[i] = himports[i] /\ himports[i].run # w
  BY ImportIsNew
<1>2. /\ DOMAIN after = DOMAIN hentities \cup seen
      /\ \A e \in DOMAIN after :
           /\ e \notin DOMAIN hentities => after[e] = [first |-> w, last |-> w, count |-> 1]
           /\ e \in DOMAIN hentities /\ e \in seen => after[e] = Renewed(hentities[e], w)
           /\ e \in DOMAIN hentities /\ e \notin seen => after[e] = hentities[e]
  <2> PICK entities : entities = hentities
    OBVIOUS
  <2>1. after = Upserted(entities, w, seen)
    OBVIOUS
  <2>2. RowsAfter(entities, w, seen, after)
    BY <2>1, UpsertedRows
  <2> QED
    BY <2>2 DEF RowsAfter
<1>3. DOMAIN after = UNION {DOMAIN hruns'[r].graph : r \in DOMAIN hruns'}
  <2>1. hruns'[w].graph = o.graph
    BY ImportedIsStored
  <2>2. DOMAIN hentities = UNION {DOMAIN hruns[r].graph : r \in DOMAIN hruns}
    BY DEF EntitiesInv, EntitiesMatchRuns
  <2>3. \A r \in DOMAIN hruns : hruns'[r] = hruns[r]
    OBVIOUS
  <2> PICK runs : runs = hruns'
    OBVIOUS
  <2>4. DOMAIN runs = DOMAIN hruns \cup {w} /\ DOMAIN runs[w].graph = seen /\ \A r \in DOMAIN hruns : runs[r] = hruns[r]
    BY <2>1, <2>3
  <2>5. ASSUME NEW e \in DOMAIN after PROVE \E r \in DOMAIN runs : e \in DOMAIN runs[r].graph
    BY <1>2, <2>2, <2>4
  <2>6. ASSUME NEW r \in DOMAIN runs, NEW e \in DOMAIN runs[r].graph PROVE e \in DOMAIN after
    BY <1>2, <2>2, <2>4
  <2>7. DOMAIN after = UNION {DOMAIN runs[r].graph : r \in DOMAIN runs}
    <3> PICK S : S = UNION {DOMAIN runs[r].graph : r \in DOMAIN runs}
      OBVIOUS
    <3>1. \A e : e \in S <=> \E r \in DOMAIN runs : e \in DOMAIN runs[r].graph
      OBVIOUS
    <3>2. \A e : e \in DOMAIN after <=> e \in S
      BY <2>5, <2>6, <3>1
    <3>3. DOMAIN after = S
      BY <3>2
    <3> QED
      BY <3>3
  <2> QED
    BY <2>7
<1>4. ASSUME NEW e \in DOMAIN after
      PROVE  /\ DOMAIN after[e] = {"first", "last", "count"}
             /\ after[e].count = Cardinality(Seeing(e)')
             /\ \E i \in Seeing(e)' : himports'[i].run = after[e].first /\ \A k \in Seeing(e)' : i <= k
             /\ \E i \in Seeing(e)' : himports'[i].run = after[e].last /\ \A k \in Seeing(e)' : k <= i
  <2> PICK S : S = Seeing(e)
    OBVIOUS
  <2> PICK T : T = Seeing(e)'
    OBVIOUS
  <2>1. S \subseteq DOMAIN himports /\ S \subseteq Nat
    BY <1>1 DEF Seeing
  <2>2. IsFiniteSet(S) /\ Cardinality(S) \in Nat /\ (e \notin DOMAIN hentities => S = {})
    BY SeeingIsBounded
  <2>3. T = IF e \in seen THEN S \cup {z} ELSE S
    BY <1>1 DEF Seeing
  <2>4. e \in DOMAIN hentities =>
          /\ DOMAIN hentities[e] = {"first", "last", "count"}
          /\ hentities[e].count = Cardinality(S)
          /\ \E i \in S : himports[i].run = hentities[e].first /\ \A k \in S : i <= k
          /\ \E i \in S : himports[i].run = hentities[e].last /\ \A k \in S : k <= i
    BY DEF EntitiesInv, EntitiesMatchRuns
  <2>5. CASE e \notin DOMAIN hentities
    <3>1. T = {z}
      BY <1>2, <2>2, <2>3, <2>5
    <3>2. after[e] = [first |-> w, last |-> w, count |-> 1]
      BY <1>2, <2>5
    <3>3. Cardinality({z}) = 1
      BY FS_Singleton
    <3>4. DOMAIN after[e] = {"first", "last", "count"} /\ after[e].count = 1 /\ after[e].first = w /\ after[e].last = w
      BY <3>2
    <3>5. after[e].count = Cardinality(T)
      BY <3>1, <3>3, <3>4
    <3>6. \A k \in T : k = z /\ z <= k /\ k <= z
      BY <1>1, <3>1
    <3> QED
      BY <1>1, <3>1, <3>4, <3>5, <3>6
  <2>6. CASE e \in DOMAIN hentities /\ e \in seen
    <3>1. T = S \cup {z} /\ z \notin S
      BY <1>1, <2>1, <2>3, <2>6
    <3>2. Cardinality(S \cup {z}) = Cardinality(S) + 1
      BY <2>2, <3>1, FS_AddElement
    <3>3. after[e] = Renewed(hentities[e], w)
      BY <1>2, <2>6
    <3>4. /\ DOMAIN after[e] = {"first", "last", "count"} /\ after[e].first = hentities[e].first
          /\ after[e].last = w /\ after[e].count = hentities[e].count + 1
      BY <2>4, <2>6, <3>3, RowRenewed
    <3>5. after[e].count = Cardinality(T)
      BY <2>4, <2>6, <3>1, <3>2, <3>4
    <3>6. PICK i \in S : himports[i].run = hentities[e].first /\ \A k \in S : i <= k
      BY <2>4, <2>6
    <3>7. i \in T /\ himports'[i].run = after[e].first /\ \A k \in T : i <= k
      BY <1>1, <2>1, <3>1, <3>4, <3>6
    <3>8. z \in T /\ himports'[z].run = after[e].last /\ \A k \in T : k <= z
      BY <1>1, <2>1, <3>1, <3>4
    <3> QED
      BY <3>4, <3>5, <3>7, <3>8
  <2>7. CASE e \in DOMAIN hentities /\ e \notin seen
    <3>1. T = S /\ after[e] = hentities[e]
      BY <1>2, <2>3, <2>7
    <3>2. \A i \in S : himports'[i] = himports[i]
      BY <1>1, <2>1
    <3> QED
      BY <2>4, <2>7, <3>1, <3>2
  <2> QED
    BY <2>5, <2>6, <2>7
<1>5. EntitiesMatchRuns'
  BY <1>3, <1>4 DEF EntitiesMatchRuns
<1> QED
  BY <1>4, <1>5 DEF EntitiesInv

\* A run is imported: a process turns to its evidence or its intelligence.
LEMMA ImportScanKeeps ==
  ASSUME DatabaseInv, NEW w \in DOMAIN hjobs, ImportScan(w) PROVE DatabaseInv'
<1> PICK j : j = hjobs[w]
  OBVIOUS
<1>1. j.at = "import"
  BY DEF ImportScan, At
<1>2. Knows(w, j) /\ j = [at |-> j.at, run |-> j.run, outcome |-> j.outcome]
  BY <1>1, AtStep DEF Persisting
<1>3. j.run = w /\ w \notin DOMAIN hruns /\ j.outcome \in Outcomes
  BY <1>1, <1>2 DEF Knows
<1> PICK o : o = j.outcome
  OBVIOUS
<1> PICK run : run = Imported(o)
  OBVIOUS
<1>4. w \in Nat
  <2> PICK S : hjobs \in Seq(S)
    BY DEF DatabaseInv, JobsInv
  <2> QED
    OBVIOUS
<1>5. /\ hruns' = [r \in DOMAIN hruns \cup {w} |-> IF r = w THEN run ELSE hruns[r]]
      /\ hentities' = Upserted(hentities, w, DOMAIN run.graph)
      /\ himports' = Append(himports, [run |-> w, outcome |-> o])
      /\ UNCHANGED <<hchanges, hcompared>>
  BY <1>3 DEF ImportScan
<1> PICK to : to = IF run.workflow = "investigation" THEN "evidence" ELSE "intelligence"
  OBVIOUS
<1> PICK n : n = [at |-> to, run |-> w, outcome |-> o]
  OBVIOUS
<1>6. hjobs' = [hjobs EXCEPT ![w] = n]
  <2>1. n = [j EXCEPT !.at = to]
    BY <1>2, <1>3
  <2> QED
    BY <2>1 DEF ImportScan, Goes
<1>7. Shape(n)
  <2>1. n.at = to /\ n.run = w /\ n.outcome = o /\ to \in Persisting
    BY DEF Persisting
  <2> QED
    BY <2>1 DEF Shape
<1> PICK z : z = Len(himports) + 1
  OBVIOUS
<1>8. (\A r \in DOMAIN hruns : \A p : HasRun(r, p)' <=> HasRun(r, p)) /\ HasRun(w, o)'
  BY <1>3, <1>5, ImportIsNew DEF DatabaseInv
<1>9. DOMAIN hruns' = DOMAIN hruns \cup {w}
  BY <1>5
<1>10. Knows(w, n)'
  <2>1. n.at = to /\ n.run = w /\ n.outcome = o /\ o \in Outcomes
    BY <1>3
  <2>2. run.workflow = o.workflow
    BY ImportedIsStored
  <2>3. to # "evidence" => o.workflow = "scan"
    BY <2>1, <2>2, OutcomesAssumption
  <2>4. to \in {"evidence", "intelligence"}
    OBVIOUS
  <2> QED
    BY <1>8, <1>9, <2>1, <2>3, <2>4 DEF Knows, Comparing
<1>11. JobsInv' /\ DOMAIN hjobs' = DOMAIN hjobs
  BY <1>6, <1>7, <1>8, <1>9, <1>10, JobMoves
<1>12. RunsInv'
  BY <1>3, <1>4, <1>5, <1>11, RunsGrow DEF DatabaseInv
<1>13. EntitiesInv'
  <2>1. run.graph = o.graph
    BY ImportedIsStored
  <2> QED
    BY <1>3, <1>5, <2>1, EntitiesGrow DEF DatabaseInv
<1>14. ChangesInv'
  BY <1>5, <1>8, <1>9, ChangesStay DEF DatabaseInv
<1> QED
  BY <1>11, <1>12, <1>13, <1>14 DEF DatabaseInv

\* A run that is rewritten with its postures is still what it came to.
LEMMA RunRewritten ==
  ASSUME DatabaseInv, NEW id \in DOMAIN hruns, NEW o, HasRun(id, o), o.workflow = "scan", NEW run,
         DOMAIN run = RunFields, run.cover = hruns[id].cover, run.graph = hruns[id].graph,
         run.links = hruns[id].links, run.postures = o.postures,
         hruns' = [hruns EXCEPT ![id] = run], UNCHANGED <<hentities, himports>>, DOMAIN hjobs' = DOMAIN hjobs
  PROVE  RunsInv' /\ EntitiesInv'
<1>1. RunsInv /\ EntitiesInv
  BY DEF DatabaseInv
<1>2. /\ DOMAIN hruns' = DOMAIN hruns /\ hruns'[id] = run
      /\ \A r \in DOMAIN hruns : r # id => hruns'[r] = hruns[r]
  OBVIOUS
<1>3. \A r, p : HasRun(r, p)' <=> HasRun(r, p)
  BY DEF HasRun
<1>4. ASSUME NEW r \in DOMAIN hruns
      PROVE  /\ r \in DOMAIN hjobs' /\ DOMAIN hruns'[r] = RunFields
             /\ \E p \in Outcomes : HasRun(r, p)' /\ Stored(hruns[r], p)'
  <2>1. r \in DOMAIN hjobs /\ DOMAIN hruns[r] = RunFields
    BY <1>1 DEF RunsInv
  <2>2. PICK p \in Outcomes : HasRun(r, p) /\ Stored(hruns[r], p)
    BY <1>1 DEF RunsInv
  <2>3. CASE r = id
    <3>1. p = o
      BY <1>1, <2>2, <2>3, OneOutcome
    <3>2. Stored(run, p)
      BY <2>2, <2>3, <3>1 DEF Stored
    <3>3. Stored(hruns[r], p)'
      BY <1>2, <2>3, <3>2 DEF Stored
    <3> QED
      BY <1>2, <1>3, <2>1, <2>2, <2>3, <3>3
  <2>4. CASE r # id
    <3>1. Stored(hruns[r], p)'
      BY <1>2, <2>2, <2>4 DEF Stored
    <3> QED
      BY <1>2, <1>3, <2>1, <2>2, <2>4, <3>1
  <2> QED
    BY <2>3, <2>4
<1>5. RunsInv'
  BY <1>1, <1>2, <1>4 DEF RunsInv
<1>6. EntitiesInv'
  <2> PICK runs : runs = hruns'
    OBVIOUS
  <2>1. DOMAIN runs = DOMAIN hruns /\ \A r \in DOMAIN hruns : runs[r].graph = hruns[r].graph
    BY <1>2
  <2>2. UNION {DOMAIN runs[r].graph : r \in DOMAIN runs} = UNION {DOMAIN hruns[r].graph : r \in DOMAIN hruns}
    BY <2>1
  <2>3. DOMAIN hentities' = UNION {DOMAIN hruns'[r].graph : r \in DOMAIN hruns'}
    BY <1>1, <2>2 DEF EntitiesInv, EntitiesMatchRuns
  <2>4. \A e : Seeing(e)' = Seeing(e)
    BY DEF Seeing
  <2>5. EntitiesMatchRuns'
    BY <1>1, <2>3, <2>4 DEF EntitiesInv, EntitiesMatchRuns
  <2> QED
    BY <1>1, <2>5 DEF EntitiesInv
<1> QED
  BY <1>5, <1>6

\* The run that was imported last is one there is.
LEMMA PreviousIsThere ==
  ASSUME DatabaseInv, NEW id
  PROVE  Previous(id) = None \/ Previous(id) \in DOMAIN hruns
<1> SUFFICES ASSUME Others(id) # {} PROVE Previous(id) \in DOMAIN hruns
  BY DEF Previous
<1> PICK I : I = Others(id)
  OBVIOUS
<1>1. PICK n \in Nat : I \subseteq 1..n
  <2> PICK S : hjobs \in Seq(S)
    BY DEF DatabaseInv, JobsInv
  <2>1. Len(hjobs) \in Nat /\ DOMAIN hjobs = 1..Len(hjobs)
    OBVIOUS
  <2>2. DOMAIN hruns \subseteq DOMAIN hjobs
    BY DEF DatabaseInv, RunsInv
  <2> QED
    BY <2>1, <2>2 DEF Others
<1>2. PICK p \in I : \A q \in I : p >= q
  <2> DEFINE D == {n - i : i \in I}
  <2>1. D \subseteq Nat /\ D # {}
    BY <1>1
  <2>2. PICK d \in D : \A k \in D : d <= k
    <3> HIDE DEF D
    <3> QED
      BY <2>1, Smallest
  <2>3. PICK p \in I : d = n - p
    BY <2>2
  <2>4. ASSUME NEW q \in I PROVE p >= q
    <3>1. q \in 1..n /\ p \in 1..n
      BY <1>1
    <3>2. n - q \in D
      OBVIOUS
    <3>3. n - p <= n - q
      BY <2>2, <2>3, <3>2
    <3> HIDE DEF D
    <3> QED
      BY <1>1, <3>1, <3>3
  <2> QED
    BY <2>4
<1>3. Previous(id) \in I
  BY <1>2 DEF Previous
<1> QED
  BY <1>3 DEF Others

\* A run with what import_intelligence adds to it.
WithTables(run, o) ==
  [run EXCEPT !.postures = o.postures, !.candidates = o.candidates, !.software = o.software, !.vulns = o.vulns]
\* It is otherwise as it was imported.
LEMMA TablesAreAdded ==
  ASSUME NEW run, NEW o, DOMAIN run = RunFields
  PROVE  LET n == WithTables(run, o)
         IN /\ DOMAIN n = RunFields /\ n.cover = run.cover /\ n.graph = run.graph /\ n.links = run.links
            /\ n.postures = o.postures
BY DEF WithTables, RunFields

\* The intelligence of a run is stored, and the run before is looked up.
LEMMA ImportIntelligenceKeeps ==
  ASSUME DatabaseInv, NEW w \in DOMAIN hjobs, ImportIntelligence(w) PROVE DatabaseInv'
<1> PICK j : j = hjobs[w]
  OBVIOUS
<1>1. j.at = "intelligence"
  BY DEF ImportIntelligence, At
<1>2. Knows(w, j)
  BY AtStep
<1> PICK id : id = j.run
  OBVIOUS
<1> PICK o : o = j.outcome
  OBVIOUS
<1>3. id \in DOMAIN hruns /\ o \in Outcomes /\ HasRun(id, o) /\ o.workflow = "scan"
  BY <1>1, <1>2 DEF Knows
<1> PICK before : before = Previous(id)
  OBVIOUS
<1>4. before = None \/ before \in DOMAIN hruns
  BY PreviousIsThere
<1> PICK run : run = WithTables(hruns[id], o)
  OBVIOUS
<1> PICK to : to = IF before = None THEN "attend" ELSE "rows"
  OBVIOUS
<1> PICK n : n = OfScanning(to, id, before, o, {})
  OBVIOUS
<1>5. hruns' = [hruns EXCEPT ![id] = run]
  BY <1>3 DEF ImportIntelligence, WithTables
<1>6. hjobs' = [hjobs EXCEPT ![w] = n]
  BY DEF ImportIntelligence, Goes, OfScanning
<1>7. UNCHANGED <<hentities, hchanges, himports, hcompared>>
  BY DEF ImportIntelligence
<1>8. \A r, p : HasRun(r, p)' <=> HasRun(r, p)
  BY <1>7 DEF HasRun
<1>9. DOMAIN hruns' = DOMAIN hruns
  BY <1>5
<1>10. n.at = to /\ n.run = id /\ n.old = before /\ n.outcome = o /\ n.changes = {}
  BY DEF OfScanning
<1>11. Shape(n)
  <2>1. n = OfScanning(n.at, n.run, n.old, n.outcome, n.changes)
    BY <1>10
  <2> QED
    BY <1>10, <2>1 DEF Shape, OfScanning, Comparing
<1>12. Knows(w, n)'
  <2>1. to \in {"attend", "rows"} /\ (to = "rows" => before \in DOMAIN hruns)
    BY <1>4
  <2> QED
    BY <1>3, <1>8, <1>9, <1>10, <2>1 DEF Knows, Comparing
<1>13. JobsInv' /\ DOMAIN hjobs' = DOMAIN hjobs
  BY <1>6, <1>8, <1>9, <1>11, <1>12, JobMoves
<1>14. RunsInv' /\ EntitiesInv'
  <2>1. DOMAIN hruns[id] = RunFields
    BY <1>3 DEF DatabaseInv, RunsInv
  <2>2. /\ DOMAIN run = RunFields /\ run.cover = hruns[id].cover /\ run.graph = hruns[id].graph
        /\ run.links = hruns[id].links /\ run.postures = o.postures
    BY <2>1, TablesAreAdded
  <2> QED
    BY <1>3, <1>5, <1>7, <1>13, <2>2, RunRewritten
<1>15. ChangesInv'
  BY <1>7, <1>8, <1>9, ChangesStay DEF DatabaseInv
<1> QED
  BY <1>13, <1>14, <1>15 DEF DatabaseInv

\* A run with its postures stored again.
WithPostures(run, o) == [run EXCEPT !.postures = o.postures]
\* It is otherwise as it was.
LEMMA PosturesAreAdded ==
  ASSUME NEW run, NEW o, DOMAIN run = RunFields
  PROVE  LET n == WithPostures(run, o)
         IN /\ DOMAIN n = RunFields /\ n.cover = run.cover /\ n.graph = run.graph /\ n.links = run.links
            /\ n.postures = o.postures
BY DEF WithPostures, RunFields

\* The postures of a run are stored, and its process is over.
LEMMA StorePostureKeeps ==
  ASSUME DatabaseInv, NEW w \in DOMAIN hjobs, StorePosture(w) PROVE DatabaseInv'
<1> PICK j : j = hjobs[w]
  OBVIOUS
<1>1. j.at = "posture"
  BY DEF StorePosture, At
<1>2. Knows(w, j)
  BY AtStep
<1> PICK id : id = j.run
  OBVIOUS
<1> PICK o : o = j.outcome
  OBVIOUS
<1>3. id \in DOMAIN hruns /\ o \in Outcomes /\ HasRun(id, o) /\ o.workflow = "scan"
  BY <1>1, <1>2 DEF Knows
<1> PICK run : run = WithPostures(hruns[id], o)
  OBVIOUS
<1> PICK n : n = Over
  OBVIOUS
<1>4. hruns' = [hruns EXCEPT ![id] = run]
  BY <1>3 DEF StorePosture, WithPostures
<1>5. hjobs' = [hjobs EXCEPT ![w] = n] /\ UNCHANGED <<hentities, hchanges, himports, hcompared>>
  BY DEF StorePosture, Goes
<1>6. \A r, p : HasRun(r, p)' <=> HasRun(r, p)
  BY <1>5 DEF HasRun
<1>7. DOMAIN hruns' = DOMAIN hruns
  BY <1>4
<1>8. Shape(n)
  BY OverIsFit
<1>9. Knows(w, n)'
  <2>1. n.at = "over"
    BY DEF Over
  <2> QED
    BY <2>1 DEF Knows, Comparing
<1>10. JobsInv' /\ DOMAIN hjobs' = DOMAIN hjobs
  BY <1>5, <1>6, <1>7, <1>8, <1>9, JobMoves
<1>11. RunsInv' /\ EntitiesInv'
  <2>1. DOMAIN hruns[id] = RunFields
    BY <1>3 DEF DatabaseInv, RunsInv
  <2>2. /\ DOMAIN run = RunFields /\ run.cover = hruns[id].cover /\ run.graph = hruns[id].graph
        /\ run.links = hruns[id].links /\ run.postures = o.postures
    BY <2>1, PosturesAreAdded
  <2> QED
    BY <1>3, <1>4, <1>5, <1>10, <2>2, RunRewritten
<1>12. ChangesInv'
  BY <1>5, <1>6, <1>7, ChangesStay DEF DatabaseInv
<1> QED
  BY <1>10, <1>11, <1>12 DEF DatabaseInv

\* Each step of each process keeps the invariant.
LEMMA HistoryStep ==
  ASSUME DatabaseInv, HistoryNext PROVE DatabaseInv'
BY FinishKeeps, DiffCommandKeeps, ImportScanKeeps, KilledKeeps, ImportIntelligenceKeeps, CompareRowsKeeps,
   CompareTablesKeeps, RecordChangesKeeps, GenerateAttentionKeeps, RecordAttentionKeeps, StorePostureKeeps
   DEF HistoryNext

\* And so does a step that is not of the database.
LEMMA HistoryStutters ==
  ASSUME DatabaseInv, UNCHANGED historyvars PROVE DatabaseInv'
<1>0. UNCHANGED <<hruns, hentities, hchanges, hjobs, himports, hcompared>>
  BY DEF historyvars
<1>1. RunsInv' /\ EntitiesInv'
  BY <1>0, RunsStay DEF DatabaseInv
<1>2. \A r, o : HasRun(r, o)' <=> HasRun(r, o)
  BY <1>0 DEF HasRun
<1>3. \A r, p, changes : /\ Sound(r, p, changes) => Sound(r, p, changes)'
                         /\ Whole(r, p, changes) => Whole(r, p, changes)'
  BY <1>2, KnownStays
<1>4. ChangesInv'
  BY <1>0, <1>2, ChangesStay DEF DatabaseInv
<1>5. JobsInv'
  <2>1. ASSUME NEW w \in DOMAIN hjobs PROVE Shape(hjobs[w])' /\ Knows(w, hjobs[w])'
    <3> PICK j : j = hjobs[w]
      OBVIOUS
    <3>1. Shape(j) /\ Knows(w, j)
      BY DEF DatabaseInv, JobsInv
    <3>2. Knows(w, j)'
      BY <1>0, <1>2, <1>3, <3>1 DEF Knows
    <3>3. Shape(hjobs[w])'
      BY <1>0, <3>1 DEF Shape
    <3>4. Knows(w, hjobs[w])'
      BY <1>0, <3>2 DEF Knows
    <3> QED
      BY <3>3, <3>4
  <2> QED
    BY <1>0, <2>1 DEF DatabaseInv, JobsInv
<1> QED
  BY <1>1, <1>4, <1>5 DEF DatabaseInv

\* The invariant says what the database is to say.
LEMMA DatabaseInvSuffices ==
  ASSUME DatabaseInv PROVE HistoryExact
<1>0. RunsInv /\ ChangesInv /\ EntitiesMatchRuns
  BY DEF DatabaseInv, EntitiesInv
<1>1. RemovalsJustified
  <2> SUFFICES ASSUME NEW c \in hchanges, Removal(c.change), c.change.entity \in DOMAIN hentities
               PROVE  Justified(Came(c.new), Came(c.old), c.change.entity)
    BY DEF RemovalsJustified, Justified
  <2> PICK e : e = c.change.entity
    OBVIOUS
  <2>1. PICK r \in DOMAIN hruns : e \in DOMAIN hruns[r].graph
    BY <1>0 DEF EntitiesMatchRuns
  <2>2. IsEntity(e)
    BY <1>0, <2>1, RunOutcome DEF IsEntity, Stored
  <2>3. c.new \in DOMAIN hruns /\ c.old \in DOMAIN hruns /\ Sound(c.new, c.old, {c.change})
    BY <1>0 DEF ChangesInv
  <2>4. /\ Came(c.new) \in Outcomes /\ HasRun(c.new, Came(c.new))
        /\ Came(c.old) \in Outcomes /\ HasRun(c.old, Came(c.old))
    BY <1>0, <2>3, RunOutcome
  <2> QED
    BY <2>2, <2>3, <2>4 DEF Sound
<1>2. RemovalsStored
  <2> SUFFICES ASSUME NEW pair \in hcompared, NEW e \in Missed(Came(pair[2]), Came(pair[1])),
                      OfScan(e), LookedFor(Came(pair[1]), e), e \notin DOMAIN Came(pair[2]).postures
               PROVE  \E c \in hchanges : <<c.new, c.old>> = pair /\ c.change.entity = e /\ Removal(c.change)
    BY DEF RemovalsStored
  <2>1. pair[1] \in DOMAIN hruns /\ pair[2] \in DOMAIN hruns /\ Whole(pair[1], pair[2], ChangesOf(pair))
    BY <1>0 DEF ChangesInv
  <2> PICK new : new = Came(pair[1])
    OBVIOUS
  <2> PICK old : old = Came(pair[2])
    OBVIOUS
  <2>2. new \in Outcomes /\ HasRun(pair[1], new) /\ old \in Outcomes /\ HasRun(pair[2], old)
    BY <1>0, <2>1, RunOutcome
  <2>3. Due(new, old, e)
    BY DEF Due
  <2>4. PICK d \in ChangesOf(pair) : d.entity = e /\ Removal(d)
    BY <2>1, <2>2, <2>3 DEF Whole
  <2> QED
    BY <2>4 DEF ChangesOf
<1>3. ShownAgrees
  <2> SUFFICES ASSUME NEW o \in DOMAIN hruns, NEW n \in DOMAIN hruns, NEW e \in DOMAIN hruns[o].graph,
                      OfScan(e), Came(n).workflow = "scan"
               PROVE  Shown(hruns[o], hruns[n], e) = "removed"
                        <=> e \notin DOMAIN hruns[n].graph /\ LookedFor(Came(n), e) /\ ~Came(n).truncated
    BY DEF ShownAgrees
  <2> PICK old : old = hruns[o]
    OBVIOUS
  <2> PICK new : new = hruns[n]
    OBVIOUS
  <2>1. Stored(new, Came(n))
    BY <1>0, RunOutcome
  <2>2. (e \in new.cover.about <=> LookedFor(Came(n), e)) /\ new.cover.truncated = Came(n).truncated
    BY <2>1, CoverOfScan DEF Stored
  <2>3. e[1] \notin {"service", "web_endpoint"}
    BY DEF OfScan
  <2>4. Shown(old, new, e) = IF e \in DOMAIN new.graph THEN "kept"
                             ELSE IF ~new.cover.truncated /\ e \in new.cover.about THEN "removed"
                             ELSE "not_covered"
    <3>1. e \in DOMAIN old.graph
      OBVIOUS
    <3>2. CASE e \in DOMAIN new.graph
      BY <2>3, <3>1, <3>2 DEF Shown
    <3>3. CASE e \notin DOMAIN new.graph /\ ~new.cover.truncated /\ e \in new.cover.about
      BY <2>3, <3>1, <3>3 DEF Shown
    <3>4. CASE e \notin DOMAIN new.graph /\ ~(~new.cover.truncated /\ e \in new.cover.about)
      BY <2>3, <3>1, <3>4 DEF Shown
    <3> QED
      BY <3>2, <3>3, <3>4
  <2> QED
    BY <2>2, <2>4
<1> QED
  BY <1>0, <1>1, <1>2, <1>3 DEF HistoryExact

\* However many processes write it, in whatever order they import their runs
\* and wherever each is killed, the project database counts in its entities
\* what its runs saw, keeps no removal of what was not looked for and not
\* missed, keeps every removal a scan was to record, and shows the same
\* removals from the runs themselves, of scans that were not cut short
\* (project_db.rs, project_diff.rs).
THEOREM DatabaseIsExact == MCSpec => []DatabaseExact
<1>1. MCInit => DatabaseInv
  BY HistoryStarts DEF MCInit
<1>2. DatabaseInv /\ [MCNext]_<<historyvars, monitorvars, focus>> => DatabaseInv'
  <2> SUFFICES ASSUME DatabaseInv, [MCNext]_<<historyvars, monitorvars, focus>> PROVE DatabaseInv'
    OBVIOUS
  <2>1. HistoryNext \/ UNCHANGED historyvars
    BY DEF MCNext
  <2> QED
    BY <2>1, HistoryStep, HistoryStutters
<1>3. DatabaseInv => DatabaseExact
  BY DatabaseInvSuffices DEF DatabaseExact
<1> QED
  BY <1>1, <1>2, <1>3, PTL DEF MCSpec

=============================================================================
