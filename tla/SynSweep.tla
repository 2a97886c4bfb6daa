----------------------------- MODULE SynSweep -----------------------------
(***************************************************************************)
(* The raw SYN scan and its fallback (syn.rs): one thread sends SYNs that  *)
(* all share a source port, matches what the raw sockets receive to the    *)
(* ports outstanding, adapts its window, and hands the whole scan to the   *)
(* connect scanner when raw sockets are refused to it.                     *)
(***************************************************************************)
EXTENDS Integers, Sequences, FiniteSets, SequencesExt

-----------------------------------------------------------------------------
(***************************************************************************)
(* Adaptive pacing (pacing.rs, suggest): from one window of measurements,  *)
(* how many probes to keep in flight and how long to wait for each.        *)
(***************************************************************************)

Larger(a, b) == IF a > b THEN a ELSE b
Less(a, b) == IF a > b THEN a - b ELSE 0          \* saturating_sub
\* A bug: only the upper bound is kept.
ClampTop(x, low, high) == IF x > high THEN high ELSE x

Clamp(x, low, high) == IF x < low THEN low ELSE IF x > high THEN high ELSE x

\* Ratios are in hundredths; the sample is
\*   [timeouts, failures, pressure : 0..100, backlog, rtt : Nat].
Stressed(s) == \/ s.timeouts > 20 \/ s.failures > 30
               \/ s.pressure > 80 \/ s.backlog > 512
Idle(s) == /\ s.timeouts < 2 /\ s.failures < 5
           /\ s.pressure < 30 /\ s.backlog < 16 /\ s.rtt < 200

\* bounds is [minc, maxc, mint, maxt, mind, maxd : Nat].
Suggest(concurrency, timeout, delay, s, bounds) ==
    LET c == CASE Stressed(s) -> Less(concurrency, Larger(concurrency \div 4, 1))
               [] ~ Stressed(s) /\ Idle(s) -> concurrency + Larger(concurrency \div 8, 1)
               [] OTHER -> concurrency
        t == CASE Stressed(s) -> timeout + Larger(timeout \div 4, 50)
               [] ~ Stressed(s) /\ Idle(s) -> Less(timeout, Larger(timeout \div 8, 10))
               [] OTHER -> timeout
        d == IF Stressed(s) THEN delay + 25 ELSE delay
    IN [concurrency |-> Clamp(c, bounds.minc, bounds.maxc),
        timeout |-> Clamp(t, bounds.mint, bounds.maxt),
        delay |-> Clamp(d, bounds.mind, bounds.maxd)]

-----------------------------------------------------------------------------

CONSTANTS SynPorts,       \* 1..n, the requested ports sorted and deduplicated
          SynWindow,      \* max_concurrent
          SynRetries,     \* max_retries
          PaceEvery       \* completions between two adaptations (32 in the code)

ASSUME SynAssumption == /\ IsFiniteSet(SynPorts) /\ SynPorts = 1..Cardinality(SynPorts)
                        /\ SynWindow \in Nat \ {0} /\ SynRetries \in {0, 1}
                        /\ PaceEvery \in Nat \ {0}

VARIABLES sq,        \* queue of [port, try]
          sp,        \* outstanding: per port, its try and whether it has lapsed
          sprobes,   \* per port, the verdicts pushed
          sbuffer,   \* what the raw sockets hold, unread: pairs of a port and an answer
          sphase,    \* fill, done, or connect: the fallback has taken over
          send,      \* what stopped the scan
          swindow,   \* eff_window
          stally,    \* completions and timeouts since the last adaptation
          sworld,    \* the token, the deadline, and whether ICMP can be listened to
          snote      \* SynScanner: the mechanism recorded, and the fallback latch

synvars == <<sq, sp, sprobes, sbuffer, sphase, send, swindow, stally, sworld, snote>>

SynVerdicts == {"open", "closed", "filtered", "open_or_filtered", "error"}
Replies == {"open", "closed", "filtered"}       \* SYN+ACK, RST, ICMP unreachable
Outstanding == DOMAIN sp
SynUnscanned == Len(sq) + Cardinality(Outstanding)
SynMayGoOn == ~ sworld.cancelled /\ ~ sworld.expired

WholeQueue == [i \in 1..Cardinality(SynPorts) |-> [port |-> i, try |-> 1]]

SynInit ==
    /\ sq = WholeQueue /\ sp = << >> /\ sbuffer = {}
    /\ sprobes = [p \in SynPorts |-> << >>]
    /\ sphase = "fill" /\ send = "nothing"
    /\ swindow = SynWindow
    /\ stally = [completions |-> 0, timeouts |-> 0]
    /\ sworld \in [cancelled : {FALSE}, expired : {FALSE}, icmp : BOOLEAN]
    /\ snote = [mechanism |-> "none", fallback |-> FALSE]

SynCancel == /\ ~ sworld.cancelled /\ sphase = "fill"
             /\ sworld' = [sworld EXCEPT !.cancelled = TRUE]
             /\ UNCHANGED <<sq, sp, sprobes, sbuffer, sphase, send, swindow, stally, snote>>

SynExpire == /\ ~ sworld.expired /\ sphase = "fill"
             /\ sworld' = [sworld EXCEPT !.expired = TRUE]
             /\ UNCHANGED <<sq, sp, sprobes, sbuffer, sphase, send, swindow, stally, snote>>

\* A port to which a SYN went out: it is outstanding, back in the queue, or concluded.
Asked(p) == \/ p \in Outstanding
            \/ \E i \in 1..Len(sq) : sq[i].port = p /\ sq[i].try > 1
            \/ sprobes[p] # << >>

\* Answers reach the raw sockets at any time, also after their try lapsed, and
\* again after an earlier one was read (one per port waits unread at most).
SynArrive(p) ==
    /\ sphase = "fill" /\ Asked(p) /\ \A r \in Replies : <<p, r>> \notin sbuffer
    /\ \E r \in Replies : /\ r = "filtered" => sworld.icmp
                          /\ sbuffer' = sbuffer \cup {<<p, r>>}
    /\ UNCHANGED <<sq, sp, sprobes, sphase, send, swindow, stally, sworld, snote>>

SynLapse(p) == /\ sphase = "fill" /\ ~ sp[p].due
               /\ sp' = [sp EXCEPT ![p].due = TRUE]
               /\ UNCHANGED <<sq, sprobes, sbuffer, sphase, send, swindow, stally, sworld, snote>>

-----------------------------------------------------------------------------

SynDone == sphase' = "done" /\ snote' = [snote EXCEPT !.mechanism = "syn"]

SynStop ==
    /\ sphase = "fill" /\ SynUnscanned > 0 /\ ~ SynMayGoOn
    /\ send' = IF sworld.cancelled THEN "token" ELSE "deadline"
    /\ SynDone
    /\ UNCHANGED <<sq, sp, sprobes, sbuffer, swindow, stally, sworld>>

\* A SYN leaves, or the send fails and the port is an error; the window may
\* have shrunk below what is outstanding: then nothing is sent.
SynSend ==
    /\ sphase = "fill" /\ SynMayGoOn
    /\ sq # << >> /\ Cardinality(Outstanding) < swindow
    /\ sq' = Tail(sq)
    /\ LET item == Head(sq) IN
         \/ /\ sp' = [p \in Outstanding \cup {item.port} |->
                        IF p = item.port THEN [try |-> item.try, due |-> FALSE] ELSE sp[p]]
            /\ UNCHANGED <<sprobes, stally>>
         \/ /\ sprobes' = [sprobes EXCEPT ![item.port] = Append(@, [state |-> "error", try |-> item.try])]
            /\ stally' = [stally EXCEPT !.completions = @ + 1]
            /\ UNCHANGED sp
    /\ UNCHANGED <<sbuffer, sphase, send, swindow, sworld, snote>>

\* A bug: what the SYN scan concluded stays beside the connect scan's results.
SynDeniedKeeps ==
    /\ sphase = "fill"
    /\ \/ SynMayGoOn /\ sq # << >> /\ Cardinality(Outstanding) < swindow
       \/ sp = << >> /\ sq = WholeQueue
    /\ sq' = WholeQueue /\ sp' = << >> /\ sbuffer' = {}
    /\ sphase' = "connect"
    /\ snote' = [mechanism |-> "connect", fallback |-> TRUE]
    /\ UNCHANGED <<sprobes, send, swindow, stally, sworld>>

\* Raw sockets are refused, at the start or in the middle of the scan: the
\* scan so far is dropped and the connect scanner does all the ports.
SynDenied ==
    /\ sphase = "fill"
    /\ \/ SynMayGoOn /\ sq # << >> /\ Cardinality(Outstanding) < swindow
       \/ sp = << >> /\ sq = WholeQueue
    /\ sq' = WholeQueue /\ sp' = << >> /\ sbuffer' = {}
    /\ sprobes' = [p \in SynPorts |-> << >>]
    /\ sphase' = "connect"
    /\ snote' = [mechanism |-> "connect", fallback |-> TRUE]
    /\ UNCHANGED <<send, swindow, stally, sworld>>

\* What the connect scanner may return (ProbeSweep, which ConnectSweep keeps).
SynFallback ==
    /\ sphase = "connect"
    /\ \E left \in SUBSET SynPorts, cut \in {"nothing", "token", "deadline"} :
       \E order \in SetToSeqs(left) :
          /\ (left # {}) <=> (cut # "nothing")
          /\ sq' = [i \in 1..Len(order) |-> [port |-> order[i], try |-> 1]]
          /\ sprobes' = [p \in SynPorts |-> IF p \in left THEN << >>
                                            ELSE <<[state |-> "open", try |-> 1]>>]
          /\ send' = cut
    /\ sphase' = "done"
    /\ UNCHANGED <<sp, sbuffer, swindow, stally, sworld, snote>>

\* The window for the coming round, from the ratio of lapsed tries and the
\* share of the first window still outstanding.
Repace(tally, flying, backlog, rtt) ==
    LET sample == [timeouts |-> (100 * tally.timeouts) \div tally.completions,
                   failures |-> 0, backlog |-> backlog, rtt |-> rtt,
                   pressure |-> (100 * flying) \div SynWindow]
    IN Suggest(swindow, 1000, 0, sample,
               [minc |-> 1, maxc |-> SynWindow, mint |-> 100, maxt |-> 10000,
                mind |-> 0, maxd |-> 1000]).concurrency

\* A bug: one try too many.
SynMayRetryOnceMore(p) == sp[p].try <= SynRetries + 1

SynMayRetry(p) == sp[p].try <= SynRetries

\* One poll and what follows. What was received concludes the outstanding
\* ports it matches and is otherwise thrown away; then the lapsed tries are
\* retried or concluded.
SynRound ==
    LET heard == {p \in Outstanding : \E r \in Replies : <<p, r>> \in sbuffer}
        lapsed == {p \in Outstanding \ heard : sp[p].due}
        again == {p \in lapsed : SynMayRetry(p)}
        gone == heard \cup lapsed
        tally == [completions |-> stally.completions + Cardinality(gone),
                  timeouts |-> stally.timeouts + Cardinality(lapsed)]
    IN  /\ sphase = "fill" /\ SynMayGoOn /\ SynUnscanned > 0
        /\ \E verdict \in [heard -> Replies] :
             /\ \A p \in heard : <<p, verdict[p]>> \in sbuffer
             /\ sprobes' = [p \in SynPorts |->
                   CASE p \in heard -> Append(sprobes[p], [state |-> verdict[p], try |-> sp[p].try])
                     [] p \in lapsed \ again -> Append(sprobes[p], [state |-> "open_or_filtered", try |-> sp[p].try])
                     [] OTHER -> sprobes[p]]
        /\ sp' = [p \in Outstanding \ gone |-> sp[p]]
        /\ sbuffer' = {}
        /\ \E order \in SetToSeqs(again) :
              sq' = [i \in 1..Len(order) |-> [port |-> order[i], try |-> sp[order[i]].try + 1]] \o sq
        /\ IF tally.completions >= PaceEvery
           THEN /\ \E rtt \in {10, 500} :
                      swindow' = Repace(tally, Cardinality(Outstanding \ gone), Len(sq'), rtt)
                /\ stally' = [completions |-> 0, timeouts |-> 0]
           ELSE stally' = tally /\ UNCHANGED swindow
        /\ UNCHANGED <<sphase, send, sworld, snote>>

SynFinish ==
    /\ sphase = "fill" /\ SynUnscanned = 0
    /\ SynDone
    /\ UNCHANGED <<sq, sp, sprobes, sbuffer, send, swindow, stally, sworld>>

SynNext == \/ SynStop \/ SynSend \/ SynDenied \/ SynFallback \/ SynRound \/ SynFinish
           \/ SynCancel \/ SynExpire
           \/ \E p \in SynPorts : SynArrive(p)
           \/ \E p \in Outstanding : SynLapse(p)

SynSpec == SynInit /\ [][SynNext]_synvars

-----------------------------------------------------------------------------

SynTypeOK ==
    /\ sq \in Seq([port : SynPorts, try : 1..SynRetries + 1])
    /\ Outstanding \subseteq SynPorts
    /\ \A p \in Outstanding : sp[p] \in [try : 1..SynRetries + 1, due : BOOLEAN]
    /\ sprobes \in [SynPorts -> Seq([state : SynVerdicts, try : 1..SynRetries + 1])]
    /\ sbuffer \subseteq SynPorts \X Replies
    /\ sphase \in {"fill", "connect", "done"}
    /\ send \in {"nothing", "token", "deadline"}
    /\ swindow \in Nat
    /\ stally \in [completions : Nat, timeouts : Nat]
    /\ sworld \in [cancelled : BOOLEAN, expired : BOOLEAN, icmp : BOOLEAN]
    /\ snote \in [mechanism : {"none", "syn", "connect"}, fallback : BOOLEAN]

\* The caller's accounting survives the change of mechanism: at any time a
\* port is waiting, outstanding or concluded, once; nothing the dropped SYN
\* scan concluded is counted again beside the connect scan's results.
SynEachPortOnce ==
    \A p \in SynPorts :
       Cardinality({i \in 1..Len(sq) : sq[i].port = p})
         + (IF p \in Outstanding THEN 1 ELSE 0) + Len(sprobes[p]) = 1

\* Adaptation never closes the window (nothing would be sent again and the
\* loop would spin) and never opens it beyond what the caller allowed.
SynWindowUsable == /\ swindow >= 1 /\ swindow <= SynWindow
                   /\ Cardinality(Outstanding) <= SynWindow
=============================================================================
