---------------------------- MODULE ServiceProbe ----------------------------
(* One service probe task (src/src/service_probe.rs): what speaks on an open *)
(* port. The plan (src/src/service.rs) names the probes; the task listens    *)
(* once without speaking, judges that greeting, asks the mail question when  *)
(* the greeting allows it, and asks the rest at the same time on threads of  *)
(* their own. Any exchange may be lost; the task may be cancelled and run    *)
(* out of time at any point. Bytes are abstracted to what a matcher makes    *)
(* of them.                                                                  *)
EXTENDS Naturals, Sequences, FiniteSets, SequencesExt

CONSTANTS ServiceTasks,   \* pairs of what a port suggests and a level 1..5
          Servers         \* what may answer: a set of Server records

VARIABLES ztask,      \* [port, level, context]
          zscope,     \* what the guard permits: the task's target, the address
          zserver,    \* what answers on the port
          zworld,     \* [cancelled, time]: "ample", "low" (under 500 ms), "over"
          zphase,     \* where execute_service_probe is
          zheard,     \* the passive observation
          zleft,      \* the plan's probes still to look at
          zwave,      \* those deferred to the wave, in plan order
          zthread,    \* what the wave's threads returned so far
          zmade,      \* attempts_made
          zfallback,  \* the first attempt that holds a banner
          zwinner,    \* what classified the service
          zcut,       \* truncated
          zconns,     \* the connection counter
          zout,       \* the conclusion
          zopened,    \* history: probes that really opened a socket
          zgaveup     \* history: an exchange was dropped by this task itself

servicevars == <<ztask, zscope, zserver, zworld, zphase, zheard, zleft, zwave, zthread,
                 zmade, zfallback, zwinner, zcut, zconns, zout, zopened, zgaveup>>

\* What a port may suggest: the probe that lists it, TLS around something, mail,
\* nothing.
Suggestions == {"ssh", "mysql", "ftp", "http", "redis", "postgres", "smb", "https", "smtps", "mail", "other"}

\* What the server says first, the probes it answers, the mail it speaks, the
\* protocol it wraps in TLS.
Greetings == {"silence", "ssh", "mysql", "220", "line"}
Server == [first : Greetings, answers : SUBSET {"http", "redis", "postgres", "smb"},
           mail : {"smtp", "ftp", "odd"}, tls : BOOLEAN, inside : {"http", "smtp", "none"}]

ASSUME ServiceAssumption ==
  /\ \A task \in ServiceTasks : task[1] \in Suggestions /\ task[2] \in 1 .. 5
  /\ Servers \subseteq Server

Missed(p) == [probe |-> p, protocol |-> "unknown", banner |-> "none", tls |-> FALSE]
Banner(p, text) == [probe |-> p, protocol |-> "unknown", banner |-> text, tls |-> FALSE]
Proved(p, protocol, text) == [probe |-> p, protocol |-> protocol, banner |-> text, tls |-> FALSE]
InsideTls(attempt) == [probe |-> attempt.probe, protocol |-> attempt.protocol, banner |-> attempt.banner, tls |-> TRUE]
NoAttempt == Missed("none")
Classified(attempt) == attempt.protocol # "unknown"

NoConclusion == [how |-> "none", protocol |-> "unknown", tls |-> FALSE, banner |-> "none",
                 identified |-> FALSE, matchedBy |-> "none", executed |-> 0, connections |-> 0]

ServiceInit ==
  /\ \E task \in ServiceTasks, context \in BOOLEAN :
       ztask = [port |-> task[1], level |-> task[2], context |-> context]
  /\ zscope \in SUBSET {"target", "address"}
  /\ zserver \in Servers
  /\ zworld = [cancelled |-> FALSE, time |-> "ample"]
  /\ zphase = "start" /\ zheard = "unasked" /\ zleft = <<>> /\ zwave = <<>> /\ zthread = <<>>
  /\ zmade = <<>> /\ zfallback = NoAttempt /\ zwinner = NoAttempt /\ zcut = FALSE
  /\ zconns = 0 /\ zout = NoConclusion /\ zopened = <<>> /\ zgaveup = FALSE

-----------------------------------------------------------------------------
(* The plan.                                                                 *)

\* PROBE_REGISTRY: the first probe that lists the port. SMB stands for the
\* probes of one request on one port: SMB, RDP, MongoDB, MQTT.
PrimaryProbe(port) ==
  CASE port \in {"https", "smtps"} -> "tls"
    [] port = "mail" -> "smtp"
    [] port = "other" -> "none"
    [] OTHER -> port

ProbeCap(level) == CASE level = 1 -> 1 [] level = 2 -> 2 [] level = 3 -> 3 [] level = 4 -> 4 [] OTHER -> 6

FirstOf(probes) ==
  LET firsts[n \in 0 .. Len(probes)] ==
        IF n = 0 THEN <<>>
        ELSE IF Contains(firsts[n - 1], probes[n]) THEN firsts[n - 1] ELSE Append(firsts[n - 1], probes[n])
  IN  firsts[Len(probes)]

FromLevel(level, n, probes) == IF level >= n THEN probes ELSE <<>>

PlannedProbes(port, level) ==
  LET first == PrimaryProbe(port)
      likely == <<first>>
                \o (IF port = "smtps" THEN FromLevel(level, 4, <<"smtp">>) ELSE <<>>)
                \o FromLevel(level, 2, <<"generic">>) \o FromLevel(level, 4, <<"http">>)
                \o FromLevel(level, 5, <<"redis", "tls">>)
      unlikely == <<"generic">> \o FromLevel(level, 2, <<"http">>) \o FromLevel(level, 3, <<"redis">>)
                  \o FromLevel(level, 4, <<"tls">>) \o FromLevel(level, 5, <<"postgres", "smtp">>)
      all == FirstOf(IF first = "none" THEN unlikely ELSE likely)
  IN  SubSeq(all, 1, IF Len(all) < ProbeCap(level) THEN Len(all) ELSE ProbeCap(level))

ServicePlan == PlannedProbes(ztask.port, ztask.level)

-----------------------------------------------------------------------------
(* Exchanges.                                                                *)

\* ProbeCtx::connect counts, then refuses when the task is cancelled or past
\* its deadline.
GivesUp == zworld.cancelled \/ zworld.time = "over"
Connects(p) ==
  /\ zconns' = zconns + 1
  /\ zopened' = IF GivesUp THEN zopened ELSE Append(zopened, p)
  /\ zgaveup' = (zgaveup \/ GivesUp)

\* An exchange under way when the task is cancelled or expires is dropped too.
Interrupted == zgaveup' = (zgaveup \/ GivesUp)

\* What a read of the greeting may return: all of it, a part without its
\* newline, nothing.
Hears == {"silence", zserver.first} \cup (IF zserver.first = "silence" THEN {} ELSE {"cut"})

\* probe_ssh, probe_mysql on connections of their own.
SshReads(heard) ==
  CASE heard = "ssh" -> Proved("ssh", "ssh", "ssh")
    [] heard \in {"220", "line"} -> Banner("ssh", heard)
    [] OTHER -> Missed("ssh")
MysqlReads(heard) == IF heard = "mysql" THEN Proved("mysql", "mysql", "mysql") ELSE Missed("mysql")

\* probe_mail: a 220 greeting, then EHLO and perhaps NOOP; a reply may be lost.
MailReads(p, heard) ==
  IF heard = "silence" THEN {Missed(p)}
  ELSE IF heard # "220" \/ zserver.mail = "odd" THEN {Banner(p, heard)}
  ELSE {Banner(p, heard), Proved(p, zserver.mail, heard)}

\* The probes of one request: what they prove is what they are named for. An
\* answer may be lost, a thread may panic: a miss either way.
RequestReads(p) == {Missed(p)} \cup (IF p \in zserver.answers THEN {Proved(p, p, "none")} ELSE {})

\* probe_tls: bare_tls_attempt when the handshake completes.
TlsReads == {Missed("tls")} \cup (IF zserver.tls THEN {InsideTls(Proved("tls", "tls", "none"))} ELSE {})

-----------------------------------------------------------------------------
(* Ends.                                                                     *)

EndService(how) ==
  /\ zphase' = "done"
  /\ zout' = [NoConclusion EXCEPT !.how = how]
  /\ UNCHANGED <<ztask, zscope, zserver, zworld, zheard, zleft, zwave, zthread, zmade, zfallback,
                 zwinner, zcut, zconns, zopened, zgaveup>>

\* parse_service_target: the checks before anything is sent. A task without a
\* port waits for the decision engine and completes with nothing.
RefuseService ==
  /\ zphase = "start"
  /\ \/ "target" \notin zscope /\ EndService("failed")
     \/ "target" \in zscope /\ zworld.cancelled /\ EndService("cancelled")
     \/ "target" \in zscope /\ ~zworld.cancelled /\ ~ztask.context /\ EndService("empty")
     \/ /\ zscope = {"target"} /\ ~zworld.cancelled /\ ztask.context
        /\ EndService("failed")

\* A cancelled task returns no output, whatever it has seen.
CancelledAt(phase) == zphase = phase /\ zworld.cancelled /\ EndService("cancelled")

StopService ==
  \/ CancelledAt("judge") /\ zleft # <<>>
  \/ CancelledAt("mail") \/ CancelledAt("replay") \/ CancelledAt("final")
  \/ zphase = "judge" /\ zleft = <<>> /\ zwave # <<>> /\ CancelledAt("judge")

-----------------------------------------------------------------------------
(* Listening.                                                                *)

\* observe_passive runs when the plan holds "generic".
BeginService ==
  /\ zphase = "start" /\ zscope = {"target", "address"} /\ ~zworld.cancelled /\ ztask.context
  /\ zleft' = ServicePlan
  /\ IF Contains(ServicePlan, "generic")
     THEN Connects("passive") /\ zphase' = "passive"
     ELSE zphase' = "judge" /\ UNCHANGED <<zconns, zopened, zgaveup>>
  /\ UNCHANGED <<ztask, zscope, zserver, zworld, zheard, zwave, zthread, zmade, zfallback, zwinner,
                 zcut, zout>>

\* evaluate_passive: a whole SSH line or MySQL packet classifies and ends the
\* probing; a 220 greeting does not.
ObservePassive ==
  /\ zphase = "passive"
  /\ Interrupted
  /\ \E heard \in IF Contains(zopened, "passive") THEN Hears ELSE {"silence"} :
       /\ zheard' = heard
       /\ IF heard \in {"ssh", "mysql"}
          THEN LET attempt == Proved("passive", heard, heard)
               IN  zmade' = Append(zmade, attempt) /\ zwinner' = attempt /\ zphase' = "final"
          ELSE zphase' = "judge" /\ UNCHANGED <<zmade, zwinner>>
  /\ UNCHANGED <<ztask, zscope, zserver, zworld, zleft, zwave, zthread, zfallback, zcut, zconns, zout,
                 zopened>>

-----------------------------------------------------------------------------
(* Phase A: what the greeting settles, and mail.                             *)

\* The first attempt that holds a banner becomes the observation if nothing
\* classifies.
Records(attempt) ==
  /\ zmade' = Append(zmade, attempt)
  /\ zfallback' = IF zfallback = NoAttempt /\ attempt.banner # "none" THEN attempt ELSE zfallback

MayLook == zphase = "judge" /\ zleft # <<>> /\ ~zworld.cancelled

\* PROBE_PLANNING_FLOOR: with less than 500 ms left the rest of the plan is
\* skipped; the wave gathered so far still runs.
SkipRest ==
  /\ MayLook /\ zworld.time # "ample"
  /\ zcut' = TRUE /\ zleft' = <<>>
  /\ UNCHANGED <<ztask, zscope, zserver, zworld, zphase, zheard, zwave, zthread, zmade, zfallback,
                 zwinner, zconns, zout, zopened, zgaveup>>

LooksAt(p) == MayLook /\ zworld.time = "ample" /\ Head(zleft) = p /\ zleft' = Tail(zleft)

\* mail_probe_justified: not refuted by what was heard.
MailJustified == zheard \in {"unasked", "220", "cut"}

\* passive_generic_attempt, passive_refuted_attempt: no second connection for
\* what the greeting already answers.
JudgeGreeting ==
  /\ \E p \in {"generic", "ssh", "mysql", "ftp", "smtp"} :
       /\ LooksAt(p)
       /\ zheard # "unasked"
       /\ p \in {"ftp", "smtp"} => ~MailJustified
       /\ Records(IF zheard = "silence" THEN Missed(p) ELSE Banner(p, zheard))
  /\ UNCHANGED <<ztask, zscope, zserver, zworld, zphase, zheard, zwave, zthread, zwinner, zcut, zconns,
                 zout, zopened, zgaveup>>

\* A connection of its own: SSH and MySQL when nothing was heard (level 1),
\* mail when the greeting does not refute it.
AskAlone ==
  /\ \E p \in {"ssh", "mysql", "ftp", "smtp"} :
       /\ LooksAt(p)
       /\ IF p \in {"ssh", "mysql"} THEN zheard = "unasked" ELSE MailJustified
       /\ Connects(p)
       /\ zthread' = <<p>>
       /\ zphase' = IF p \in {"ssh", "mysql"} THEN "alone" ELSE "mail"
  /\ UNCHANGED <<ztask, zscope, zserver, zworld, zheard, zwave, zmade, zfallback, zwinner, zcut, zout>>

HearsNow(p) == IF Contains(zopened, p) THEN Hears ELSE {"silence"}

\* The SSH and MySQL probes leave their attempt as the fallback, classified
\* or not.
AloneAnswers ==
  /\ zphase = "alone"
  /\ Interrupted
  /\ \E heard \in HearsNow(zthread[1]) :
       Records(IF zthread[1] = "ssh" THEN SshReads(heard) ELSE MysqlReads(heard))
  /\ zthread' = <<>> /\ zphase' = "judge"
  /\ UNCHANGED <<ztask, zscope, zserver, zworld, zheard, zleft, zwave, zwinner, zcut, zconns, zout, zopened>>

\* A mail answer that classifies ends the probing: the wave does not run.
MailAnswers ==
  /\ zphase = "mail" /\ ~zworld.cancelled
  /\ Interrupted
  /\ \E heard \in HearsNow(zthread[1]) : \E attempt \in MailReads(zthread[1], heard) :
       /\ zmade' = Append(zmade, attempt)
       /\ IF Classified(attempt)
          THEN zwinner' = attempt /\ zphase' = "final" /\ UNCHANGED zfallback
          ELSE /\ zphase' = "judge" /\ UNCHANGED zwinner
               /\ zfallback' = IF zfallback = NoAttempt /\ attempt.banner # "none" THEN attempt ELSE zfallback
  /\ zthread' = <<>>
  /\ UNCHANGED <<ztask, zscope, zserver, zworld, zheard, zleft, zwave, zcut, zconns, zout, zopened>>

\* Everything else waits for the wave.
LeaveToWave ==
  /\ \E p \in {"http", "tls", "redis", "postgres", "smb"} : LooksAt(p) /\ zwave' = Append(zwave, p)
  /\ UNCHANGED <<ztask, zscope, zserver, zworld, zphase, zheard, zthread, zmade, zfallback, zwinner, zcut,
                 zconns, zout, zopened, zgaveup>>

-----------------------------------------------------------------------------
(* Phase B: the wave.                                                        *)

\* A thread and a connection per probe. The TLS probe does not go through
\* ProbeCtx::connect: run_wave_probe counts it, and the task's deadline does
\* not stop it.
StartProbeWave ==
  /\ zphase = "judge" /\ zleft = <<>> /\ zwave # <<>> /\ ~zworld.cancelled
  /\ zphase' = "wave" /\ zthread' = <<>>
  /\ UNCHANGED <<ztask, zscope, zserver, zworld, zheard, zleft, zwave, zmade, zfallback, zwinner, zcut,
                 zconns, zout, zopened, zgaveup>>

\* zthread holds the answers in the order they came; zopened the sockets.
AskedFor(p) == Contains(zopened, p) \/ \E i \in DOMAIN zthread : zthread[i].probe = p
WaveConnects ==
  /\ zphase = "wave"
  /\ \E p \in ToSet(zwave) :
       /\ ~AskedFor(p)
       /\ IF p = "tls"
          THEN /\ zconns' = zconns + 1
               /\ zopened' = IF zworld.cancelled THEN zopened ELSE Append(zopened, p)
               /\ zgaveup' = (zgaveup \/ zworld.cancelled)
          ELSE Connects(p)
       /\ zthread' = IF zopened' = zopened THEN Append(zthread, Missed(p)) ELSE zthread
  /\ UNCHANGED <<ztask, zscope, zserver, zworld, zphase, zheard, zleft, zwave, zmade, zfallback, zwinner,
                 zcut, zout>>

WaveAnswers ==
  /\ zphase = "wave"
  /\ \E p \in ToSet(zwave) :
       /\ Contains(zopened, p) /\ \A i \in DOMAIN zthread : zthread[i].probe # p
       /\ \E attempt \in IF p = "tls" THEN TlsReads ELSE RequestReads(p) :
            zthread' = Append(zthread, attempt)
       /\ zgaveup' = (zgaveup \/ zworld.cancelled \/ (p # "tls" /\ zworld.time = "over"))
  /\ UNCHANGED <<ztask, zscope, zserver, zworld, zphase, zheard, zleft, zwave, zmade, zfallback, zwinner,
                 zcut, zconns, zout, zopened>>

JoinWave ==
  /\ zphase = "wave" /\ Len(zthread) = Len(zwave)
  /\ zphase' = "replay"
  /\ UNCHANGED <<ztask, zscope, zserver, zworld, zheard, zleft, zwave, zthread, zmade, zfallback, zwinner,
                 zcut, zconns, zout, zopened, zgaveup>>

\* Mutant: replayed in the order the threads finished.
ReplayedAsFinished == zthread

\* run_wave hands the answers back in the order of the plan.
Replayed == [i \in 1..Len(zwave) |-> zthread[CHOOSE k \in DOMAIN zthread : zthread[k].probe = zwave[i]]]

FirstWith(attempts, Test(_)) ==
  IF \E i \in DOMAIN attempts : Test(attempts[i])
  THEN attempts[CHOOSE i \in DOMAIN attempts :
                  Test(attempts[i]) /\ \A k \in 1..(i - 1) : ~Test(attempts[k])]
  ELSE NoAttempt

HoldsBanner(attempt) == attempt.banner # "none"

\* The winner is the first of them that classified; a TLS winner is asked
\* once more, inside its session.
Replay ==
  /\ zphase = "replay" /\ ~zworld.cancelled
  /\ zmade' = zmade \o Replayed
  /\ zfallback' = IF zfallback = NoAttempt THEN FirstWith(Replayed, HoldsBanner) ELSE zfallback
  /\ zwinner' = FirstWith(Replayed, Classified)
  /\ zphase' = IF FirstWith(Replayed, Classified).probe = "tls" THEN "compose" ELSE "final"
  /\ UNCHANGED <<ztask, zscope, zserver, zworld, zheard, zleft, zwave, zthread, zcut, zconns, zout,
                 zopened, zgaveup>>

\* compose_over_tls: HTTP where the port or the plan suggests it, else SMTP
\* likewise, never both; a composed answer takes the place of the bare one.
ComposesHttp == ztask.port \in {"http", "https"} \/ Contains(ServicePlan, "http")
ComposesSmtp == ~ComposesHttp /\ (ztask.port \in {"mail", "smtps"} \/ Contains(ServicePlan, "smtp"))
Composed == InsideTls(Proved(zserver.inside, zserver.inside, IF zserver.inside = "smtp" THEN "220" ELSE "none"))
Composes ==
  \/ ComposesHttp /\ zserver.inside = "http"
  \/ ComposesSmtp /\ zserver.inside = "smtp"

Compose ==
  /\ zphase = "compose"
  /\ Interrupted
  /\ \/ zwinner' = zwinner /\ zmade' = zmade
     \/ /\ Composes /\ ~GivesUp
        /\ zwinner' = Composed
        /\ zmade' = [i \in DOMAIN zmade |-> IF zmade[i].probe = "tls" THEN zwinner' ELSE zmade[i]]
  /\ zphase' = "final"
  /\ UNCHANGED <<ztask, zscope, zserver, zworld, zheard, zleft, zwave, zthread, zfallback, zcut, zconns, zout,
                 zopened>>

-----------------------------------------------------------------------------
(* The conclusion.                                                           *)

NothingToAsk ==
  /\ zphase = "judge" /\ zleft = <<>> /\ zwave = <<>>
  /\ zphase' = "final"
  /\ UNCHANGED <<ztask, zscope, zserver, zworld, zheard, zleft, zwave, zthread, zmade, zfallback, zwinner,
                 zcut, zconns, zout, zopened, zgaveup>>

\* finish_observation: the winner, else the first banner, else silence. An
\* unknown service has an asset and evidence, but is not identified.
FinishService ==
  /\ zphase = "final" /\ ~zworld.cancelled
  /\ LET result == IF Classified(zwinner) THEN zwinner ELSE zfallback
     IN  zout' = [how |-> "done", protocol |-> result.protocol, tls |-> result.tls,
                  banner |-> result.banner, identified |-> Classified(result),
                  matchedBy |-> IF Classified(result) THEN result.probe ELSE "none",
                  executed |-> Len(zmade), connections |-> zconns]
  /\ zcut' = (zcut \/ zworld.time = "over")
  /\ zphase' = "done"
  /\ UNCHANGED <<ztask, zscope, zserver, zworld, zheard, zleft, zwave, zthread, zmade, zfallback, zwinner,
                 zconns, zopened, zgaveup>>

-----------------------------------------------------------------------------
(* The world.                                                                *)

CancelProbe ==
  /\ zphase # "done" /\ ~zworld.cancelled
  /\ zworld' = [zworld EXCEPT !.cancelled = TRUE]
  /\ UNCHANGED <<ztask, zscope, zserver, zphase, zheard, zleft, zwave, zthread, zmade, zfallback, zwinner,
                 zcut, zconns, zout, zopened, zgaveup>>

TimeRuns ==
  /\ zphase # "done" /\ zworld.time # "over"
  /\ zworld' = [zworld EXCEPT !.time = IF zworld.time = "ample" THEN "low" ELSE "over"]
  /\ UNCHANGED <<ztask, zscope, zserver, zphase, zheard, zleft, zwave, zthread, zmade, zfallback, zwinner,
                 zcut, zconns, zout, zopened, zgaveup>>

ServiceNext ==
  \/ RefuseService \/ StopService \/ BeginService \/ ObservePassive
  \/ SkipRest \/ JudgeGreeting \/ AskAlone \/ AloneAnswers \/ MailAnswers \/ LeaveToWave
  \/ StartProbeWave \/ WaveConnects \/ WaveAnswers \/ JoinWave \/ Replay \/ Compose
  \/ NothingToAsk \/ FinishService \/ CancelProbe \/ TimeRuns

ServiceSpec == ServiceInit /\ [][ServiceNext]_servicevars

-----------------------------------------------------------------------------
(* What the task promises.                                                   *)

ServiceTypeOK ==
  /\ zphase \in {"start", "passive", "judge", "alone", "mail", "wave", "replay", "compose", "final", "done"}
  /\ zserver \in Server
  /\ Len(ServicePlan) <= 6
  \* a plan of n probes costs at most n connections and the one that listens
  /\ zconns <= Len(ServicePlan) + 1
  /\ zout.how \in {"none", "failed", "cancelled", "empty", "done"}

ServiceConcluded == zphase = "done" /\ zout.how = "done"

\* A conclusion is what the server proved, never what its port suggests: the
\* module's "strict evidence" rule.
ProtocolProved ==
  ServiceConcluded =>
    CASE zout.protocol = "unknown" -> ~zout.identified
      [] zout.protocol \in {"ssh", "mysql"} -> zserver.first = zout.protocol
      [] zout.protocol = "tls" -> zserver.tls /\ zout.tls
      [] zout.protocol = "ftp" -> zserver.first = "220" /\ zserver.mail = "ftp"
      [] zout.protocol = "smtp" ->
           IF zout.tls THEN zserver.tls /\ zserver.inside = "smtp"
           ELSE zserver.first = "220" /\ zserver.mail = "smtp"
      [] zout.protocol = "http" /\ zout.tls -> zserver.tls /\ zserver.inside = "http"
      [] OTHER -> zout.protocol \in zserver.answers

\* Whatever order the wave's threads finish in, the answer is the one a
\* sequential run of the same probes would have stopped at: among the wave's
\* answers no classified one stands before the winner in the plan.
WinnerByPlan ==
  ServiceConcluded /\ zwave # <<>> /\ Classified(zwinner) /\ zthread # <<>> =>
    LET first == CHOOSE i \in DOMAIN zwave :
                   /\ \E k \in DOMAIN zthread : zthread[k].probe = zwave[i] /\ Classified(zthread[k])
                   /\ \A j \in 1..(i - 1) : \A k \in DOMAIN zthread :
                        zthread[k].probe = zwave[j] => ~Classified(zthread[k])
    IN  IF zwave[first] = "tls" THEN zwinner.probe \in {"tls", "http", "smtp"} /\ zout.tls
        ELSE zwinner.probe = zwave[first]

\* An observation that does not say "truncated" holds only the server's own
\* silence: nothing in it was dropped by a cancel or by the deadline, and the
\* connection count is the number of sockets opened.
SilenceIsTheServers ==
  ServiceConcluded /\ ~zcut => ~zgaveup /\ zout.connections = Len(zopened)

\* A server that spoke first has a banner in the conclusion, unless it was
\* classified or the plan was cut short.
BannerKept ==
  ServiceConcluded /\ ~zcut /\ ~zout.identified /\ zheard \notin {"unasked", "silence"} => zout.banner # "none"

\* One connection listens; SSH, MySQL and the banner never cost another one
\* after it, and no probe is asked twice.
NoReconnect ==
  /\ \A i, k \in DOMAIN zopened : zopened[i] = zopened[k] => i = k
  /\ zheard # "unasked" => ~Contains(zopened, "ssh") /\ ~Contains(zopened, "mysql")
  \* a greeting that refutes mail is not answered with EHLO
  /\ zheard \in {"line", "silence"} => ~Contains(zopened, "smtp") /\ ~Contains(zopened, "ftp")

ServiceJustified ==
  ProtocolProved /\ WinnerByPlan /\ SilenceIsTheServers /\ BannerKept /\ NoReconnect
=============================================================================
