----------------------------- MODULE MCHistory -----------------------------
(* What runs leave behind for TLC: the project database, with two processes  *)
(* at a time and three runs or comparisons in all, of scans and of           *)
(* investigations that came to five things; and a monitor's state directory, *)
(* with two schedules of two scans that came to five things.                 *)
EXTENDS ProjectHistory, Monitor, TLC

\* What is stored in the database: of one host, a web server, a TLS port and a
\* name, and of one account.
Host == <<"ip_address", "h">>
Web == <<"port", "web">>
Tls == <<"port", "tls">>
Name == <<"hostname", "n">>
Account == <<"account", "a">>
Username == <<"username", "u">>
Nothing == << >>

Asked(module, about, succeeded) == [module |-> <<"task", module>>, about |-> about, succeeded |-> succeeded]

\* A scan that asked for the ports `asked` and for the name, but for the name in
\* vain when it was not whole, that saw `seen`, made handshakes with `shaken`,
\* and found the web server at `version`.
Scanned(whole, asked, seen, shaken, version) ==
  LET web == Web \in seen
  IN [workflow |-> "scan", truncated |-> ~whole,
      tasks |-> {Asked("HostDiscovery", {Host}, TRUE), Asked("PortDiscovery", asked, TRUE),
                 Asked("DnsProbe", {Name}, whole)},
      graph |-> [e \in seen |-> <<"rxscan", "scan">>],
      links |-> IF {Name, Host} \subseteq seen THEN {<<Name, Host, "resolves_to">>} ELSE {},
      facts |-> IF web THEN (<<"service", Web>> :> <<"nginx", version>>) ELSE Nothing,
      postures |-> [p \in shaken |-> "old"], candidates |-> IF web THEN (<<"os", Host>> :> "unix") ELSE Nothing,
      software |-> IF web THEN {<<"nginx", version>>} ELSE {},
      vulns |-> IF web /\ version = "1"
                THEN (<<"advisory", "nginx", "1">> :> [outcome |-> "matched", dataset |-> "d", confidence |-> 80])
                ELSE Nothing]

\* An investigation of the name whose provider answered, or was blocked.
Investigated(status, accounts) ==
  [workflow |-> "investigation", truncated |-> FALSE,
   observed |-> {[transform |-> "username_to_account", input |-> Username, status |-> status]},
   graph |-> [e \in accounts \cup {Username} |->
                <<"investigate", IF e = Username THEN "seed" ELSE "username_to_account">>],
   links |-> {<<Username, e, "has_account">> : e \in accounts},
   facts |-> Nothing, postures |-> Nothing, candidates |-> Nothing, software |-> {}, vulns |-> Nothing]

FiveOutcomes ==
  {Scanned(TRUE, {Web, Tls}, {Host, Web, Tls, Name}, {Tls}, "1"), Scanned(TRUE, {Web}, {Host}, {}, "1"),
   Scanned(FALSE, {Web, Tls}, {Host, Web}, {}, "2"),
   Investigated("completed", {Account}), Investigated("blocked", {})}

\* A scan that was cut short after one that was not, and a search whose provider
\* was blocked after one where it answered.
FourOutcomes ==
  {Scanned(TRUE, {Web}, {Host, Web}, {}, "1"), Scanned(FALSE, {Web}, {Host}, {}, "1"),
   Investigated("completed", {Account}), Investigated("blocked", {})}

\* What is monitored: a TCP and a UDP port, a service, a page, a name's address
\* and a finding, all of one host.
Port == <<"asset", <<"port", "tcp", 80>>>>
Udp == <<"asset", <<"port", "udp", 53>>>>
Service == <<"asset", <<"service", "web">>>>
Page == <<"asset", <<"url", "u">>>>
Address == <<"relationship", <<"a", "n", "h">>>>
Finding == <<"finding", <<"f">>>>

Task(kind, state, asked) == [kind |-> kind, state |-> state, asked |-> asked]
Linked == [content |-> FALSE, param |-> "", depth |-> 1, status |-> TRUE]

\* A scan of `target` at `level`, whose tasks asked for `ports` and, but for one
\* task for ports and the one for the name, succeeded.
Ended(target, level, ports, state, seen) ==
  [targets |-> target, scope |-> level, level |-> level,
   tasks |-> {Task("PortDiscovery", s, {<<"port", p>> : p \in ports}) : s \in {"succeeded", state}}
            \cup {Task("UdpDiscovery", "succeeded", {<<"port", 53>>}), Task("DnsProbe", state, {<<"record", "a">>}),
                  Task("ServiceProbe", "succeeded", {}), Task("Crawl", "succeeded", {<<"depth", 1>>}),
                  Task("HttpProbe", "succeeded", {})},
   seen |-> [e \in seen |-> IF e = Page THEN Linked ELSE [Linked EXCEPT !.depth = IF e = Finding THEN level ELSE 0]]]

FiveScans ==
  {Ended("h", 3, {80, 53}, "succeeded", {Port, Udp, Service, Page, Address, Finding}),
   Ended("h", 3, {443}, "succeeded", {Udp}), Ended("h", 3, {80, 53}, "failed", {Finding}),
   Ended("h", 2, {80, 53}, "succeeded", {Finding}), Ended("g", 3, {80, 53}, "succeeded", {Port})}

OneTwoOne == [added |-> 1, removed |-> 2, changed |-> 1]

VARIABLE focus \* whether this behaviour is about the database or a monitor

MCInit == focus \in {"database", "monitor"} /\ HistoryInit /\ MonitorInit

MCNext ==
  /\ UNCHANGED focus
  /\ \/ focus = "database" /\ HistoryNext /\ UNCHANGED monitorvars
     \/ focus = "monitor" /\ MonitorNext /\ UNCHANGED historyvars

MCSpec == MCInit /\ [][MCNext]_<<historyvars, monitorvars, focus>>

\* The database's tables agree with the runs it keeps, and the removals it
\* keeps are those of entities looked for and not seen.
DatabaseExact == focus = "database" => HistoryExact

\* Monitors tell of confirmed changes only, of consecutive scans, in order.
MonitorExact == focus = "monitor" => ScheduleExact
=============================================================================
