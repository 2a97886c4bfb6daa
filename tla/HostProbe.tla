----------------------------- MODULE HostProbe -----------------------------
(***************************************************************************)
(* Host discovery (host_discovery.rs, execute_discovery): a target's       *)
(* candidate addresses are probed one after the other, by neighbour        *)
(* discovery, ICMP echo and TCP connects in turn, until one answers; the   *)
(* records of all of them make the host's state (discovery.rs), and the    *)
(* state decides whether the ports are scanned next (decision.rs).         *)
(***************************************************************************)
EXTENDS Naturals, FiniteSets

CONSTANTS Candidates,    \* 1..n, the addresses in the order they are tried (n <= 4)
          MaxEchoes,     \* ICMP attempts for one address
          MaxDoors       \* TCP ports tried for one address

\* A target without candidates ends before any is looked at (HostResolve).
ASSUME HostAssumption == /\ IsFiniteSet(Candidates) /\ Candidates = 1..Cardinality(Candidates)
                         /\ Candidates # {}
                         /\ MaxEchoes \in Nat \ {0} /\ MaxDoors \in Nat

VARIABLES hat,         \* the candidate being probed
          hstage,      \* where its probing stands
          hcount,      \* attempts made in this stage
          hrecords,    \* ProbeRecords: [addr, how, outcome]
          hprimary,    \* primary_ip: the first address probed, 0 when none
          hsetup,      \* the scope's answer for each address, and the policy
          hworld,      \* the token, and whether the task's time is spent
          hresult      \* what the task returns

hostvars == <<hat, hstage, hcount, hrecords, hprimary, hsetup, hworld, hresult>>

Outcomes == {"success", "unreachable", "timeout", "unavailable"}
States == {"alive", "unreachable", "unknown"}

\* A bug: a negative answer is looked for first.
ConcludedNegativeFirst(records) ==
    CASE \E r \in records : r.outcome = "unreachable" -> "unreachable"
      [] /\ \A r \in records : r.outcome # "unreachable"
         /\ \E r \in records : r.outcome = "success" -> "alive"
      [] OTHER -> "unknown"

\* conclude_state: one success makes the host alive; else one definitive
\* negative answer makes it unreachable; else its state is unknown.
Concluded(records) ==
    CASE \E r \in records : r.outcome = "success" -> "alive"
      [] /\ \A r \in records : r.outcome # "success"
         /\ \E r \in records : r.outcome = "unreachable" -> "unreachable"
      [] OTHER -> "unknown"

HostInit ==
    /\ hat = 1 /\ hstage = "resolve" /\ hcount = 0
    /\ hrecords = {} /\ hprimary = 0
    /\ hsetup \in [permitted : SUBSET Candidates, link : BOOLEAN, echo : BOOLEAN, doors : BOOLEAN]
    /\ hworld = [cancelled |-> FALSE, spent |-> FALSE]
    /\ hresult = [kind |-> "none", state |-> "unknown", addr |-> 0]

HostCancel == /\ ~ hworld.cancelled /\ hstage # "over"
              /\ hworld' = [hworld EXCEPT !.cancelled = TRUE]
              /\ UNCHANGED <<hat, hstage, hcount, hrecords, hprimary, hsetup, hresult>>

HostSpend == /\ ~ hworld.spent /\ hstage # "over"
             /\ hworld' = [hworld EXCEPT !.spent = TRUE]
             /\ UNCHANGED <<hat, hstage, hcount, hrecords, hprimary, hsetup, hresult>>

\* The token is looked at before every address and every probe, and by the
\* probes themselves: nothing of what was found is returned.
HostStop ==
    /\ hstage # "over" /\ hworld.cancelled
    /\ hstage' = "over" /\ hresult' = [hresult EXCEPT !.kind = "cancelled"]
    /\ UNCHANGED <<hat, hcount, hrecords, hprimary, hsetup, hworld>>

\* The target's addresses that are in scope, four at most, become the
\* candidates; a target out of scope fails, one without any is unknown.
HostResolve ==
    /\ hstage = "resolve" /\ ~ hworld.cancelled
    /\ \/ hstage' = "begin" /\ UNCHANGED hresult
       \/ hstage' = "over" /\ hresult' = [hresult EXCEPT !.kind = "stale"]
       \/ hstage' = "over" /\ hresult' = [hresult EXCEPT !.kind = "concluded"]
    /\ UNCHANGED <<hat, hcount, hrecords, hprimary, hsetup, hworld>>

\* A bug: the scope was asked for the name only.
InScopeByName(addr) == TRUE

InScope(addr) == addr \in hsetup.permitted

\* An address outside the scope is recorded as unavailable, and not probed.
HostBegin ==
    /\ hstage = "begin" /\ hat \in Candidates /\ ~ hworld.cancelled
    /\ \/ /\ ~ InScope(hat)
          /\ hrecords' = hrecords \cup {[addr |-> hat, how |-> "scope", outcome |-> "unavailable"]}
          /\ hat' = hat + 1
          /\ UNCHANGED <<hstage, hprimary>>
       \/ /\ InScope(hat)
          /\ hprimary' = IF hprimary = 0 THEN hat ELSE hprimary
          /\ hstage' = IF hworld.spent THEN "conclude" ELSE "link"
          /\ UNCHANGED <<hat, hrecords>>
    /\ hcount' = 0
    /\ UNCHANGED <<hsetup, hworld, hresult>>

Note(how, outcome) ==
    hrecords' = hrecords \cup {[addr |-> hat, how |-> how, outcome |-> outcome]}

\* ARP or neighbour solicitation, once, when the policy and the address allow.
HostLink ==
    /\ hstage = "link" /\ ~ hworld.cancelled
    /\ \/ ~ hsetup.link /\ hstage' = "echo" /\ UNCHANGED hrecords
       \/ /\ hsetup.link
          /\ \E o \in {"success", "timeout", "unavailable"} :
                /\ Note("link", o)
                /\ hstage' = IF o = "success" THEN "conclude" ELSE "echo"
    /\ UNCHANGED <<hat, hcount, hprimary, hsetup, hworld, hresult>>

\* One echo of icmp_probe_with_retries: a reply and a missing privilege end
\* the stage, anything else is tried again.
HostEcho ==
    /\ hstage = "echo" /\ ~ hworld.cancelled
    /\ \/ ~ hsetup.echo /\ hstage' = "doors" /\ hcount' = 0 /\ UNCHANGED hrecords
       \/ /\ hsetup.echo
          /\ \E o \in Outcomes :
                /\ Note("echo", o)
                /\ IF o \in {"success", "unavailable"} \/ hcount + 1 = MaxEchoes
                   THEN /\ hstage' = IF Concluded(hrecords') = "alive" THEN "conclude" ELSE "doors"
                        /\ hcount' = 0
                   ELSE hcount' = hcount + 1 /\ UNCHANGED hstage
    /\ UNCHANGED <<hat, hprimary, hsetup, hworld, hresult>>

\* A bug: both the loop and its body go on to the next address.
NextAddressTwice == hat' = hat + 2 /\ hstage' = "begin" /\ hcount' = 0

\* The next address; the state so far is known not to be alive.
NextAddress == hat' = hat + 1 /\ hstage' = "begin" /\ hcount' = 0

\* One TCP reachability probe: an open and a refused port both answer; out of
\* time, the remaining ports of this address are left.
HostDoor ==
    /\ hstage = "doors" /\ ~ hworld.cancelled
    /\ \/ /\ ~ hsetup.doors \/ hcount = MaxDoors \/ hworld.spent
          /\ NextAddress /\ UNCHANGED hrecords
       \/ /\ hsetup.doors /\ hcount < MaxDoors /\ ~ hworld.spent
          /\ \E o \in Outcomes :
                /\ Note("door", o)
                /\ IF o = "success"
                   THEN hstage' = "conclude" /\ UNCHANGED <<hat, hcount>>
                   ELSE hcount' = hcount + 1 /\ UNCHANGED <<hat, hstage>>
    /\ UNCHANGED <<hprimary, hsetup, hworld, hresult>>

\* The result carries the primary address: the first one probed, or the
\* first candidate when none was.
HostConclude ==
    /\ hstage = "conclude" \/ (hstage = "begin" /\ hat \notin Candidates)
    /\ ~ hworld.cancelled
    /\ hstage' = "over"
    /\ hresult' = [kind |-> "concluded", state |-> Concluded(hrecords),
                   addr |-> IF hprimary # 0 THEN hprimary ELSE 1]
    /\ UNCHANGED <<hat, hcount, hrecords, hprimary, hsetup, hworld>>

HostNext == \/ HostStop \/ HostResolve \/ HostBegin \/ HostLink \/ HostEcho \/ HostDoor \/ HostConclude
            \/ HostCancel \/ HostSpend

HostSpec == HostInit /\ [][HostNext]_hostvars

\* TcpDecisionEngine: the address whose ports are scanned next, 0 for none.
PortScanOf(result, eager) ==
    IF result.kind = "concluded" /\ (result.state = "alive" \/ (result.state = "unknown" /\ eager))
    THEN result.addr ELSE 0

-----------------------------------------------------------------------------

HostTypeOK ==
    /\ hat \in Candidates \cup {Cardinality(Candidates) + 1}
    /\ hstage \in {"resolve", "begin", "link", "echo", "doors", "conclude", "over"}
    /\ hcount \in Nat
    /\ hrecords \subseteq [addr : Candidates, how : {"scope", "link", "echo", "door"},
                           outcome : Outcomes]
    /\ hprimary \in Candidates \cup {0}
    /\ hsetup \in [permitted : SUBSET Candidates, link : BOOLEAN, echo : BOOLEAN, doors : BOOLEAN]
    /\ hworld \in [cancelled : BOOLEAN, spent : BOOLEAN]
    /\ hresult \in [kind : {"none", "cancelled", "stale", "concluded"}, state : States,
                    addr : Candidates \cup {0}]

Answered == {r.addr : r \in {q \in hrecords : q.outcome = "success"}}

\* Once an address answered nothing more is probed, and the host is alive
\* exactly when one did; it is unreachable only on a definitive answer, and
\* silence alone, time spent or an empty scope leave it unknown.
HostStateJustified ==
    /\ Answered # {} => hstage \in {"conclude", "over"} /\ Cardinality(Answered) = 1
    /\ hresult.kind = "concluded" =>
         /\ (hresult.state = "alive") <=> (Answered # {})
         /\ hresult.state = "unreachable" => \E r \in hrecords : r.outcome = "unreachable"

\* No address outside the scope is probed, nor handed to the port scan of a
\* host that is alive, although the name resolved to it.
HostStaysInScope ==
    /\ \A r \in hrecords : r.how # "scope" => r.addr \in hsetup.permitted
    /\ hresult.state = "alive" => PortScanOf(hresult, TRUE) \in hsetup.permitted \cup {0}

=============================================================================
