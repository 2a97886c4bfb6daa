------------------------------ MODULE WebFetch ------------------------------
(* One web probe task (src/src/web_probe.rs) and the requests it makes       *)
(* (src/src/web.rs): start URLs, redirect chains behind the scope, addresses *)
(* tried one after the other, and responses read up to their bounds.         *)
EXTENDS Naturals, Sequences, FiniteSets, FiniteSetsExt, SequencesExt

CONSTANTS FetchWorlds,   \* [task, level, permitted, answer, resolves, size, flips]
          BodyCap,       \* MAX_WEB_BODY_BYTES
          MaxDials,      \* MAX_DIAL_ADDRESSES
          ChunkSizes     \* bytes that one read may return

VARIABLES yworld, ypermitted, ycancel, ylate,
          ystarts,     \* start URLs not taken yet
          ychain,      \* the redirect chain at hand, or NoChain
          ydials,      \* addresses of the current URL not tried
          yread,       \* the response being read, or NoRead
          yseen,       \* observations: [url, address, whole, cut]
          ynotes,      \* [url, why]: URLs that were not fetched
          ycontacts,   \* ghost: [url, address, start] in order
          yend         \* "no", "done", "cancelled" or "refused"

fetchvars == <<yworld, ypermitted, ycancel, ylate, ystarts, ychain, ydials, yread, yseen, ynotes, ycontacts, yend>>

HostOf(url) == url[2]
IsLiteral(host) == host \in {"ip1", "ip2", "ip3"}

\* A read returns no more than a body may have; the addresses of a name are
\* sorted, each there once.
ASSUME FetchAssumption ==
  /\ BodyCap \in Nat /\ MaxDials \in Nat \ {0} /\ ChunkSizes \subseteq 1..BodyCap
  /\ \A w \in FetchWorlds :
       /\ w.level \in Nat /\ w.size \in Nat
       /\ w.task.kind \in {"none", "host", "url"} /\ (w.task.kind = "url" => w.task.url # <<>>)
       /\ IsFiniteSet(w.task.ports)
       /\ \A h \in w.permitted : IsLiteral(h) \/ h \in DOMAIN w.resolves
       /\ \A h \in DOMAIN w.resolves :
            w.resolves[h] \in Seq(ToSet(w.resolves[h])) /\ IsInjective(w.resolves[h])

NoChain == [start |-> <<>>, url |-> <<>>, visited |-> {}, steps |-> 0]
NoRead == [phase |-> "none", address |-> "none", head |-> 0, body |-> 0, left |-> 0, why |-> "open"]
NotePut(url, why) == ynotes \cup {[url |-> url, why |-> why]}

\* WebPolicy.
MaxRedirectsAt(level) == CASE level <= 2 -> 0 [] level = 3 -> 2 [] OTHER -> 4
WantsBody == yworld.level >= 3

\* plan_start_urls: a proposed URL, the URL of the scope, or the roots.
PlanStarts(task) ==
  CASE task.kind = "url" -> <<task.url>>
    [] task.kind = "host" /\ task.ports = {} -> <<<<"http", task.host, "/">>, <<"https", task.host, "/">>>>
    [] task.kind = "host" /\ task.ports # {} -> SetToSeq({<<"http", task.host, port>> : port \in task.ports})
    [] task.kind = "none" -> <<>>

FetchInit ==
  /\ yworld \in FetchWorlds /\ ypermitted = yworld.permitted /\ ycancel = FALSE /\ ylate = FALSE
  /\ yend = (IF yworld.task.kind = "none" \/ yworld.task.host \notin yworld.permitted THEN "refused" ELSE "no")
  /\ ystarts = PlanStarts(yworld.task) /\ ychain = NoChain /\ ydials = <<>> /\ yread = NoRead
  /\ yseen = {} /\ ynotes = {} /\ ycontacts = <<>>

-----------------------------------------------------------------------------
(* What happens around it.                                                   *)

FetchCancel == /\ ~ycancel /\ yend = "no" /\ ycancel' = TRUE
               /\ UNCHANGED <<yworld, ypermitted, ylate, ystarts, ychain, ydials, yread, yseen, ynotes, ycontacts, yend>>
\* Less than half a second of the task is left; the deadline itself may come.
FetchLate == /\ ~ylate /\ yend = "no" /\ ylate' = TRUE
             /\ UNCHANGED <<yworld, ypermitted, ycancel, ystarts, ychain, ydials, yread, yseen, ynotes, ycontacts, yend>>
ScopeShrinks(host) ==
  /\ host \in ypermitted \cap yworld.flips /\ yend = "no" /\ ypermitted' = ypermitted \ {host}
  /\ UNCHANGED <<yworld, ycancel, ylate, ystarts, ychain, ydials, yread, yseen, ynotes, ycontacts, yend>>

\* Every loop asks for the cancellation first, and then nothing is reported.
Working == yend = "no" /\ ~ycancel
FetchStops ==
  /\ yend = "no" /\ ycancel /\ yend' = "cancelled" /\ yseen' = {}
  /\ UNCHANGED <<yworld, ypermitted, ycancel, ylate, ystarts, ychain, ydials, yread, ynotes, ycontacts>>

-----------------------------------------------------------------------------
(* Start URLs and hops.                                                      *)

TakeStart ==
  /\ Working /\ ychain = NoChain /\ ystarts # <<>>
  /\ LET url == Head(ystarts)
     IN  IF ylate
         THEN /\ ystarts' = <<>> /\ ynotes' = NotePut(url, "late") /\ UNCHANGED ychain
         ELSE /\ ystarts' = Tail(ystarts)
              /\ IF HostOf(url) \in ypermitted
                 THEN /\ ychain' = [start |-> url, url |-> url, visited |-> {}, steps |-> 0]
                      /\ UNCHANGED ynotes
                 ELSE ynotes' = NotePut(url, "outside") /\ UNCHANGED ychain
  /\ UNCHANGED <<yworld, ypermitted, ycancel, ylate, ydials, yread, yseen, ycontacts, yend>>

AtHop == Working /\ ychain # NoChain /\ ydials = <<>> /\ yread = NoRead

\* The addresses that may be dialled: a literal, or the first permitted ones a
\* name resolves to.
FirstPermitted(addresses, permitted) ==
  LET fit[k \in 0..Len(addresses)] ==
        IF k = 0 THEN <<>>
        ELSE IF addresses[k] \in permitted /\ Len(fit[k - 1]) < MaxDials THEN Append(fit[k - 1], addresses[k])
        ELSE fit[k - 1]
  IN  fit[Len(addresses)]
Dialled(url, permitted) ==
  IF IsLiteral(HostOf(url)) THEN (IF HostOf(url) \in permitted THEN <<HostOf(url)>> ELSE <<>>)
  ELSE FirstPermitted(yworld.resolves[HostOf(url)], permitted)

\* The scope is asked again for the hop, and for each address.
TakeHop(stop) ==
  /\ AtHop /\ (stop => ylate)
  /\ LET url == ychain.url dials == Dialled(url, ypermitted)
         refused == IF stop THEN "late" ELSE IF url \in ychain.visited THEN "loop"
                    ELSE IF HostOf(url) \notin ypermitted THEN "outside"
                    ELSE IF dials = <<>> THEN "no address" ELSE "none"
     IN  IF refused # "none"
         THEN ychain' = NoChain /\ ynotes' = NotePut(url, refused) /\ UNCHANGED ydials
         ELSE ychain' = [ychain EXCEPT !.visited = @ \cup {url}] /\ ydials' = dials /\ UNCHANGED ynotes
  /\ UNCHANGED <<yworld, ypermitted, ycancel, ylate, ystarts, yread, yseen, ycontacts, yend>>

\* A connection is tried, and the next address when it fails; one that cannot
\* be had at all, or not before the deadline, is a note.
Dial(answers) ==
  /\ Working /\ ydials # <<>> /\ yread = NoRead
  /\ ycontacts' = Append(ycontacts, [url |-> ychain.url, address |-> Head(ydials), start |-> ychain.start])
  /\ IF answers
     THEN /\ yread' = [NoRead EXCEPT !.phase = "head", !.address = Head(ydials), !.left = yworld.size]
          /\ ydials' = <<>> /\ UNCHANGED <<ychain, ynotes>>
     ELSE /\ ydials' = Tail(ydials) /\ UNCHANGED yread
          /\ IF Tail(ydials) # <<>> THEN UNCHANGED <<ychain, ynotes>>
             ELSE ychain' = NoChain /\ ynotes' = NotePut(ychain.url, "unreachable")
  /\ UNCHANGED <<yworld, ypermitted, ycancel, ylate, ystarts, yseen, yend>>
GiveUpDialling ==
  /\ Working /\ ylate /\ ydials # <<>>
  /\ ydials' = <<>> /\ ychain' = NoChain /\ ynotes' = NotePut(ychain.url, "unreachable")
  /\ UNCHANGED <<yworld, ypermitted, ycancel, ylate, ystarts, yread, yseen, ycontacts, yend>>

\* A deadline that comes inside the connection is told as a cancellation, and
\* the task loses what it has seen.
DeadlineInConnect ==
  /\ Working /\ ylate /\ ydials # <<>> /\ yend' = "cancelled" /\ yseen' = {}
  /\ UNCHANGED <<yworld, ypermitted, ycancel, ylate, ystarts, ychain, ydials, yread, ynotes, ycontacts>>

-----------------------------------------------------------------------------
(* Reading a response. Its head is one unit long here; the rest is body.     *)

Reading == Working /\ yread.phase \in {"head", "body"}
ReadStep(next) ==
  /\ Reading /\ yread' = next
  /\ UNCHANGED <<yworld, ypermitted, ycancel, ylate, ystarts, ychain, ydials, yseen, ynotes, ycontacts, yend>>

\* Bytes that came with the head count against the body's budget.
ReadHead(piece) ==
  /\ yread.phase = "head" /\ piece \in 1..yread.left
  /\ ReadStep([yread EXCEPT !.phase = IF WantsBody THEN "body" ELSE "end", !.head = 1, !.why = IF WantsBody THEN "open" ELSE "whole",
                            !.body = IF WantsBody THEN piece - 1 ELSE 0, !.left = @ - piece])

\* read_bounded_body fills its own budget, and the surplus is put in front.
BodyRoom == BodyCap - yread.body
ReadBody(piece) ==
  /\ yread.phase = "body" /\ piece \in 1..yread.left
  /\ LET kept == Min({piece, BodyRoom})
     IN  ReadStep([yread EXCEPT !.body = @ + kept, !.left = @ - piece,
                                !.why = IF kept < piece THEN "size" ELSE "open",
                                !.phase = IF yread.body + kept >= BodyCap THEN "end" ELSE "body"])

\* The end of the stream, a pause of half a second, or the time: the response
\* is taken as it is, without a mark.
ReadEnds == yread.phase \in {"head", "body"} /\ ReadStep([yread EXCEPT !.phase = "end", !.why = IF yread.left = 0 THEN "whole" ELSE "stopped"])

-----------------------------------------------------------------------------
(* What it says.                                                             *)

\* parse_response: the mark compares sizes, whatever ended the reading.
Marked == yread.body >= BodyCap
Observation == [url |-> ychain.url, address |-> yread.address, body |-> yread.body, why |-> yread.why, cut |-> Marked]

AnswerOf(url) == IF yread.head = 0 THEN [kind |-> "garbage", to |-> <<>>] ELSE yworld.answer[url]
WhyNotFollowed(answer) ==
  CASE ychain.steps >= MaxRedirectsAt(yworld.level) -> "cap"
    [] ychain.steps < MaxRedirectsAt(yworld.level) /\ answer.kind = "malformed" -> "malformed"
    [] ychain.steps < MaxRedirectsAt(yworld.level) /\ answer.kind = "redirect" /\ answer.to \in ychain.visited -> "loop"
    [] OTHER -> IF HostOf(answer.to) \in ypermitted THEN "none" ELSE "outside"
EndChain(note) == ychain' = NoChain /\ ynotes' = note

Interpret ==
  /\ Working /\ yread.phase = "end" /\ yread' = NoRead
  /\ LET answer == AnswerOf(ychain.url)
     IN  IF answer.kind = "garbage"
         THEN EndChain(NotePut(ychain.url, "not http")) /\ UNCHANGED yseen
         ELSE /\ yseen' = yseen \cup {Observation}
              /\ IF answer.kind = "page" THEN EndChain(ynotes)
                 ELSE LET why == WhyNotFollowed(answer)
                      IN  IF why # "none" THEN EndChain(NotePut(ychain.url, why))
                          ELSE /\ ychain' = [ychain EXCEPT !.url = answer.to, !.steps = @ + 1]
                               /\ UNCHANGED ynotes
  /\ UNCHANGED <<yworld, ypermitted, ycancel, ylate, ystarts, ydials, ycontacts, yend>>

FinishTask ==
  /\ Working /\ ystarts = <<>> /\ ychain = NoChain /\ yend' = "done"
  /\ UNCHANGED <<yworld, ypermitted, ycancel, ylate, ystarts, ychain, ydials, yread, yseen, ynotes, ycontacts>>

FetchLoop == TakeStart \/ (\E b \in BOOLEAN : TakeHop(b) \/ Dial(b)) \/ GiveUpDialling \/ DeadlineInConnect \/ ReadEnds \/ Interpret \/ FinishTask \/ FetchStops
               \/ \E piece \in ChunkSizes : ReadHead(piece) \/ ReadBody(piece)
FetchNext == FetchLoop \/ FetchCancel \/ FetchLate \/ \E host \in yworld.flips : ScopeShrinks(host)
FetchSpec == FetchInit /\ [][FetchNext]_fetchvars

-----------------------------------------------------------------------------
(* What the task promises.                                                   *)

FetchTypeOK ==
  /\ yread.body <= BodyCap /\ yread.phase \in {"none", "head", "body", "end"}
  /\ ychain.steps <= MaxRedirectsAt(yworld.level) /\ Len(ydials) <= MaxDials

\* No redirect and no name leads out of the scope: whatever was connected to is
\* a permitted address, for a URL whose host is permitted.
StaysInScope ==
  \A k \in DOMAIN ycontacts :
    ycontacts[k].address \in yworld.permitted /\ HostOf(ycontacts[k].url) \in yworld.permitted

\* A chain asks for each URL at most once, for no more URLs than the level's
\* cap and the first, and for none that redirects did not lead to.
UrlsOf(start) == {ycontacts[k].url : k \in {k \in DOMAIN ycontacts : ycontacts[k].start = start}}
ChainsBounded ==
  \A start \in {ycontacts[k].start : k \in DOMAIN ycontacts} :
    /\ Cardinality(UrlsOf(start)) <= 1 + MaxRedirectsAt(yworld.level)
    /\ \A i, k \in DOMAIN ycontacts :
         ycontacts[i].start = start /\ ycontacts[k].start = start /\ i < k /\ ycontacts[i].url = ycontacts[k].url =>
           /\ \A j \in i..k : ycontacts[j].url = ycontacts[i].url
           /\ \A j \in (i + 1)..k : ycontacts[j].address # ycontacts[i].address

\* A task that ends says something of every start URL: it was observed, or why
\* it was not; a cancelled one reports nothing.
StartsAccounted ==
  /\ yend = "done" => \A k \in DOMAIN PlanStarts(yworld.task) :
       LET start == PlanStarts(yworld.task)[k]
       IN  \/ \E o \in yseen : o.url = start
           \/ \E n \in ynotes : n.url = start
           \/ \E n \in ynotes : n.why = "late"
  /\ yend = "cancelled" => yseen = {}

\* A body that lost bytes to the bound is marked as cut; one that the time or a
\* pause cut short is not.
SizeCutsMarked == \A o \in yseen : o.why = "size" => o.cut
FetchSound == StaysInScope /\ ChainsBounded /\ StartsAccounted /\ SizeCutsMarked
=============================================================================
