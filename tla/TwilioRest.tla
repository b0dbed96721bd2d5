----------------------------- MODULE TwilioRest -----------------------------
(***************************************************************************)
(* twilio_call.py over _twilio_client.py and _twilio_models.py: placing a  *)
(* call, hanging one up region by region (VR-004), and listing calls page  *)
(* by page (VR-006).  Each is a synchronous function that one thread runs  *)
(* while the call goes on by itself: it may end between two requests, and  *)
(* a request whose answer is lost may have had its effect.                 *)
(***************************************************************************)
EXTENDS Integers, Sequences

CONSTANTS Hosts,        \* the regions, each with its own host and credentials
          Default,      \* where ambient SDK routing leads
          None,
          MaxPages,     \* max_pages
          MaxRegions    \* bound: regions given to hangup_call

RegionLists == UNION {[1..n -> Hosts] : n \in 0..MaxRegions}
Results == {"ok", "rows", "refused", "error", "not_found", "incomplete"}
\* an HTTP status and, where the code tells it apart, Twilio's error code
Replies == {"200", "404/20404", "400/21220", "404", "400", "5xx"}

ASSUME HostsAssumption == Default \in Hosts
ASSUME BoundsAssumption == MaxPages \in Nat \ {0} /\ MaxRegions \in Nat
ASSUME NoneAssumption == None \notin Hosts \cup Results \cup Replies \cup RegionLists

VARIABLES
    op,         \* the function that runs
    usable,     \* which of its arguments and environment variables hold what they must
    regions,    \* its region or regions argument, <<>> for an empty tuple
    at,         \* the call, at each host: absent, live or ended
    sent,       \* the requests, each with its client
    served,     \* history: the pages the provider has sent
    rows,       \* list_calls' accumulated rows, in the pages they came in
    result      \* None until it returns or raises

vars == <<op, usable, regions, at, sent, served, rows, result>>

Needs == {"arguments", "token", "number", "stream", "timeout"}

\* A call record by its start_time; one without an offset, or with a field missing or blank,
\* is unreadable.
Times   == {"after", "before", "unknown", "unreadable"}
\* A continuation, as urlsplit takes it apart; "" is a part that is missing.
Links   == [clean : BOOLEAN, scheme : {"", "https", "http"}, host : {"", "own", "other"},
            path : {"", "collection", "other", "dots"}]
Pages   == [calls : {<<>>} \cup {<<t>> : t \in Times} \cup {<<"before", "after">>},
            next : Links \cup {None}, whole : BOOLEAN]
Clients == [host : Hosts, auth : Hosts \cup {"token"}]
URLs    == [host : {"own", "other"}, path : {"collection", "other"}, scheme : {"https", "http"}]

TypeOK ==
    /\ op \in {"call", "hangup", "list"}
    /\ usable \subseteq Needs
    /\ regions \in RegionLists \cup {None}
    /\ at \in [Hosts -> {"absent", "live", "ended"}]
    /\ sent \in Seq([client : Clients, url : URLs])
    /\ served \in Seq(Pages)
    /\ DOMAIN rows \subseteq DOMAIN served
    /\ result \in Results \cup {None}

Init ==
    /\ op \in {"call", "hangup", "list"}
    /\ usable \in SUBSET Needs
    /\ regions \in RegionLists \cup {None}
    /\ op = "call" /\ regions # None => Len(regions) = 1
    /\ op = "list" => regions # None /\ Len(regions) = 1
    /\ \E home \in Hosts \cup {None} :
          at = [h \in Hosts |-> IF h = home THEN "live" ELSE "absent"]
    /\ sent = <<>> /\ served = <<>> /\ rows = <<>> /\ result = None

-----------------------------------------------------------------------------
(* Clients and requests                                                    *)

ExplicitClient_Env(h) == [host |-> Default, auth |-> h]
\* build_explicit_twilio_client: ambient routing is cleared, the host is the region's
ExplicitClient(h) == [host |-> h, auth |-> h]
\* build_twilio_client
AmbientClient == [host |-> Default, auth |-> "token"]

Collection == [host |-> "own", path |-> "collection", scheme |-> "https"]
Request(client, url) == sent' = Append(sent, [client |-> client, url |-> url])

Ends(r) == result' = r
Same == UNCHANGED <<op, usable, regions>>

\* The call ends by itself.
CallEnds ==
    /\ result = None
    /\ \E h \in Hosts : at[h] = "live" /\ at' = [at EXCEPT ![h] = "ended"]
    /\ UNCHANGED <<sent, served, rows, result>> /\ Same

Ended(h) == [at EXCEPT ![h] = IF @ = "live" THEN "ended" ELSE @]

-----------------------------------------------------------------------------
(* initiate_outbound_call                                                  *)

MayCall == /\ {"stream", "number", "timeout"} \subseteq usable
           /\ (IF regions = None THEN "token" ELSE "arguments") \in usable

InitiateOutboundCall ==
    /\ op = "call" /\ result = None
    /\ \/ ~MayCall /\ Ends("refused") /\ UNCHANGED sent
       \/ /\ MayCall /\ \E r \in {"ok", "error"} : Ends(r)
          /\ Request(IF regions = None THEN AmbientClient ELSE ExplicitClient(regions[1]),
                     Collection)
    /\ UNCHANGED <<at, served, rows>> /\ Same

-----------------------------------------------------------------------------
(* hangup_call                                                             *)

Distinct_Unchecked(s) == s # <<>>
\* _validated_regions
Distinct(s) == s # <<>> /\ \A i, k \in 1..Len(s) : s[i] = s[k] => i = k

Verdict_NotFoundIsDone(reply) ==
    IF reply \in {"200", "404/20404", "400/21220"} THEN "done" ELSE "raise"
\* _complete_call: what an answer proves
Verdict(reply) == CASE reply \in {"200", "400/21220"} -> "done"
                    [] reply = "404/20404"            -> "absent"
                    [] OTHER                          -> "raise"

\* What the provider may answer, and how it leaves the call; None is a lost answer.
Answers(h) ==
    {<<r, at>> : r \in {"404", "400", "5xx", None}} \cup {<<None, Ended(h)>>}
    \cup CASE at[h] = "live"   -> {<<"200", Ended(h)>>}
           [] at[h] = "absent" -> {<<"404/20404", at>>}
           [] at[h] = "ended"  -> {<<"400/21220", at>>}

\* client.calls(sid).update(status="completed"); `more` regions are left
Complete(client, more) ==
    \E a \in Answers(client.host) :
        /\ Request(client, Collection) /\ at' = a[2]
        /\ CASE Verdict(a[1]) = "done"   -> Ends("ok")
             [] Verdict(a[1]) = "absent" -> IF more THEN UNCHANGED result
                                                    ELSE Ends("not_found")
             [] Verdict(a[1]) = "raise"  -> Ends("error")

MayHangup == /\ "timeout" \in usable
             /\ IF regions = None THEN "token" \in usable
                ELSE "arguments" \in usable /\ Distinct(regions)

HangupCall ==
    /\ op = "hangup" /\ result = None
    /\ \/ ~MayHangup /\ Ends("refused") /\ UNCHANGED <<sent, at>>
       \/ MayHangup /\ regions = None /\ Complete(AmbientClient, FALSE)
       \/ /\ MayHangup /\ regions # None
          /\ LET i == Len(sent) + 1
             IN Complete(ExplicitClient(regions[i]), i < Len(regions))
    /\ UNCHANGED <<served, rows>> /\ Same

-----------------------------------------------------------------------------
(* list_calls                                                              *)

\* urljoin of the collection's URL and a link
Resolved(link) ==
    [host   |-> IF link.host = "" THEN "own" ELSE link.host,
     path   |-> IF link.path \in {"", "dots"} THEN "collection" ELSE link.path,
     scheme |-> IF link.scheme = "" THEN "https" ELSE link.scheme]

LeadsHome_SameHost(link) == link.clean /\ link.host # "other"
\* _validated_next_url
LeadsHome(link) ==
    /\ link.clean
    /\ link.scheme # "" => link.scheme = "https" /\ link.host # ""
    /\ link.host # "other" /\ link.path # "dots"
    /\ Resolved(link) = Collection

\* _CallPage, _CallRecord: one record that cannot be read refuses the page
Readable(page) == page.whole /\ \A i \in 1..Len(page.calls) : page.calls[i] # "unreadable"

\* known to be too early is left out, unknown is kept
Wanted(calls) == SelectSeq(calls, LAMBDA t : t \in {"after", "unknown"})

\* before the page that is being read is counted
AtCap == Len(served) + 1 = MaxPages

Outcome_Truncates(link) == CASE link = None      -> "rows"
                             [] link # None /\ ~LeadsHome(link) -> "error"
                             [] OTHER            -> IF AtCap THEN "rows" ELSE None
\* The link is judged before the cap is.
Outcome(link) == CASE link = None                       -> "rows"
                   [] link # None /\ ~LeadsHome(link)   -> "error"
                   [] OTHER -> IF AtCap THEN "incomplete" ELSE None

\* What is done with a page, once it is there
Reads(page) ==
    \/ ~Readable(page) /\ Ends("error") /\ UNCHANGED rows
    \/ Readable(page) /\ rows' = Append(rows, Wanted(page.calls)) /\ Ends(Outcome(page.next))

\* TwilioRegion, _validate_list_query
MayList == {"arguments", "timeout"} \subseteq usable

ListCalls ==
    /\ op = "list" /\ result = None
    /\ \/ ~MayList /\ Ends("refused") /\ UNCHANGED <<sent, served, rows>>
       \/ /\ MayList
          /\ Request(ExplicitClient(regions[1]),
                     IF served = <<>> THEN Collection ELSE Resolved(served[Len(served)].next))
          /\ \/ Ends("error") /\ UNCHANGED <<served, rows>>
             \/ \E page \in Pages : served' = Append(served, page) /\ Reads(page)
    /\ UNCHANGED at /\ Same

-----------------------------------------------------------------------------
Next == CallEnds \/ InitiateOutboundCall \/ HangupCall \/ ListCalls

Spec == Init /\ [][Next]_vars

-----------------------------------------------------------------------------
(* Properties                                                              *)

Asked == [i \in 1..Len(sent) |-> sent[i].client.host]

TerminalProven ==
    op = "hangup" /\ result = "ok" => \E i \in 1..Len(sent) : at[Asked[i]] = "ended"

AbsenceProven ==
    op = "hangup" /\ result = "not_found" =>
        IF regions = None THEN at[Default] = "absent"
        ELSE Asked = regions /\ \A i \in 1..Len(sent) : at[Asked[i]] = "absent"

\* VR-004: hangup_call returns only when the call has ended at a host it asked, and says
\* that there is no such call only when every region said so.
HangupProven == TerminalProven /\ AbsenceProven

\* A region is asked once, in the order given, and the next only if the call is not there:
\* an error in one region, or a call that has ended, stops the search.
AskedInOrder ==
    op = "hangup" /\ sent # <<>> /\ regions # None =>
        /\ \A i, k \in 1..Len(sent) : Asked[i] = Asked[k] => i = k
        /\ Asked = SubSeq(regions, 1, Len(sent))
        /\ \A i \in 1..Len(sent) - 1 : at[Asked[i]] = "absent"

\* A region's credentials go to that region's host, and no other request is made for it.
RegionIsolated ==
    \A i \in 1..Len(sent) : LET c == sent[i].client
                            IN IF regions = None THEN c = AmbientClient
                               ELSE c.auth = c.host /\ \E k \in 1..Len(regions) :
                                                            c.host = regions[k]

\* VR-006: list_calls returns every row the provider has, from pages that it could all read,
\* or raises; it says that the list is incomplete only if it is.
ListHonest ==
    op = "list" =>
        /\ result = "rows" =>
              /\ served[Len(served)].next = None
              /\ \A i \in 1..Len(served) : Readable(served[i])
              /\ rows = [i \in 1..Len(served) |-> Wanted(served[i].calls)]
        /\ result = "incomplete" => /\ Len(served) = MaxPages
                                    /\ served[Len(served)].next # None

StaysHome == \A i \in 1..Len(sent) : sent[i].url = Collection
Bounded   == op = "list" => Len(sent) <= MaxPages

\* Continuations are followed only within the collection, and only so many times.
SafelyPaged == StaysHome /\ Bounded
=============================================================================
