-------------------------- MODULE TwilioRestProofs --------------------------
(***************************************************************************)
(* What holds of TwilioRest for any number of hosts, any list of regions,  *)
(* any answers and any number of pages.                                    *)
(***************************************************************************)
EXTENDS TwilioRest, SequenceTheorems, TLAPS

States == {"absent", "live", "ended"}
Call   == [client : Clients, url : URLs]

\* the host that the i-th of the requests q goes to
HostIn(q, i) == q[i].client.host

\* What hangup_call knows while it runs and when it returns: it has asked the first regions
\* of its list, and the call is at none of them but, perhaps, the last.
HangupInv ==
    op = "hangup" =>
       /\ sent # <<>> /\ regions # None => /\ Distinct(regions) /\ Len(sent) <= Len(regions)
                                           /\ \A i \in 1..Len(sent) :
                                                 sent[i].client = ExplicitClient(regions[i])
       /\ regions = None => /\ Len(sent) <= 1
                            /\ \A i \in 1..Len(sent) : sent[i].client = AmbientClient
       /\ \A i \in 1..Len(sent) - 1 : at[HostIn(sent, i)] = "absent"
       /\ result = None /\ sent # <<>> => /\ regions # None /\ Len(sent) < Len(regions)
                                          /\ at[HostIn(sent, Len(sent))] = "absent"
       /\ result = "ok" => sent # <<>> /\ at[HostIn(sent, Len(sent))] = "ended"
       /\ result = "not_found" => /\ sent # <<>> /\ at[HostIn(sent, Len(sent))] = "absent"
                                  /\ regions # None => Len(sent) = Len(regions)

\* The two other functions use one client for all that they ask.
OthersInv ==
    /\ op = "list" => /\ regions # None /\ Len(regions) = 1
                      /\ \A i \in 1..Len(sent) : sent[i].client = ExplicitClient(regions[1])
    /\ op = "call" => /\ regions # None => Len(regions) = 1
                      /\ \A i \in 1..Len(sent) :
                            sent[i].client = IF regions = None THEN AmbientClient
                                             ELSE ExplicitClient(regions[1])
                      /\ result = None => sent = <<>>

\* While list_calls runs, the last page it has leads on within the collection, and there is
\* room for another.
ListInv ==
    op = "list" =>
       /\ Len(sent) <= MaxPages
       /\ result = None => /\ Len(sent) = Len(served) /\ Len(served) < MaxPages
                           /\ served # <<>> => LeadsHome(served[Len(served)].next)

\* What list_calls has kept: the wanted rows of every page, until one cannot be read, and
\* nothing is left behind the last page when it returns.
AllKept == /\ \A i \in 1..Len(served) : Readable(served[i])
           /\ rows = [i \in 1..Len(served) |-> Wanted(served[i].calls)]
RowsInv ==
    /\ DOMAIN rows \subseteq DOMAIN served
    /\ op = "list" =>
       /\ result \in {None, "rows"} => AllKept
       /\ result = "rows" => served # <<>> /\ served[Len(served)].next = None
       /\ result = "incomplete" => /\ Len(served) = MaxPages
                                   /\ served[Len(served)].next # None

\* As far as types matter here
Shape ==
    /\ op \in {"call", "hangup", "list"}
    /\ regions \in RegionLists \cup {None}
    /\ at \in [Hosts -> States]
    /\ sent \in Seq(Call)
    /\ served \in Seq(Pages)
    /\ result \in Results \cup {None}

Inv == Shape /\ HangupInv /\ OthersInv /\ ListInv /\ StaysHome

-----------------------------------------------------------------------------
(* Operators                                                               *)

LEMMA RegionListIsSeq ==
    ASSUME NEW r \in RegionLists
    PROVE  r \in Seq(Hosts) /\ Len(r) \in Nat /\ \A i \in 1..Len(r) : r[i] \in Hosts
<1>1. PICK n \in Nat : r \in [1..n -> Hosts] BY BoundsAssumption DEF RegionLists
<1>2. r \in Seq(Hosts) BY <1>1, SeqDef
<1> QED BY <1>2, LenProperties, ElementOfSeq

LEMMA NoneIsNoResult == None \notin Results /\ None \notin Replies /\ None \notin RegionLists
BY NoneAssumption

LEMMA CollectionIsURL == Collection \in URLs
BY DEF Collection, URLs

\* What an answer to a hangup says of the call, and that a call that is not there stays so.
LEMMA AnswerProves ==
    ASSUME at \in [Hosts -> States], NEW h \in Hosts, NEW a \in Answers(h)
    PROVE  /\ a[2] \in [Hosts -> States]
           /\ \A g \in Hosts : at[g] = "absent" => a[2][g] = "absent"
           /\ \A g \in Hosts : at[g] = "ended" => a[2][g] = "ended"
           /\ Verdict(a[1]) = "done" => a[2][h] = "ended"
           /\ Verdict(a[1]) = "absent" => a[2][h] = "absent"
           /\ Verdict(a[1]) \in {"done", "absent", "raise"}
<1>1. Ended(h) \in [Hosts -> States] /\ \A g \in Hosts : at[g] # "live" => Ended(h)[g] = at[g]
  BY DEF Ended, States
<1>2. at[h] = "live" => Ended(h)[h] = "ended" BY DEF Ended
<1>3. Verdict("200") = "done" /\ Verdict("400/21220") = "done" /\ Verdict("404/20404") = "absent"
  BY DEF Verdict
<1>4. \A r : r \notin {"200", "400/21220", "404/20404"} => Verdict(r) = "raise" BY DEF Verdict
<1>5. None \notin Replies BY NoneIsNoResult
<1>6. \/ \E r \in {"404", "400", "5xx", None} : a = <<r, at>>
      \/ a = <<None, Ended(h)>>
      \/ at[h] = "live" /\ a = <<"200", Ended(h)>>
      \/ at[h] = "absent" /\ a = <<"404/20404", at>>
      \/ at[h] = "ended" /\ a = <<"400/21220", at>>
  <2>1. at[h] \in States OBVIOUS
  <2> QED BY <2>1 DEF Answers, States
<1>7. CASE \E r \in {"404", "400", "5xx", None} : a = <<r, at>> BY <1>4, <1>5, <1>7 DEF Replies
<1>8. CASE a = <<None, Ended(h)>> BY <1>1, <1>4, <1>5, <1>8 DEF Replies
<1>9. CASE at[h] = "live" /\ a = <<"200", Ended(h)>> BY <1>1, <1>2, <1>3, <1>9
<1>10. CASE at[h] = "absent" /\ a = <<"404/20404", at>> BY <1>3, <1>10
<1>11. CASE at[h] = "ended" /\ a = <<"400/21220", at>> BY <1>3, <1>11
<1> QED BY <1>6, <1>7, <1>8, <1>9, <1>10, <1>11

LEMMA RequestAppends ==
    ASSUME sent \in Seq(Call), NEW c \in Clients, NEW u \in URLs, Request(c, u)
    PROVE  /\ sent' \in Seq(Call) /\ sent' # <<>>
           /\ Len(sent) \in Nat /\ Len(sent') = Len(sent) + 1
           /\ \A i \in 1..Len(sent) : sent'[i] = sent[i]
           /\ sent'[Len(sent) + 1].client = c /\ sent'[Len(sent) + 1].url = u
<1>1. [client |-> c, url |-> u] \in Call BY DEF Call
<1>2. sent' = Append(sent, [client |-> c, url |-> u]) BY DEF Request
<1> QED BY <1>1, <1>2, AppendProperties, LenProperties

LEMMA ClientTypes ==
    /\ AmbientClient \in Clients
    /\ \A h \in Hosts : ExplicitClient(h) \in Clients /\ ExplicitClient(h).host = h
BY HostsAssumption DEF AmbientClient, ExplicitClient, Clients

\* A request to where the call is not leaves the search as it was, but for its end.
LEMMA CompleteStep ==
    ASSUME Inv, op = "hangup", result = None, NEW c \in Clients, NEW more \in BOOLEAN,
           Complete(c, more), UNCHANGED <<op, regions, served>>,
           IF regions = None THEN c = AmbientClient /\ ~more
           ELSE /\ Distinct(regions) /\ Len(sent) + 1 <= Len(regions)
                /\ c = ExplicitClient(regions[Len(sent) + 1])
                /\ more <=> Len(sent) + 1 < Len(regions)
    PROVE  Inv'
<1>. DEFINE n == Len(sent)
<1>1. PICK a \in Answers(c.host) :
        /\ Request(c, Collection) /\ at' = a[2]
        /\ CASE Verdict(a[1]) = "done"   -> Ends("ok")
             [] Verdict(a[1]) = "absent" -> IF more THEN UNCHANGED result
                                                    ELSE Ends("not_found")
             [] Verdict(a[1]) = "raise"  -> Ends("error")
  BY DEF Complete
<1>2. c.host \in Hosts BY DEF Clients
<1>3. /\ at' \in [Hosts -> States]
      /\ \A g \in Hosts : at[g] = "absent" => at'[g] = "absent"
      /\ Verdict(a[1]) = "done" => at'[c.host] = "ended"
      /\ Verdict(a[1]) = "absent" => at'[c.host] = "absent"
      /\ Verdict(a[1]) \in {"done", "absent", "raise"}
  BY <1>1, <1>2, AnswerProves DEF Inv, Shape
<1>4. \/ Verdict(a[1]) = "done" /\ result' = "ok"
      \/ Verdict(a[1]) = "absent" /\ more /\ result' = None
      \/ Verdict(a[1]) = "absent" /\ ~more /\ result' = "not_found"
      \/ Verdict(a[1]) = "raise" /\ result' = "error"
  <2>1. CASE Verdict(a[1]) = "done" BY <1>1, <2>1 DEF Ends
  <2>2. CASE Verdict(a[1]) = "absent" BY <1>1, <2>2 DEF Ends
  <2>3. CASE Verdict(a[1]) = "raise" BY <1>1, <2>3 DEF Ends
  <2> QED BY <1>3, <2>1, <2>2, <2>3
<1>5. /\ sent' \in Seq(Call) /\ sent' # <<>> /\ n \in Nat /\ Len(sent') = n + 1
      /\ \A i \in 1..n : sent'[i] = sent[i]
      /\ sent'[n + 1].client = c /\ sent'[n + 1].url = Collection
  BY <1>1, CollectionIsURL, RequestAppends DEF Inv, Shape
<1>6. \A i \in 1..n : HostIn(sent, i) \in Hosts
  <2>1. \A i \in 1..n : sent[i] \in Call BY ElementOfSeq DEF Inv, Shape
  <2> QED BY <2>1 DEF HostIn, Call, Clients
<1>7. HostIn(sent', n + 1) = c.host /\ \A i \in 1..n : HostIn(sent', i) = HostIn(sent, i) BY <1>5 DEF HostIn
<1>8. Shape'
  <2>1. result' \in Results \cup {None} BY <1>4 DEF Results
  <2> QED BY <1>3, <1>5, <2>1 DEF Inv, Shape
<1>9. HangupInv'
  <2>1. \A i \in 1..n : at[HostIn(sent, i)] = "absent"
    <3>1. CASE sent = <<>> BY <3>1, EmptySeq
    <3>2. CASE sent # <<>>
      <4>1. at[HostIn(sent, n)] = "absent" /\ \A i \in 1..n - 1 : at[HostIn(sent, i)] = "absent"
        BY <3>2 DEF Inv, HangupInv
      <4> QED BY <1>5, <4>1
    <3> QED BY <3>1, <3>2
  <2>2. \A i \in 1..Len(sent') - 1 : at'[HostIn(sent', i)] = "absent"
    BY <1>3, <1>5, <1>6, <1>7, <2>1
  <2>3. regions # None => \A i \in 1..Len(sent') : sent'[i].client = ExplicitClient(regions[i])
    <3>. SUFFICES ASSUME regions # None, NEW i \in 1..n + 1
                  PROVE  sent'[i].client = ExplicitClient(regions[i])
      BY <1>5
    <3>1. CASE i = n + 1 BY <1>5, <3>1
    <3>2. CASE i # n + 1
      <4>1. i \in 1..n /\ sent # <<>> BY <1>5, <3>2, EmptySeq
      <4> QED BY <1>5, <4>1 DEF Inv, HangupInv
    <3> QED BY <3>1, <3>2
  <2>4. regions = None => n = 0
    <3>1. regions = None => sent = <<>> BY DEF Inv, HangupInv
    <3> QED BY <3>1, EmptySeq
  <2>5. regions = None => \A i \in 1..Len(sent') : sent'[i].client = AmbientClient
    BY <1>5, <2>4
  <2>6. None \notin Results BY NoneIsNoResult
  <2>7. /\ result' = None => /\ regions # None /\ Len(sent') < Len(regions)
                            /\ at'[HostIn(sent', Len(sent'))] = "absent"
        /\ result' = "ok" => at'[HostIn(sent', Len(sent'))] = "ended"
        /\ result' = "not_found" => /\ at'[HostIn(sent', Len(sent'))] = "absent"
                                    /\ regions # None => Len(sent') = Len(regions)
    BY <1>3, <1>4, <1>5, <1>7, <2>6 DEF Results
  <2> QED
    BY <1>5, <2>2, <2>3, <2>4, <2>5, <2>7 DEF HangupInv
<1>10. OthersInv' /\ ListInv' BY DEF OthersInv, ListInv
<1>11. StaysHome' BY <1>5 DEF Inv, StaysHome
<1> QED BY <1>8, <1>9, <1>10, <1>11 DEF Inv

-----------------------------------------------------------------------------
(* The invariant                                                           *)

LEMMA InvInit == Init => Inv
<1>. SUFFICES ASSUME Init PROVE Inv OBVIOUS
<1>1. /\ sent = <<>> /\ served = <<>> /\ Len(<<>>) = 0 /\ result = None
      /\ <<>> \in Seq(Call) /\ <<>> \in Seq(Pages)
  BY EmptySeq DEF Init
<1>2. at \in [Hosts -> States] BY DEF Init, States
<1>3. Shape BY <1>1, <1>2 DEF Shape, Init
<1>4. None \notin Results BY NoneIsNoResult
<1>5. HangupInv BY <1>1, <1>4 DEF HangupInv, Results
<1>6. OthersInv BY <1>1 DEF OthersInv, Init
<1>7. ListInv /\ StaysHome BY <1>1, BoundsAssumption DEF ListInv, StaysHome
<1> QED BY <1>3, <1>5, <1>6, <1>7 DEF Inv

\* A call that ends by itself was not where hangup_call has found none.
LEMMA CallEndsStep == ASSUME Inv, CallEnds PROVE Inv'
<1>1. PICK h \in Hosts : at[h] = "live" /\ at' = [at EXCEPT ![h] = "ended"] BY DEF CallEnds
<1>2. UNCHANGED <<op, regions, sent, served, result>> /\ result = None BY DEF CallEnds, Same
<1>3. at' \in [Hosts -> States] BY <1>1 DEF Inv, Shape, States
<1>4. \A g \in Hosts : at[g] = "absent" => at'[g] = "absent" BY <1>1 DEF Inv, Shape
<1>5. \A i \in 1..Len(sent) : HostIn(sent, i) \in Hosts
  <2>1. \A i \in 1..Len(sent) : sent[i] \in Call BY ElementOfSeq DEF Inv, Shape
  <2> QED BY <2>1 DEF HostIn, Call, Clients
<1>6. Len(sent) \in Nat /\ (sent # <<>> => Len(sent) \in 1..Len(sent))
  BY LenProperties, EmptySeq DEF Inv, Shape
<1>7. None \notin Results BY NoneIsNoResult
<1>8. HangupInv'
  <2>1. op = "hangup" => \A i \in 1..Len(sent) - 1 : at'[HostIn(sent, i)] = "absent"
    BY <1>4, <1>5, <1>6 DEF Inv, HangupInv
  <2>2. op = "hangup" /\ sent # <<>> => at'[HostIn(sent, Len(sent))] = "absent"
    BY <1>2, <1>4, <1>5, <1>6 DEF Inv, HangupInv
  <2> QED BY <1>2, <1>7, <2>1, <2>2 DEF Inv, HangupInv, Results
<1> QED BY <1>2, <1>3, <1>8 DEF Inv, Shape, OthersInv, ListInv, StaysHome

LEMMA RefusedStep ==
    ASSUME Inv, result = None, result' \in {"refused", "error"},
           UNCHANGED <<op, regions, at, sent, served>>
    PROVE  Inv'
<1>1. None \notin Results BY NoneIsNoResult
<1>2. Shape' BY DEF Inv, Shape, Results
<1>3. HangupInv' BY <1>1 DEF Inv, HangupInv, Results
<1>4. OthersInv' /\ ListInv' BY <1>1 DEF Inv, OthersInv, ListInv, Results
<1> QED BY <1>2, <1>3, <1>4 DEF Inv, StaysHome

LEMMA CallStep == ASSUME Inv, InitiateOutboundCall PROVE Inv'
<1>0. op = "call" /\ result = None /\ UNCHANGED <<op, regions, at, served>>
  BY DEF InitiateOutboundCall, Same
<1>1. CASE result' = "refused" /\ UNCHANGED sent BY <1>0, <1>1, RefusedStep
<1>2. CASE /\ result' \in {"ok", "error"}
           /\ Request(IF regions = None THEN AmbientClient ELSE ExplicitClient(regions[1]),
                      Collection)
  <2>. DEFINE c == IF regions = None THEN AmbientClient ELSE ExplicitClient(regions[1])
  <2>1. sent = <<>> /\ (regions # None => Len(regions) = 1) BY <1>0 DEF Inv, OthersInv
  <2>2. c \in Clients
    <3>1. CASE regions = None BY <3>1, ClientTypes
    <3>2. CASE regions # None
      <4>1. regions \in RegionLists BY <3>2 DEF Inv, Shape
      <4>2. regions[1] \in Hosts BY <2>1, <3>2, <4>1, RegionListIsSeq
      <4> QED BY <3>2, <4>2, ClientTypes
    <3> QED BY <3>1, <3>2
  <2>3. Request(c, Collection) BY <1>2
  <2>. HIDE DEF c
  <2>4. /\ sent' \in Seq(Call) /\ Len(sent') = 1
        /\ sent'[1].client = c /\ sent'[1].url = Collection
    <3>1. sent \in Seq(Call) /\ Len(sent) = 0 BY <2>1, EmptySeq
    <3> QED BY <2>2, <2>3, <3>1, CollectionIsURL, RequestAppends
  <2>5. None \notin Results BY NoneIsNoResult
  <2>6. Shape' BY <1>0, <1>2, <2>4 DEF Inv, Shape, Results
  <2>7. OthersInv' BY <1>0, <1>2, <2>1, <2>4, <2>5 DEF OthersInv, Results, c
  <2>8. HangupInv' /\ ListInv' BY <1>0 DEF HangupInv, ListInv
  <2>9. StaysHome' BY <2>4 DEF StaysHome
  <2> QED BY <2>6, <2>7, <2>8, <2>9 DEF Inv
<1> QED BY <1>1, <1>2 DEF InitiateOutboundCall, Ends

LEMMA HangupStep == ASSUME Inv, HangupCall PROVE Inv'
<1>0. op = "hangup" /\ result = None /\ UNCHANGED <<op, regions, served>>
  BY DEF HangupCall, Same
<1>1. CASE result' = "refused" /\ UNCHANGED <<sent, at>> BY <1>0, <1>1, RefusedStep
<1>2. CASE regions = None /\ Complete(AmbientClient, FALSE)
  BY <1>0, <1>2, ClientTypes, CompleteStep
<1>3. CASE /\ MayHangup /\ regions # None
           /\ Complete(ExplicitClient(regions[Len(sent) + 1]), Len(sent) + 1 < Len(regions))
  <2>1. Distinct(regions) BY <1>3 DEF MayHangup
  <2>2. regions \in RegionLists BY <1>3 DEF Inv, Shape
  <2>3. /\ regions \in Seq(Hosts) /\ Len(regions) \in Nat
        /\ \A i \in 1..Len(regions) : regions[i] \in Hosts
    BY <2>2, RegionListIsSeq
  <2>4. Len(regions) > 0 BY <2>1, <2>3, EmptySeq DEF Distinct
  <2>5. Len(sent) \in Nat BY LenProperties DEF Inv, Shape
  <2>6. Len(sent) + 1 <= Len(regions)
    <3>1. CASE sent = <<>> BY <2>3, <2>4, <3>1, EmptySeq
    <3>2. CASE sent # <<>> BY <1>0, <2>3, <2>5, <3>2 DEF Inv, HangupInv
    <3> QED BY <3>1, <3>2
  <2>7. ExplicitClient(regions[Len(sent) + 1]) \in Clients BY <2>3, <2>5, <2>6, ClientTypes
  <2>. DEFINE more == Len(sent) + 1 < Len(regions)
              c == ExplicitClient(regions[Len(sent) + 1])
  <2>8. /\ more \in BOOLEAN /\ c \in Clients /\ Complete(c, more)
        /\ c = ExplicitClient(regions[Len(sent) + 1])
        /\ more <=> Len(sent) + 1 < Len(regions)
    BY <1>3, <2>7
  <2>. HIDE DEF more, c
  <2> QED BY <1>0, <1>3, <2>1, <2>6, <2>8, CompleteStep
<1> QED BY <1>1, <1>2, <1>3 DEF HangupCall, Ends

LEMMA ListStep == ASSUME Inv, ListCalls PROVE Inv'
<1>0. op = "list" /\ result = None /\ UNCHANGED <<op, regions, at>> BY DEF ListCalls, Same
<1>1. CASE result' = "refused" /\ UNCHANGED <<sent, served>> BY <1>0, <1>1, RefusedStep
<1>2. CASE ~(result' = "refused" /\ UNCHANGED <<sent, served>>)
  <2>. DEFINE u == IF served = <<>> THEN Collection ELSE Resolved(served[Len(served)].next)
              c == ExplicitClient(regions[1])
              n == Len(sent)
  <2>1. /\ Request(c, u)
        /\ \/ result' = "error" /\ UNCHANGED served
           \/ \E page \in Pages : served' = Append(served, page) /\ Reads(page)
    BY <1>2 DEF ListCalls, Ends
  <2>2. u = Collection BY <1>0 DEF Inv, ListInv, LeadsHome
  <2>3. c \in Clients
    <3>1. regions \in RegionLists /\ Len(regions) = 1 BY <1>0 DEF Inv, Shape, OthersInv
    <3>2. regions[1] \in Hosts BY <3>1, RegionListIsSeq
    <3> QED BY <3>2, ClientTypes
  <2>4. /\ n = Len(served) /\ n < MaxPages /\ Len(served) \in Nat /\ MaxPages \in Nat
        /\ \A i \in 1..n : sent[i].client = c /\ sent[i].url = Collection
    BY <1>0, LenProperties, BoundsAssumption DEF Inv, Shape, ListInv, OthersInv, StaysHome
  <2>5. /\ sent' \in Seq(Call) /\ n \in Nat /\ Len(sent') = n + 1
        /\ \A i \in 1..n : sent'[i] = sent[i]
        /\ sent'[n + 1].client = c /\ sent'[n + 1].url = Collection
    <3>1. Request(c, Collection) BY <2>1, <2>2
    <3>. HIDE DEF c
    <3> QED BY <2>3, <3>1, CollectionIsURL, RequestAppends DEF Inv, Shape
  <2>6. \A i \in 1..Len(sent') : sent'[i].client = c /\ sent'[i].url = Collection
    <3>1. \A i \in 1..Len(sent') : i \in 1..n \/ i = n + 1 BY <2>5
    <3> QED BY <2>4, <2>5, <3>1
  <2>7. /\ result' \in Results \cup {None} /\ served' \in Seq(Pages)
        /\ result' = None => /\ Len(sent') = Len(served') /\ Len(served') < MaxPages
                             /\ served' # <<>> => LeadsHome(served'[Len(served')].next)
    <3>1. None \notin Results BY NoneIsNoResult
    <3>2. CASE result' = "error" /\ UNCHANGED served
      BY <3>1, <3>2 DEF Inv, Shape, Results
    <3>3. ASSUME NEW page \in Pages, served' = Append(served, page), Reads(page)
          PROVE  /\ result' \in Results \cup {None} /\ served' \in Seq(Pages)
                 /\ result' = None => /\ Len(sent') = Len(served') /\ Len(served') < MaxPages
                                      /\ LeadsHome(served'[Len(served')].next)
      <4>1. /\ served' \in Seq(Pages) /\ Len(served') = Len(served) + 1
            /\ served'[Len(served) + 1] = page
        BY <3>3, AppendProperties DEF Inv, Shape
      <4>2. \/ result' = "error"
            \/ result' = Outcome(page.next)
        BY <3>3 DEF Reads, Ends
      <4>3. \/ Outcome(page.next) \in {"rows", "error", "incomplete"}
            \/ /\ Outcome(page.next) = None /\ LeadsHome(page.next)
               /\ Len(served) + 1 # MaxPages
        BY DEF Outcome, AtCap
      <4> QED BY <2>4, <2>5, <3>1, <4>1, <4>2, <4>3 DEF Results
    <3> QED BY <2>1, <3>2, <3>3
  <2>8. Shape' BY <1>0, <2>5, <2>7 DEF Inv, Shape
  <2>9. OthersInv' BY <1>0, <2>6 DEF Inv, OthersInv
  <2>10. ListInv' BY <1>0, <2>4, <2>5, <2>7 DEF ListInv
  <2>11. HangupInv' BY <1>0 DEF HangupInv
  <2>12. StaysHome' BY <2>6 DEF StaysHome
  <2> QED BY <2>8, <2>9, <2>10, <2>11, <2>12 DEF Inv
<1> QED BY <1>1, <1>2

LEMMA InvStep == Inv /\ [Next]_vars => Inv'
<1>. SUFFICES ASSUME Inv, [Next]_vars PROVE Inv' OBVIOUS
<1>1. CASE CallEnds BY <1>1, CallEndsStep
<1>2. CASE InitiateOutboundCall BY <1>2, CallStep
<1>3. CASE HangupCall BY <1>3, HangupStep
<1>4. CASE ListCalls BY <1>4, ListStep
<1>5. CASE UNCHANGED vars
  BY <1>5 DEF vars, Inv, Shape, HangupInv, OthersInv, ListInv, StaysHome
<1> QED BY <1>1, <1>2, <1>3, <1>4, <1>5 DEF Next

\* The three functions keep the invariant, whatever is asked and answered.
LEMMA Invariance == Spec => []Inv
BY InvInit, InvStep, PTL DEF Spec

-----------------------------------------------------------------------------
(* The rows of list_calls                                                  *)

LEMMA PageAppends ==
    ASSUME served \in Seq(Pages), NEW page \in Pages, served' = Append(served, page)
    PROVE  /\ Len(served) \in Nat /\ Len(served') = Len(served) + 1 /\ served' # <<>>
           /\ DOMAIN served = 1..Len(served) /\ DOMAIN served' = 1..Len(served) + 1
           /\ \A i \in 1..Len(served) : served'[i] = served[i]
           /\ served'[Len(served')] = page
<1>1. served' \in Seq(Pages) /\ Len(served') = Len(served) + 1 /\ Len(served) \in Nat
  BY AppendProperties, LenProperties
<1> QED BY <1>1, AppendProperties, LenProperties, EmptySeq

\* A page that was read adds its wanted rows behind those of the pages before it.
LEMMA ReadableKept ==
    ASSUME served \in Seq(Pages), NEW page \in Pages, served' = Append(served, page),
           Readable(page), rows' = Append(rows, Wanted(page.calls)), AllKept
    PROVE  AllKept' /\ DOMAIN rows' = DOMAIN served'
<1>. DEFINE n == Len(served)
           T == {Wanted(p.calls) : p \in Pages}
<1>1. /\ n \in Nat /\ Len(served') = n + 1 /\ DOMAIN served' = 1..n + 1
      /\ \A i \in 1..n : served'[i] = served[i]
      /\ served'[n + 1] = page
  BY PageAppends
<1>2. \A i \in 1..n : served[i] \in Pages BY ElementOfSeq
<1>3. rows \in [1..n -> T] BY <1>2 DEF AllKept
<1>4. rows \in Seq(T) /\ Len(rows) = n BY <1>1, <1>3, SeqDef, LenProperties
<1>5. Wanted(page.calls) \in T OBVIOUS
<1>. HIDE DEF T
<1>6. /\ rows' \in Seq(T) /\ Len(rows') = n + 1 /\ rows'[n + 1] = Wanted(page.calls)
      /\ \A i \in 1..n : rows'[i] = rows[i]
  BY <1>4, <1>5, AppendProperties
<1>7. rows' \in [1..n + 1 -> T] BY <1>6, LenProperties
<1>8. \A i \in 1..n + 1 : rows'[i] = Wanted(served'[i].calls)
  <2>1. \A i \in 1..n : rows'[i] = Wanted(served'[i].calls) BY <1>1, <1>6 DEF AllKept
  <2>2. \A i \in 1..n + 1 : i \in 1..n \/ i = n + 1 BY <1>1
  <2> QED BY <1>1, <1>6, <2>1, <2>2
<1>9. rows' = [i \in 1..n + 1 |-> Wanted(served'[i].calls)]
  <2>1. rows' = [i \in 1..n + 1 |-> rows'[i]] BY <1>7
  <2> QED BY <1>8, <2>1
<1>10. \A i \in 1..n + 1 : Readable(served'[i])
  <2>1. \A i \in 1..n + 1 : i \in 1..n \/ i = n + 1 BY <1>1
  <2> QED BY <1>1, <2>1 DEF AllKept
<1> QED BY <1>1, <1>7, <1>9, <1>10 DEF AllKept

LEMMA RowsInvInit == Init => RowsInv
<1>. SUFFICES ASSUME Init PROVE RowsInv OBVIOUS
<1>1. rows = <<>> /\ served = <<>> /\ result = None /\ Len(<<>>) = 0 BY EmptySeq DEF Init
<1>2. rows = [i \in 1..Len(served) |-> Wanted(served[i].calls)] BY <1>1
<1>3. \A i \in 1..Len(served) : Readable(served[i]) BY <1>1
<1>4. None \notin Results BY NoneIsNoResult
<1> QED BY <1>1, <1>2, <1>3, <1>4 DEF RowsInv, AllKept, Results

LEMMA ListKeepsRows == ASSUME Inv, RowsInv, ListCalls PROVE RowsInv'
<1>1. op = "list" /\ result = None /\ UNCHANGED op /\ AllKept
  BY DEF ListCalls, Same, RowsInv
<1>2. None \notin Results BY NoneIsNoResult
<1>3. CASE result' \in {"refused", "error"} /\ UNCHANGED <<served, rows>>
  BY <1>2, <1>3 DEF RowsInv, Results
<1>4. ASSUME NEW page \in Pages, served' = Append(served, page), Reads(page)
      PROVE  RowsInv'
  <2>1. served \in Seq(Pages) BY DEF Inv, Shape
  <2>2. /\ Len(served) \in Nat /\ Len(served') = Len(served) + 1 /\ served' # <<>>
        /\ DOMAIN served \subseteq DOMAIN served'
        /\ served'[Len(served')] = page
    BY <1>4, <2>1, PageAppends
  <2>3. CASE Ends("error") /\ UNCHANGED rows
    BY <1>1, <1>2, <2>2, <2>3 DEF RowsInv, Results, Ends
  <2>4. CASE Readable(page) /\ rows' = Append(rows, Wanted(page.calls)) /\ Ends(Outcome(page.next))
    <3>1. AllKept' /\ DOMAIN rows' = DOMAIN served' BY <1>1, <1>4, <2>1, <2>4, ReadableKept
    <3>2. \/ result' = "rows" /\ page.next = None
          \/ result' = "incomplete" /\ page.next # None /\ Len(served) + 1 = MaxPages
          \/ result' \in {"error", None}
      BY <2>4 DEF Ends, Outcome, AtCap
    <3> QED BY <1>1, <1>2, <2>2, <3>1, <3>2 DEF RowsInv, Results
  <2> QED BY <1>4, <2>3, <2>4 DEF Reads
<1> QED BY <1>3, <1>4 DEF ListCalls, Ends

LEMMA RowsInvStep == Inv /\ RowsInv /\ [Next]_vars => RowsInv'
<1>. SUFFICES ASSUME Inv, RowsInv, [Next]_vars PROVE RowsInv' OBVIOUS
<1>1. CASE ListCalls BY <1>1, ListKeepsRows
<1>2. CASE UNCHANGED vars \/ CallEnds
  BY <1>2 DEF vars, CallEnds, Same, RowsInv, AllKept
<1>3. CASE InitiateOutboundCall \/ HangupCall
  BY <1>3 DEF InitiateOutboundCall, HangupCall, Same, RowsInv
<1> QED BY <1>1, <1>2, <1>3 DEF Next

LEMMA RowsInvariance == Spec => []RowsInv
BY RowsInvInit, RowsInvStep, Invariance, PTL DEF Spec

\* VR-006: a list that list_calls returns holds the wanted rows of every page that the provider
\* has, each page read; and it is called incomplete only at max_pages, with more to come.
THEOREM ListIsHonest == Spec => []ListHonest
<1>1. RowsInv => ListHonest BY DEF RowsInv, AllKept, ListHonest
<1> QED BY <1>1, RowsInvariance, PTL

-----------------------------------------------------------------------------
(* What it implies                                                         *)

LEMMA Requests ==
    ASSUME Inv
    PROVE  /\ Len(sent) \in Nat /\ (sent = <<>> <=> Len(sent) = 0)
           /\ \A i \in 1..Len(sent) : /\ Asked[i] = HostIn(sent, i) /\ Asked[i] \in Hosts
                                      /\ sent[i] \in Call
<1>1. Len(sent) \in Nat /\ (sent = <<>> <=> Len(sent) = 0)
  BY LenProperties, EmptySeq DEF Inv, Shape
<1>2. \A i \in 1..Len(sent) : sent[i] \in Call BY ElementOfSeq DEF Inv, Shape
<1> QED BY <1>1, <1>2 DEF Asked, HostIn, Call, Clients

Usable == usable \subseteq Needs

\* Every variable keeps its type; what rows holds is what ListHonest says of it.
THEOREM TypeCorrect == Spec => []TypeOK
<1>1. Init => Usable BY DEF Init, Usable
<1>2. Usable /\ [Next]_vars => Usable'
  BY DEF Usable, Next, vars, CallEnds, InitiateOutboundCall, HangupCall, ListCalls, Same
<1>3. Inv /\ RowsInv /\ Usable => TypeOK
  BY DEF Usable, Inv, Shape, RowsInv, States, Call, TypeOK
<1> QED BY <1>1, <1>2, <1>3, Invariance, RowsInvariance, PTL DEF Spec

LEMMA HangupEndsCall == Inv => TerminalProven
<1>. SUFFICES ASSUME Inv, op = "hangup", result = "ok"
              PROVE  \E i \in 1..Len(sent) : at[Asked[i]] = "ended"
  BY DEF TerminalProven
<1>1. sent # <<>> /\ at[HostIn(sent, Len(sent))] = "ended" BY DEF Inv, HangupInv
<1>2. Len(sent) \in 1..Len(sent) BY <1>1, Requests
<1> QED BY <1>1, <1>2, Requests

\* A region is asked once, in the order given, and the next only if the call is not there.
THEOREM RegionsInOrder == Spec => []AskedInOrder
<1>1. Inv => AskedInOrder
  <2>. SUFFICES ASSUME Inv, op = "hangup", sent # <<>>, regions # None
                PROVE  /\ \A i, k \in 1..Len(sent) : Asked[i] = Asked[k] => i = k
                       /\ Asked = SubSeq(regions, 1, Len(sent))
                       /\ \A i \in 1..Len(sent) - 1 : at[Asked[i]] = "absent"
    BY DEF AskedInOrder
  <2>1. /\ Distinct(regions) /\ Len(sent) <= Len(regions) /\ regions \in RegionLists
        /\ \A i \in 1..Len(sent) : sent[i].client = ExplicitClient(regions[i])
        /\ \A i \in 1..Len(sent) - 1 : at[HostIn(sent, i)] = "absent"
    BY DEF Inv, HangupInv, Shape
  <2>2. /\ regions \in Seq(Hosts) /\ Len(regions) \in Nat /\ Len(sent) \in Nat
        /\ \A i \in 1..Len(regions) : regions[i] \in Hosts
    BY <2>1, RegionListIsSeq, Requests
  <2>3. \A i \in 1..Len(sent) : Asked[i] = regions[i]
    BY <2>1, <2>2, Requests, ClientTypes DEF HostIn
  <2>4. \A i, k \in 1..Len(sent) : Asked[i] = Asked[k] => i = k
    BY <2>1, <2>2, <2>3 DEF Distinct
  <2>5. Asked = SubSeq(regions, 1, Len(sent))
    <3>. DEFINE t == SubSeq(regions, 1, Len(sent))
    <3>1. t \in Seq(Hosts) /\ Len(t) = Len(sent) /\ \A i \in 1..Len(sent) : t[i] = regions[i]
      <4>1. \A i \in 1..Len(sent) : regions[i] \in Hosts BY <2>1, <2>2
      <4> QED BY <2>2, <4>1, SubSeqProperties
    <3>2. t \in [1..Len(sent) -> Hosts] BY <3>1, LenProperties
    <3>. HIDE DEF t
    <3>3. \A i \in 1..Len(sent) : Asked[i] = t[i] BY <2>3, <3>1
    <3>4. Asked = [i \in 1..Len(sent) |-> Asked[i]] BY DEF Asked
    <3>5. t = [i \in 1..Len(sent) |-> t[i]] BY <3>2
    <3>6. Asked = t BY <3>3, <3>4, <3>5
    <3> QED BY <3>6 DEF t
  <2>6. \A i \in 1..Len(sent) - 1 : at[Asked[i]] = "absent" BY <2>1, <2>2, Requests
  <2> QED BY <2>4, <2>5, <2>6
<1> QED BY <1>1, Invariance, PTL

LEMMA AbsentEverywhere == Inv /\ AskedInOrder => AbsenceProven
<1>. SUFFICES ASSUME Inv, AskedInOrder, op = "hangup", result = "not_found"
              PROVE  IF regions = None THEN at[Default] = "absent"
                     ELSE Asked = regions /\ \A i \in 1..Len(sent) : at[Asked[i]] = "absent"
  BY DEF AbsenceProven
<1>1. /\ sent # <<>> /\ at[HostIn(sent, Len(sent))] = "absent"
      /\ \A i \in 1..Len(sent) - 1 : at[HostIn(sent, i)] = "absent"
  BY DEF Inv, HangupInv
<1>2. \A i \in 1..Len(sent) : at[Asked[i]] = "absent" BY <1>1, Requests
<1>3. CASE regions = None
  <2>1. \A i \in 1..Len(sent) : sent[i].client = AmbientClient BY <1>3 DEF Inv, HangupInv
  <2>2. Len(sent) \in 1..Len(sent) BY <1>1, Requests
  <2>3. Asked[Len(sent)] = Default BY <2>1, <2>2, Requests DEF HostIn, AmbientClient
  <2> QED BY <1>2, <1>3, <2>2, <2>3
<1>4. CASE regions # None
  <2>1. regions \in Seq(Hosts) BY <1>4, RegionListIsSeq DEF Inv, Shape
  <2>2. Len(sent) = Len(regions) BY <1>4 DEF Inv, HangupInv
  <2>3. Asked = SubSeq(regions, 1, Len(sent)) BY <1>1, <1>4 DEF AskedInOrder
  <2>4. Asked = regions BY <2>1, <2>2, <2>3, SubSeqFull
  <2> QED BY <1>2, <1>4, <2>4
<1> QED BY <1>3, <1>4

\* VR-004: hangup_call returns only when the call has ended at a host it asked, and says that
\* there is no such call only when every region said so, however many regions there are and
\* whatever they answer.
THEOREM HangupIsProven == Spec => []HangupProven
BY HangupEndsCall, AbsentEverywhere, RegionsInOrder, Invariance, PTL DEF HangupProven

\* A region's credentials go to that region's host only, in all three functions.
THEOREM CredentialsStay == Spec => []RegionIsolated
<1>1. Inv => RegionIsolated
  <2>. SUFFICES ASSUME Inv, NEW i \in 1..Len(sent)
                PROVE  IF regions = None THEN sent[i].client = AmbientClient
                       ELSE /\ sent[i].client.auth = sent[i].client.host
                            /\ \E k \in 1..Len(regions) : sent[i].client.host = regions[k]
    BY DEF RegionIsolated
  <2>1. Len(sent) \in Nat /\ sent # <<>> BY Requests
  <2>2. CASE regions = None BY <2>2, <2>1 DEF Inv, Shape, HangupInv, OthersInv
  <2>3. CASE regions # None
    <3>1. Len(regions) \in Nat BY <2>3, RegionListIsSeq DEF Inv, Shape
    <3>2. \E k \in 1..Len(regions) : sent[i].client = ExplicitClient(regions[k])
      BY <2>1, <2>3, <3>1 DEF Inv, Shape, HangupInv, OthersInv
    <3> QED BY <2>3, <3>2 DEF ExplicitClient
  <2> QED BY <2>2, <2>3
<1> QED BY <1>1, Invariance, PTL

\* VR-006: every request, and so every continuation followed, is to the collection, and
\* list_calls asks for max_pages pages at most.
THEOREM ListsSafely == Spec => []SafelyPaged
<1>1. Inv => SafelyPaged BY DEF Inv, ListInv, SafelyPaged, Bounded
<1> QED BY <1>1, Invariance, PTL
=============================================================================
