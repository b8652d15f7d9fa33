----------------------------- MODULE ScanProofs -----------------------------
(***************************************************************************)
(* Proofs about the proactive chain, for any contents, chats, costs and    *)
(* bounds: what reaches a chat unasked is within the bounds the owner set  *)
(* and reaches it once, a delegation comes of it only along his own steps, *)
(* and what he withdraws is not executed afterwards.  And about the        *)
(* memories that come of a scan, for any proposals, wordings and notes: a  *)
(* memory of the center is written as the owner decided, and what he had   *)
(* forgotten stays forgotten.  The last theorem puts the types of the      *)
(* three chains and of the memory center together.                         *)
(***************************************************************************)
EXTENDS MCDelegations, DelegationProofs

(* What is detected was in a source of the owner's, and says whether it is sensitive. *)
ScansOK ==
  /\ \A source \in sources : source.grant \in grants /\ source.content \in source.grant.types
  /\ \A o \in opportunities : o.source \in sources /\ o.blocked = Sensitive(o.source.content)

SuggestionsOK == \A s \in suggestions : s.opportunity \in opportunities /\ Suggestable(s.opportunity)

DeliveredTo(id) == id \in DOMAIN sendings /\ sendings[id] = "delivered_local"

(* A transport that failed left no record; the call that arrives leaves one, and none follows. *)
SendingsOK ==
  /\ DOMAIN sendings \subseteq DOMAIN sendCalls
  /\ \A id \in DOMAIN sendCalls :
       /\ id[1] \in suggestions
       /\ sendCalls[id] \in Seq(BOOLEAN)
       /\ IF DeliveredTo(id) THEN Cardinality(Arrivals(id)) = 1 ELSE Arrivals(id) = {}

AdaptersOK == \A d \in adapters : d \in adaptGrants /\ DeliveredTo(d)

(* What a registered delegation rests on; a delegation that is cancelled keeps its grounds. *)
RegistrationsOK ==
  /\ \A r \in DOMAIN proAuthorities : "grounds" \in DOMAIN proAuthorities[r]
  /\ \A r \in DOMAIN registrations : registrations[r].status = "delegated_registered" =>
       /\ r \in DOMAIN proAuthorities
       /\ r[1] \in adapters /\ r[2].of = r[1] /\ r[2].status = "selected"
       /\ registrations[r].preflight = "require_confirmation" => proAuthorities[r].grounds.of = {r}

ProIInv == ScansOK /\ SuggestionsOK /\ SendingsOK /\ AdaptersOK /\ RegistrationsOK
-----------------------------------------------------------------------------

LEMMA ProInitially == ProactiveInit => ProIInv
  BY DEF ProactiveInit, ProIInv, ScansOK, SuggestionsOK, SendingsOK, AdaptersOK, RegistrationsOK, DeliveredTo

(* What each action leaves as it was. *)
LEMMA Frames ==
  /\ \A status, types : GrantScan(status, types) =>
       UNCHANGED <<suggestions, sendings, sendCalls, adaptGrants, adapters, registrations, proAuthorities, proAttempts>>
  /\ \A g, content : AddSource(g, content) =>
       UNCHANGED <<suggestions, sendings, sendCalls, adaptGrants, adapters, registrations, proAuthorities, proAttempts>>
  /\ \A batch, upcoming : Detect(batch, upcoming) =>
       UNCHANGED <<suggestions, sendings, sendCalls, adaptGrants, adapters, registrations, proAuthorities, proAttempts>>
  /\ \A o, chat : Suggest(o, chat) =>
       UNCHANGED <<grants, sources, opportunities, sendings, sendCalls, adaptGrants, adapters, registrations, proAuthorities,
                   proAttempts>>
  /\ \A s, named, bound, arrives : Send(s, named, bound, arrives) =>
       UNCHANGED <<grants, sources, opportunities, suggestions, adaptGrants, adapters, registrations, proAuthorities, proAttempts>>
  /\ \A d : AuthorizeAdaptation(d) \/ Adapt(d) =>
       UNCHANGED <<grants, sources, opportunities, suggestions, sendings, sendCalls, registrations, proAuthorities, proAttempts>>
  /\ \A d, s, cost, preflight, a : RegisterDelegation(d, s, cost, preflight, a) =>
       UNCHANGED <<grants, sources, opportunities, suggestions, sendings, sendCalls, adaptGrants, adapters, proAttempts>>
  /\ \A r : Withdraw(r) =>
       UNCHANGED <<grants, sources, opportunities, suggestions, sendings, sendCalls, adaptGrants, adapters, registrations, proAttempts>>
  /\ \A r, fixture : ExecuteRegistered(r, fixture) =>
       UNCHANGED <<grants, sources, opportunities, suggestions, sendings, sendCalls, adaptGrants, adapters, registrations,
                   proAuthorities>>
  /\ UNCHANGED proactiveVars =>
       UNCHANGED <<grants, sources, opportunities, suggestions, sendings, sendCalls, adaptGrants, adapters, registrations,
                   proAuthorities, proAttempts>>
<1> USE DEF scanVars, suggestVars, delegateVars
<1>1. ASSUME NEW status, NEW types, GrantScan(status, types)
      PROVE  UNCHANGED <<suggestions, sendings, sendCalls, adaptGrants, adapters, registrations, proAuthorities, proAttempts>>
  BY <1>1 DEF GrantScan
<1>2. ASSUME NEW g, NEW content, AddSource(g, content)
      PROVE  UNCHANGED <<suggestions, sendings, sendCalls, adaptGrants, adapters, registrations, proAuthorities, proAttempts>>
  BY <1>2 DEF AddSource
<1>3. ASSUME NEW batch, NEW upcoming, Detect(batch, upcoming)
      PROVE  UNCHANGED <<suggestions, sendings, sendCalls, adaptGrants, adapters, registrations, proAuthorities, proAttempts>>
  BY <1>3 DEF Detect
<1>4. ASSUME NEW o, NEW chat, Suggest(o, chat)
      PROVE  UNCHANGED <<grants, sources, opportunities, sendings, sendCalls, adaptGrants, adapters, registrations, proAuthorities,
                         proAttempts>>
  BY <1>4 DEF Suggest
<1>5. ASSUME NEW s, NEW named, NEW bound, NEW arrives, Send(s, named, bound, arrives)
      PROVE  UNCHANGED <<grants, sources, opportunities, suggestions, adaptGrants, adapters, registrations, proAuthorities,
                         proAttempts>>
  BY <1>5 DEF Send
<1>6. ASSUME NEW d, AuthorizeAdaptation(d) \/ Adapt(d)
      PROVE  UNCHANGED <<grants, sources, opportunities, suggestions, sendings, sendCalls, registrations, proAuthorities,
                         proAttempts>>
  BY <1>6 DEF AuthorizeAdaptation, Adapt
<1>7. ASSUME NEW d, NEW s, NEW cost, NEW preflight, NEW a, RegisterDelegation(d, s, cost, preflight, a)
      PROVE  UNCHANGED <<grants, sources, opportunities, suggestions, sendings, sendCalls, adaptGrants, adapters, proAttempts>>
  BY <1>7 DEF RegisterDelegation
<1>8. ASSUME NEW r, Withdraw(r)
      PROVE  UNCHANGED <<grants, sources, opportunities, suggestions, sendings, sendCalls, adaptGrants, adapters, registrations,
                         proAttempts>>
  BY <1>8 DEF Withdraw
<1>9. ASSUME NEW r, NEW fixture, ExecuteRegistered(r, fixture)
      PROVE  UNCHANGED <<grants, sources, opportunities, suggestions, sendings, sendCalls, adaptGrants, adapters, registrations,
                         proAuthorities>>
  BY <1>9 DEF ExecuteRegistered
<1>10. ASSUME UNCHANGED proactiveVars
       PROVE  UNCHANGED <<grants, sources, opportunities, suggestions, sendings, sendCalls, adaptGrants, adapters, registrations,
                          proAuthorities, proAttempts>>
  BY <1>10 DEF proactiveVars
<1> QED  BY <1>1, <1>2, <1>3, <1>4, <1>5, <1>6, <1>7, <1>8, <1>9, <1>10

LEMMA ScansStep ==
  ASSUME ScansOK, [ProactiveNext]_proactiveVars
  PROVE  /\ ScansOK'
         /\ opportunities \subseteq opportunities'
<1>1. ASSUME UNCHANGED <<grants, sources, opportunities>>
      PROVE  ScansOK'
  BY <1>1 DEF ScansOK
<1>2. ASSUME NEW status, NEW types, GrantScan(status, types)
      PROVE  ScansOK' /\ opportunities' = opportunities
  BY <1>2 DEF GrantScan, ScansOK
<1>3. ASSUME NEW g \in grants, NEW content, AddSource(g, content)
      PROVE  ScansOK' /\ opportunities' = opportunities
  <2> DEFINE source == [grant |-> g, content |-> content]
  <2>1. source.grant \in grants /\ source.content \in source.grant.types
    BY <1>3 DEF AddSource
  <2>2. sources' = sources \cup {source} /\ grants' = grants /\ opportunities' = opportunities
    BY <1>3 DEF AddSource
  <2> HIDE DEF source
  <2> QED  BY <2>1, <2>2 DEF ScansOK
<1>4. ASSUME NEW batch \in Batches, NEW upcoming, Detect(batch, upcoming)
      PROVE  ScansOK' /\ opportunities \subseteq opportunities'
  <2>1. PICK read \in SUBSET (DOMAIN batch) :
          opportunities' = opportunities \cup {Opportunity(batch[i], upcoming) : i \in read}
    <3> DEFINE known == {i \in DOMAIN batch : \A j \in 1..i : Detectable(batch[j])}
    <3>1. known \in SUBSET (DOMAIN batch)
      OBVIOUS
    <3>2. opportunities' = opportunities \cup {Opportunity(batch[i], upcoming) : i \in known}
      BY <1>4 DEF Detect
    <3> QED  BY <3>1, <3>2
  <2>2. \A i \in DOMAIN batch : batch[i] \in sources
    BY DEF Batches
  <2>3. \A i \in read : /\ Opportunity(batch[i], upcoming).source \in sources
                        /\ Opportunity(batch[i], upcoming).blocked = Sensitive(Opportunity(batch[i], upcoming).source.content)
    BY <2>2 DEF Opportunity
  <2>4. grants' = grants /\ sources' = sources
    BY <1>4 DEF Detect
  <2> QED  BY <2>1, <2>3, <2>4 DEF ScansOK
<1>5. CASE UNCHANGED <<grants, sources, opportunities>>
  BY <1>5 DEF ScansOK
<1>6. \/ UNCHANGED <<grants, sources, opportunities>>
      \/ \E status \in {"active", "revoked"}, types \in GrantTypes : GrantScan(status, types)
      \/ \E g \in grants, content \in Contents : AddSource(g, content)
      \/ \E batch \in Batches, upcoming \in BOOLEAN : Detect(batch, upcoming)
  BY Frames DEF ProactiveNext
<1> QED  BY <1>1, <1>2, <1>3, <1>4, <1>5, <1>6

LEMMA SuggestionsStep ==
  ASSUME SuggestionsOK, opportunities \subseteq opportunities', [ProactiveNext]_proactiveVars
  PROVE  SuggestionsOK' /\ suggestions \subseteq suggestions'
<1>1. ASSUME NEW o \in opportunities, NEW chat, Suggest(o, chat)
      PROVE  SuggestionsOK' /\ suggestions \subseteq suggestions'
  <2> DEFINE s == [opportunity |-> o, chat |-> chat]
  <2>1. s.opportunity = o /\ Suggestable(o) /\ suggestions' = suggestions \cup {s}
    BY <1>1 DEF Suggest
  <2> HIDE DEF s
  <2> QED  BY <2>1 DEF SuggestionsOK
<1>2. CASE suggestions' = suggestions
  BY <1>2 DEF SuggestionsOK
<1>3. suggestions' = suggestions \/ (\E o \in opportunities, chat \in Chats : Suggest(o, chat))
  BY Frames DEF ProactiveNext
<1> QED  BY <1>1, <1>2, <1>3

(* One call more: the first that arrives is the only one there is. *)
LEMMA OneMoreCall ==
  ASSUME NEW s \in Seq(BOOLEAN), {i \in DOMAIN s : s[i]} = {}, NEW arrives \in BOOLEAN
  PROVE  /\ Append(s, arrives) \in Seq(BOOLEAN)
         /\ IF arrives THEN Cardinality({i \in DOMAIN Append(s, arrives) : Append(s, arrives)[i]}) = 1
                       ELSE {i \in DOMAIN Append(s, arrives) : Append(s, arrives)[i]} = {}
<1> DEFINE n == Len(s) + 1
           t == Append(s, arrives)
<1>1. t \in Seq(BOOLEAN) /\ Len(t) = n /\ DOMAIN t = 1..n /\ t[n] = arrives /\ \A i \in 1..Len(s) : t[i] = s[i]
  OBVIOUS
<1>2. \A i \in 1..Len(s) : ~s[i]
  OBVIOUS
<1>3. \A i \in DOMAIN t : i # n => ~t[i]
  BY <1>1, <1>2
<1>4. n \in DOMAIN t
  BY <1>1
<1>5. CASE arrives
  <2>1. {i \in DOMAIN t : t[i]} = {n}
    BY <1>1, <1>3, <1>4, <1>5
  <2>2. Cardinality({n}) = 1
    BY FS_Singleton
  <2> QED  BY <1>1, <1>5, <2>1, <2>2
<1>6. CASE ~arrives
  <2>1. {i \in DOMAIN t : t[i]} = {}
    BY <1>1, <1>3, <1>6
  <2> QED  BY <1>1, <1>6, <2>1
<1> QED  BY <1>5, <1>6

LEMMA SendStep ==
  ASSUME SendingsOK, NEW s \in suggestions, NEW named, NEW bound, NEW arrives \in BOOLEAN, Send(s, named, bound, arrives)
  PROVE  SendingsOK' /\ \A d : DeliveredTo(d) => DeliveredTo(d)'
<1> DEFINE id     == <<s, Target(s, named)>>
           status == IF SendingRefused(s, named, bound) THEN "rejected_invalid_lineage" ELSE "delivered_local"
           record == SendingRefused(s, named, bound) \/ arrives
           after  == IF SendingRefused(s, named, bound) THEN CallsOf(id) ELSE Append(CallsOf(id), arrives)
<1>1. /\ id \notin DOMAIN sendings
      /\ sendings' = IF record THEN Put(sendings, id, status) ELSE sendings
      /\ sendCalls' = Put(sendCalls, id, after)
      /\ suggestions' = suggestions
  <2>1. CASE SendingRefused(s, named, bound)
    BY <2>1 DEF Send, KnownSending
  <2>2. CASE ~SendingRefused(s, named, bound) /\ arrives
    BY <2>2 DEF Send, KnownSending
  <2>3. CASE ~SendingRefused(s, named, bound) /\ ~arrives
    BY <2>3 DEF Send, KnownSending
  <2> QED  BY <2>1, <2>2, <2>3
<1>2. id[1] = s
  OBVIOUS
<1>3. CallsOf(id) \in Seq(BOOLEAN) /\ {i \in DOMAIN CallsOf(id) : CallsOf(id)[i]} = {}
  <2>1. CASE id \in DOMAIN sendCalls
    BY <1>1, <2>1 DEF SendingsOK, CallsOf, Arrivals, DeliveredTo
  <2>2. CASE id \notin DOMAIN sendCalls
    BY <2>2 DEF CallsOf
  <2> QED  BY <2>1, <2>2
<1>4. /\ after \in Seq(BOOLEAN)
      /\ IF record /\ status = "delivered_local" THEN Cardinality({i \in DOMAIN after : after[i]}) = 1
                                                 ELSE {i \in DOMAIN after : after[i]} = {}
  BY <1>3, OneMoreCall
<1> HIDE DEF id, status, record, after
<1>5. /\ DOMAIN sendCalls' = DOMAIN sendCalls \cup {id}
      /\ sendCalls'[id] = after
      /\ \A x \in DOMAIN sendCalls : x # id => sendCalls'[x] = sendCalls[x]
  BY <1>1 DEF Put
<1>6. /\ DOMAIN sendings' = IF record THEN DOMAIN sendings \cup {id} ELSE DOMAIN sendings
      /\ record => sendings'[id] = status
      /\ \A x \in DOMAIN sendings : sendings'[x] = sendings[x]
  BY <1>1 DEF Put
<1>7. \A x : x # id => (DeliveredTo(x)' <=> DeliveredTo(x))
  BY <1>6 DEF DeliveredTo
<1>8. DeliveredTo(id)' <=> record /\ status = "delivered_local"
  BY <1>1, <1>6 DEF DeliveredTo
<1>9. ASSUME NEW x \in DOMAIN sendCalls'
      PROVE  /\ x[1] \in suggestions'
             /\ sendCalls'[x] \in Seq(BOOLEAN)
             /\ IF DeliveredTo(x)' THEN Cardinality(Arrivals(x)') = 1 ELSE Arrivals(x)' = {}
  <2>1. CASE x = id
    BY <1>1, <1>2, <1>4, <1>5, <1>8, <2>1 DEF Arrivals
  <2>2. CASE x # id
    <3>1. x \in DOMAIN sendCalls /\ sendCalls'[x] = sendCalls[x] /\ Arrivals(x)' = Arrivals(x)
      BY <1>5, <2>2 DEF Arrivals
    <3> QED  BY <1>1, <1>7, <2>2, <3>1 DEF SendingsOK
  <2> QED  BY <2>1, <2>2
<1>10. DOMAIN sendings' \subseteq DOMAIN sendCalls'
  BY <1>5, <1>6 DEF SendingsOK
<1>11. ~DeliveredTo(id)
  BY <1>1 DEF DeliveredTo
<1> QED  BY <1>7, <1>9, <1>10, <1>11 DEF SendingsOK

LEMMA SendingsStep ==
  ASSUME SendingsOK, suggestions \subseteq suggestions', [ProactiveNext]_proactiveVars
  PROVE  SendingsOK' /\ \A d : DeliveredTo(d) => DeliveredTo(d)'
<1>1. CASE UNCHANGED <<sendings, sendCalls>>
  BY <1>1 DEF SendingsOK, DeliveredTo, Arrivals
<1>2. \/ UNCHANGED <<sendings, sendCalls>>
      \/ \E s \in suggestions, named, bound \in Chats \cup {""}, arrives \in BOOLEAN : Send(s, named, bound, arrives)
  BY Frames DEF ProactiveNext
<1> QED  BY <1>1, <1>2, SendStep

LEMMA AdaptersStep ==
  ASSUME AdaptersOK, \A d : DeliveredTo(d) => DeliveredTo(d)', [ProactiveNext]_proactiveVars
  PROVE  AdaptersOK' /\ adapters \subseteq adapters'
<1>1. CASE UNCHANGED <<adapters, adaptGrants>>
  BY <1>1 DEF AdaptersOK
<1>2. ASSUME NEW d, AuthorizeAdaptation(d)
      PROVE  AdaptersOK' /\ adapters \subseteq adapters'
  BY <1>2 DEF AuthorizeAdaptation, AdaptersOK
<1>3. ASSUME NEW d \in DOMAIN sendings, Adapt(d)
      PROVE  AdaptersOK' /\ adapters \subseteq adapters'
  <2>1. DeliveredTo(d) /\ d \in adaptGrants /\ adapters' = adapters \cup {d} /\ adaptGrants' = adaptGrants
    BY <1>3 DEF Adapt, Adaptable, DeliveredTo
  <2> QED  BY <2>1 DEF AdaptersOK
<1>4. \/ UNCHANGED <<adapters, adaptGrants>>
      \/ \E d \in DOMAIN sendings : AuthorizeAdaptation(d) \/ Adapt(d)
  BY Frames DEF ProactiveNext
<1> QED  BY <1>1, <1>2, <1>3, <1>4
-----------------------------------------------------------------------------
(* A delegation that needs an approval is registered only with the one that names it. *)

LEMMA FollowUpGrounds ==
  ASSUME NEW id, NEW preflight, NEW a
  PROVE  /\ "grounds" \in DOMAIN FollowUpAuthority(id, preflight, a)
         /\ preflight = "require_confirmation" /\ FollowUpAuthority(id, preflight, a).state = "registered"
              => FollowUpAuthority(id, preflight, a).grounds.of = {id}
<1> DEFINE opened == Opened(TRUE, preflight)
           bound  == IF preflight = "require_confirmation" THEN Bound(opened, id, a, 1) ELSE opened
<1>1. FollowUpAuthority(id, preflight, a) = Registered(bound)
  BY DEF FollowUpAuthority
<1>2. /\ DOMAIN opened = {"state", "handle", "grounds", "last"}
      /\ preflight = "require_confirmation" => opened.state = "awaiting_approval"
  BY DEF Opened, PreflightState, NoDelegation
<1> HIDE DEF opened
<1>3. CASE preflight = "require_confirmation" /\ ApprovalFits(a, id, 1)
  <2> DEFINE e == Enters(opened, "approved_local", "allow_local_register")
  <2>1. DOMAIN e = {"state", "handle", "grounds", "last"} /\ e.state = "approved_local"
    BY <1>2 DEF Enters
  <2>2. bound = [e EXCEPT !.grounds = [of |-> a.of, at |-> 1]]
    BY <1>2, <1>3 DEF Bound
  <2>3. a.of = {id}
    BY <1>3 DEF ApprovalFits
  <2> HIDE DEF e
  <2>4. DOMAIN bound = {"state", "handle", "grounds", "last"} /\ bound.state = "approved_local" /\ bound.grounds.of = {id}
    BY <2>1, <2>2, <2>3
  <2> HIDE DEF bound
  <2> QED  BY <1>1, <2>4 DEF Registered
<1>4. CASE preflight = "require_confirmation" /\ ~ApprovalFits(a, id, 1)
  <2>1. bound = Refused(opened)
    BY <1>4 DEF Bound
  <2>2. DOMAIN bound = {"state", "handle", "grounds", "last"} /\ bound.state = "blocked"
    BY <1>2, <2>1 DEF Refused, Enters
  <2> HIDE DEF bound
  <2>3. Registered(bound) = Refused(bound)
    BY <2>2 DEF Registered
  <2> QED  BY <1>1, <2>2, <2>3 DEF Refused, Enters
<1>5. CASE preflight # "require_confirmation"
  <2>1. bound = opened
    BY <1>5
  <2> QED  BY <1>1, <1>2, <1>5, <2>1 DEF Registered, Refused, Enters
<1> QED  BY <1>3, <1>4, <1>5

LEMMA CancelledKeeps ==
  ASSUME NEW d, "grounds" \in DOMAIN d
  PROVE  "grounds" \in DOMAIN Cancelled(d) /\ Cancelled(d).grounds = d.grounds
  BY DEF Cancelled, Closed, Refused, Enters

LEMMA RegisterStep ==
  ASSUME RegistrationsOK, NEW d \in adapters, NEW s, NEW cost, NEW preflight, NEW a,
         RegisterDelegation(d, s, cost, preflight, a)
  PROVE  RegistrationsOK'
<1> DEFINE id        == <<d, s, cost>>
           authority == FollowUpAuthority(id, preflight, a)
           opens     == s.status = "selected" /\ Mapped(s, d) /\ FollowUpOpens(preflight, a)
           status    == RegistrationStatus(s, d, opens, authority)
           record    == [status |-> status, preflight |-> preflight]
<1>1. /\ Linked(s, d) /\ id \notin DOMAIN registrations
      /\ registrations' = Put(registrations, id, record)
      /\ proAuthorities' = IF opens THEN Put(proAuthorities, id, authority) ELSE proAuthorities
      /\ adapters' = adapters
  BY DEF RegisterDelegation, suggestVars
<1>2. id[1] = d /\ id[2] = s
  OBVIOUS
<1>3. status = "delegated_registered" => opens /\ authority.state = "registered" /\ s.of = d /\ s.status = "selected"
  BY <1>1 DEF RegistrationStatus, Linked
<1>4. /\ "grounds" \in DOMAIN authority
      /\ preflight = "require_confirmation" /\ authority.state = "registered" => authority.grounds.of = {id}
  BY FollowUpGrounds
<1>5. record.status = status /\ record.preflight = preflight
  OBVIOUS
<1> HIDE DEF id, authority, opens, status, record
<1>6. /\ DOMAIN registrations' = DOMAIN registrations \cup {id}
      /\ registrations'[id] = record
      /\ \A x \in DOMAIN registrations : x # id => registrations'[x] = registrations[x]
  BY <1>1 DEF Put
<1>7. /\ DOMAIN proAuthorities' = IF opens THEN DOMAIN proAuthorities \cup {id} ELSE DOMAIN proAuthorities
      /\ opens => proAuthorities'[id] = authority
      /\ \A x \in DOMAIN proAuthorities : x # id => proAuthorities'[x] = proAuthorities[x]
      /\ ~opens => proAuthorities' = proAuthorities
  BY <1>1 DEF Put
<1>8. \A r \in DOMAIN proAuthorities' : "grounds" \in DOMAIN proAuthorities'[r]
  BY <1>4, <1>7 DEF RegistrationsOK
<1>9. ASSUME NEW r \in DOMAIN registrations', registrations'[r].status = "delegated_registered"
      PROVE  /\ r \in DOMAIN proAuthorities'
             /\ r[1] \in adapters' /\ r[2].of = r[1] /\ r[2].status = "selected"
             /\ registrations'[r].preflight = "require_confirmation" => proAuthorities'[r].grounds.of = {r}
  <2>1. CASE r = id
    BY <1>1, <1>2, <1>3, <1>4, <1>5, <1>6, <1>7, <1>9, <2>1
  <2>2. CASE r # id
    <3>1. r \in DOMAIN registrations /\ registrations'[r] = registrations[r]
      BY <1>6, <2>2
    <3>2. r \in DOMAIN proAuthorities
      BY <1>9, <3>1 DEF RegistrationsOK
    <3> QED  BY <1>1, <1>7, <1>9, <2>2, <3>1, <3>2 DEF RegistrationsOK
  <2> QED  BY <2>1, <2>2
<1> QED  BY <1>8, <1>9 DEF RegistrationsOK

LEMMA RegistrationsStep ==
  ASSUME RegistrationsOK, adapters \subseteq adapters', [ProactiveNext]_proactiveVars
  PROVE  RegistrationsOK'
<1>1. CASE UNCHANGED <<registrations, proAuthorities>>
  BY <1>1 DEF RegistrationsOK
<1>2. ASSUME NEW r \in DOMAIN proAuthorities, Withdraw(r)
      PROVE  RegistrationsOK'
  <2>1. /\ DOMAIN proAuthorities' = DOMAIN proAuthorities
        /\ proAuthorities'[r] = Cancelled(proAuthorities[r])
        /\ \A x \in DOMAIN proAuthorities : x # r => proAuthorities'[x] = proAuthorities[x]
        /\ registrations' = registrations
    BY <1>2 DEF Withdraw
  <2>2. \A x \in DOMAIN proAuthorities : /\ "grounds" \in DOMAIN proAuthorities'[x]
                                         /\ proAuthorities'[x].grounds = proAuthorities[x].grounds
    BY <2>1, CancelledKeeps DEF RegistrationsOK
  <2> QED  BY <2>1, <2>2 DEF RegistrationsOK
<1>3. \/ UNCHANGED <<registrations, proAuthorities>>
      \/ \E r \in DOMAIN proAuthorities : Withdraw(r)
      \/ \E d \in adapters, s \in SelectionsIn, cost \in Costs, preflight \in Preflights :
           \E a \in Approvals(<<d, s, cost>>) : RegisterDelegation(d, s, cost, preflight, a)
  BY Frames DEF ProactiveNext
<1> QED  BY <1>1, <1>2, <1>3, RegisterStep

LEMMA ProStep == ProIInv /\ [ProactiveNext]_proactiveVars => ProIInv'
  BY ScansStep, SuggestionsStep, SendingsStep, AdaptersStep, RegistrationsStep DEF ProIInv

LEMMA ProInvariant == ProactiveSpec => []ProIInv
  BY ProInitially, ProStep, PTL DEF ProactiveSpec
-----------------------------------------------------------------------------

(***************************************************************************)
(* What reaches a chat unasked was found in a source the owner gave to     *)
(* scan, is a real opportunity, and has nothing sensitive in it; it        *)
(* reaches each chat once, whatever the transport did before.              *)
(***************************************************************************)
THEOREM SuggestedInBoundsHolds == ProactiveSpec => []SuggestedInBounds
<1>1. ProIInv => SuggestedInBounds
  <2> SUFFICES ASSUME ProIInv, NEW id \in DOMAIN sendCalls, Arrivals(id) # {}
               PROVE  LET o == id[1].opportunity
                      IN  /\ o.source.grant \in grants /\ o.source.content \in o.source.grant.types
                          /\ o \in opportunities /\ ~Sensitive(o.source.content) /\ o.kind # "no_opportunity"
                          /\ Cardinality(Arrivals(id)) = 1
    BY DEF SuggestedInBounds
  <2>1. id[1] \in suggestions /\ Cardinality(Arrivals(id)) = 1
    BY DEF ProIInv, SendingsOK
  <2>2. id[1].opportunity \in opportunities /\ Suggestable(id[1].opportunity)
    BY <2>1 DEF ProIInv, SuggestionsOK
  <2> QED  BY <2>1, <2>2 DEF ProIInv, ScansOK, Suggestable
<1> QED  BY <1>1, ProInvariant, PTL

(***************************************************************************)
(* A delegation comes of a suggestion only along the owner's own steps:    *)
(* the suggestion reached him, he authorized its adaptation, chose the     *)
(* option of that very intent, and, where its cost calls for it, approved  *)
(* that very delegation.                                                   *)
(***************************************************************************)
THEOREM DelegatedStepByStepHolds == ProactiveSpec => []DelegatedStepByStep
<1>1. ProIInv => DelegatedStepByStep
  <2> SUFFICES ASSUME ProIInv, NEW r \in DOMAIN registrations, registrations[r].status = "delegated_registered"
               PROVE  /\ r[1] \in adaptGrants /\ Cardinality(Arrivals(r[1])) = 1
                      /\ r[2].of = r[1] /\ r[2].status = "selected"
                      /\ registrations[r].preflight = "require_confirmation" => proAuthorities[r].grounds.of = {r}
    BY DEF DelegatedStepByStep
  <2>1. r[1] \in adapters
    BY DEF ProIInv, RegistrationsOK
  <2>2. r[1] \in adaptGrants /\ DeliveredTo(r[1]) /\ r[1] \in DOMAIN sendCalls
    BY <2>1 DEF ProIInv, AdaptersOK, SendingsOK, DeliveredTo
  <2> QED  BY <2>2 DEF ProIInv, RegistrationsOK, SendingsOK
<1> QED  BY <1>1, ProInvariant, PTL

(* An attempt is new only by an execution, and that one needs the delegation registered. *)
LEMMA UndoneStep ==
  [ProactiveNext]_proactiveVars =>
    [\A r \in DOMAIN proAuthorities, fixture \in ScanFixtures :
       (proAuthorities[r].state # "registered" /\ <<r, fixture>> \notin DOMAIN proAttempts
          /\ <<r, fixture>> \in DOMAIN proAttempts')
         => proAttempts'[<<r, fixture>>] \notin {"completed", "failed"}]_proactiveVars
<1> DEFINE Undone == \A r \in DOMAIN proAuthorities, fixture \in ScanFixtures :
             (proAuthorities[r].state # "registered" /\ <<r, fixture>> \notin DOMAIN proAttempts
                /\ <<r, fixture>> \in DOMAIN proAttempts')
               => proAttempts'[<<r, fixture>>] \notin {"completed", "failed"}
<1>1. ASSUME NEW r \in DOMAIN registrations, NEW fixture \in ScanFixtures, ExecuteRegistered(r, fixture)
      PROVE  Undone
  <2> SUFFICES ASSUME NEW q \in DOMAIN proAuthorities, NEW f \in ScanFixtures, proAuthorities[q].state # "registered",
                      <<q, f>> \notin DOMAIN proAttempts, <<q, f>> \in DOMAIN proAttempts'
               PROVE  proAttempts'[<<q, f>>] \notin {"completed", "failed"}
    OBVIOUS
  <2> DEFINE runs   == registrations[r].status = "delegated_registered" /\ Resolved(r)
             status == IF runs THEN Outcomes[fixture] ELSE "rejected_invalid_lineage"
             at     == <<r, fixture>>
  <2>1. proAttempts' = Put(proAttempts, at, status)
    BY <1>1 DEF ExecuteRegistered
  <2>2. r = q => status = "rejected_invalid_lineage"
    BY DEF Resolved
  <2>3. at = <<q, f>> => r = q
    OBVIOUS
  <2> HIDE DEF status, at
  <2>4. <<q, f>> = at /\ proAttempts'[at] = status
    BY <2>1 DEF Put
  <2> QED  BY <2>2, <2>3, <2>4
<1>2. CASE proAttempts' = proAttempts
  BY <1>2
<1>3. [ProactiveNext]_proactiveVars =>
        \/ proAttempts' = proAttempts
        \/ \E r \in DOMAIN registrations, fixture \in ScanFixtures : ExecuteRegistered(r, fixture)
  BY Frames DEF ProactiveNext
<1> QED  BY <1>1, <1>2, <1>3

(***************************************************************************)
(* A delegation that was withdrawn is not executed afterwards.             *)
(***************************************************************************)
THEOREM WithdrawnStaysUndoneHolds == ProactiveSpec => WithdrawnStaysUndone
  BY UndoneStep, PTL DEF ProactiveSpec, WithdrawnStaysUndone

-----------------------------------------------------------------------------
(* Types of the proactive chain: each record is about records there are. *)

ScansIn == \A scan \in scans : scan \subseteq opportunities

ChatsIn ==
  /\ \A s \in suggestions : s.chat \in Chats
  /\ \A id \in DOMAIN sendCalls : id[2] \in Chats

GrantsIn == adaptGrants \subseteq DOMAIN sendings

AuthoritiesIn ==
  /\ \A r \in DOMAIN registrations : r[1] \in adapters
  /\ DOMAIN proAuthorities \subseteq DOMAIN registrations
  /\ \A r \in DOMAIN proAuthorities : /\ proAuthorities[r] \in DelegationRecords({r})
                                       /\ proAuthorities[r].handle \in {"none", proAuthorities[r].state}

AttemptsIn ==
  /\ \A at \in DOMAIN proAttempts : at[1] \in DOMAIN registrations
  /\ \A event \in DOMAIN proEvents : proEvents[event] \in DOMAIN proAttempts

ProTyped == ScansIn /\ ChatsIn /\ GrantsIn /\ AuthoritiesIn /\ AttemptsIn

(* What leaves the scans, and what the events, as they were. *)
LEMMA FramesOfScans ==
  /\ \A status, types : GrantScan(status, types) => scans' = scans
  /\ \A g, content : AddSource(g, content) => scans' = scans
  /\ \A o, chat : Suggest(o, chat) => scans' = scans
  /\ \A s, named, bound, arrives : Send(s, named, bound, arrives) => scans' = scans
  /\ \A d : AuthorizeAdaptation(d) \/ Adapt(d) => scans' = scans
  /\ \A d, s, cost, preflight, a : RegisterDelegation(d, s, cost, preflight, a) => scans' = scans
  /\ \A r : Withdraw(r) => scans' = scans
  /\ \A r, fixture : ExecuteRegistered(r, fixture) => scans' = scans
  /\ UNCHANGED proactiveVars => scans' = scans
<1> USE DEF scanVars
<1>1. ASSUME NEW status, NEW types, GrantScan(status, types) PROVE scans' = scans
  BY <1>1 DEF GrantScan
<1>2. ASSUME NEW g, NEW content, AddSource(g, content) PROVE scans' = scans
  BY <1>2 DEF AddSource
<1>3. ASSUME NEW o, NEW chat, Suggest(o, chat) PROVE scans' = scans
  BY <1>3 DEF Suggest
<1>4. ASSUME NEW s, NEW named, NEW bound, NEW arrives, Send(s, named, bound, arrives) PROVE scans' = scans
  BY <1>4 DEF Send
<1>5. ASSUME NEW d, AuthorizeAdaptation(d) \/ Adapt(d) PROVE scans' = scans
  BY <1>5 DEF AuthorizeAdaptation, Adapt
<1>6. ASSUME NEW d, NEW s, NEW cost, NEW preflight, NEW a, RegisterDelegation(d, s, cost, preflight, a) PROVE scans' = scans
  BY <1>6 DEF RegisterDelegation
<1>7. ASSUME NEW r, Withdraw(r) PROVE scans' = scans
  BY <1>7 DEF Withdraw
<1>8. ASSUME NEW r, NEW fixture, ExecuteRegistered(r, fixture) PROVE scans' = scans
  BY <1>8 DEF ExecuteRegistered
<1>9. ASSUME UNCHANGED proactiveVars PROVE scans' = scans
  BY <1>9 DEF proactiveVars
<1> QED  BY <1>1, <1>2, <1>3, <1>4, <1>5, <1>6, <1>7, <1>8, <1>9

LEMMA FramesOfEvents ==
  /\ \A status, types : GrantScan(status, types) => proEvents' = proEvents
  /\ \A g, content : AddSource(g, content) => proEvents' = proEvents
  /\ \A batch, upcoming : Detect(batch, upcoming) => proEvents' = proEvents
  /\ \A o, chat : Suggest(o, chat) => proEvents' = proEvents
  /\ \A s, named, bound, arrives : Send(s, named, bound, arrives) => proEvents' = proEvents
  /\ \A d : AuthorizeAdaptation(d) \/ Adapt(d) => proEvents' = proEvents
  /\ \A d, s, cost, preflight, a : RegisterDelegation(d, s, cost, preflight, a) => proEvents' = proEvents
  /\ \A r : Withdraw(r) => proEvents' = proEvents
  /\ UNCHANGED proactiveVars => proEvents' = proEvents
<1> USE DEF delegateVars
<1>1. ASSUME NEW status, NEW types, GrantScan(status, types) PROVE proEvents' = proEvents
  BY <1>1 DEF GrantScan
<1>2. ASSUME NEW g, NEW content, AddSource(g, content) PROVE proEvents' = proEvents
  BY <1>2 DEF AddSource
<1>3. ASSUME NEW batch, NEW upcoming, Detect(batch, upcoming) PROVE proEvents' = proEvents
  BY <1>3 DEF Detect
<1>4. ASSUME NEW o, NEW chat, Suggest(o, chat) PROVE proEvents' = proEvents
  BY <1>4 DEF Suggest
<1>5. ASSUME NEW s, NEW named, NEW bound, NEW arrives, Send(s, named, bound, arrives) PROVE proEvents' = proEvents
  BY <1>5 DEF Send
<1>6. ASSUME NEW d, AuthorizeAdaptation(d) \/ Adapt(d) PROVE proEvents' = proEvents
  BY <1>6 DEF AuthorizeAdaptation, Adapt
<1>7. ASSUME NEW d, NEW s, NEW cost, NEW preflight, NEW a, RegisterDelegation(d, s, cost, preflight, a) PROVE proEvents' = proEvents
  BY <1>7 DEF RegisterDelegation
<1>8. ASSUME NEW r, Withdraw(r) PROVE proEvents' = proEvents
  BY <1>8 DEF Withdraw
<1>9. ASSUME UNCHANGED proactiveVars PROVE proEvents' = proEvents
  BY <1>9 DEF proactiveVars
<1> QED  BY <1>1, <1>2, <1>3, <1>4, <1>5, <1>6, <1>7, <1>8, <1>9

LEMMA ScansInStep ==
  ASSUME ScansIn, [ProactiveNext]_proactiveVars, opportunities \subseteq opportunities'
  PROVE  ScansIn'
<1>1. ASSUME NEW batch, NEW upcoming, Detect(batch, upcoming)
      PROVE  ScansIn'
  <2>1. PICK found : /\ opportunities' = opportunities \cup found
                     /\ scans' = scans \cup {found} \/ scans' = scans
    BY <1>1 DEF Detect
  <2> QED  BY <2>1 DEF ScansIn
<1>2. CASE scans' = scans
  BY <1>2 DEF ScansIn
<1>3. scans' = scans \/ \E batch \in Batches, upcoming \in BOOLEAN : Detect(batch, upcoming)
  BY FramesOfScans DEF ProactiveNext
<1> QED  BY <1>1, <1>2, <1>3

LEMMA ChatsInStep ==
  ASSUME ChatsIn, [ProactiveNext]_proactiveVars
  PROVE  ChatsIn'
<1>1. ASSUME NEW o, NEW chat \in Chats, Suggest(o, chat)
      PROVE  ChatsIn'
  <2> DEFINE s == [opportunity |-> o, chat |-> chat]
  <2>1. s.chat = chat /\ suggestions' = suggestions \cup {s}
    BY <1>1 DEF Suggest
  <2> HIDE DEF s
  <2> QED  BY <1>1, <2>1, Frames DEF ChatsIn
<1>2. ASSUME NEW s \in suggestions, NEW named \in Chats \cup {""}, NEW bound, NEW arrives, Send(s, named, bound, arrives)
      PROVE  ChatsIn'
  <2> DEFINE id == <<s, Target(s, named)>>
  <2>1. id[2] \in Chats
    BY DEF ChatsIn, Target
  <2>2. DOMAIN sendCalls' = DOMAIN sendCalls \cup {id} /\ suggestions' = suggestions
    BY <1>2 DEF Send, Put
  <2> HIDE DEF id
  <2> QED  BY <2>1, <2>2 DEF ChatsIn
<1>3. CASE UNCHANGED <<suggestions, sendCalls>>
  BY <1>3 DEF ChatsIn
<1>4. \/ UNCHANGED <<suggestions, sendCalls>>
      \/ \E o \in opportunities, chat \in Chats : Suggest(o, chat)
      \/ \E s \in suggestions, named, bound \in Chats \cup {""}, arrives \in BOOLEAN : Send(s, named, bound, arrives)
  BY Frames DEF ProactiveNext
<1> QED  BY <1>1, <1>2, <1>3, <1>4

LEMMA GrantsInStep ==
  ASSUME GrantsIn, [ProactiveNext]_proactiveVars
  PROVE  GrantsIn'
<1>1. ASSUME NEW d \in DOMAIN sendings, AuthorizeAdaptation(d)
      PROVE  GrantsIn'
  BY <1>1 DEF AuthorizeAdaptation, GrantsIn
<1>2. ASSUME NEW s, NEW named, NEW bound, NEW arrives, Send(s, named, bound, arrives)
      PROVE  GrantsIn'
  BY <1>2 DEF Send, Put, GrantsIn
<1>3. CASE UNCHANGED <<adaptGrants, sendings>>
  BY <1>3 DEF GrantsIn
<1>4. ASSUME NEW d, Adapt(d)
      PROVE  UNCHANGED <<adaptGrants, sendings>>
  BY <1>4 DEF Adapt
<1>5. \/ UNCHANGED <<adaptGrants, sendings>>
      \/ \E d \in DOMAIN sendings : AuthorizeAdaptation(d)
      \/ \E s \in suggestions, named, bound \in Chats \cup {""}, arrives \in BOOLEAN : Send(s, named, bound, arrives)
  BY <1>4, Frames DEF ProactiveNext
<1> QED  BY <1>1, <1>2, <1>3, <1>5

LEMMA CancelledFit ==
  ASSUME NEW Named, NEW d \in DelegationRecords(Named), d.handle \in {"none", d.state}
  PROVE  Cancelled(d) \in DelegationRecords(Named) /\ Cancelled(d).handle \in {"none", Cancelled(d).state}
<1>1. ASSUME NEW state \in {"blocked", "cancelled"}, NEW decision \in {"block", "cancel"}
      PROVE  /\ Enters(d, state, decision) \in DelegationRecords(Named)
             /\ Enters(d, state, decision).handle \in {"none", Enters(d, state, decision).state}
  <2>1. state \in Handles /\ state \in DelegationStates /\ decision \in Decisions
    BY DEF Handles, DelegationStates, TerminalStates, Decisions
  <2>2. Enters(d, state, decision) \in DelegationRecords(Named)
    BY <2>1 DEF Enters, DelegationRecords, Handles
  <2>3. Enters(d, state, decision).state = state /\ Enters(d, state, decision).handle \in {"none", state}
    BY DEF Enters, DelegationRecords
  <2> QED  BY <2>2, <2>3
<1> QED  BY <1>1 DEF Cancelled, Closed, Refused

LEMMA AuthoritiesInStep ==
  ASSUME AuthoritiesIn, adapters \subseteq adapters', [ProactiveNext]_proactiveVars
  PROVE  AuthoritiesIn'
<1>1. ASSUME NEW d \in adapters, NEW s, NEW cost, NEW preflight \in Preflights, NEW a \in Approvals(<<d, s, cost>>),
             RegisterDelegation(d, s, cost, preflight, a)
      PROVE  AuthoritiesIn'
  <2> DEFINE id        == <<d, s, cost>>
             authority == FollowUpAuthority(id, preflight, a)
             opens     == s.status = "selected" /\ Mapped(s, d) /\ FollowUpOpens(preflight, a)
             Named       == {id}
  <2>1. /\ DOMAIN registrations' = DOMAIN registrations \cup {id}
        /\ proAuthorities' = IF opens THEN Put(proAuthorities, id, authority) ELSE proAuthorities
    BY <1>1 DEF RegisterDelegation, Put
  <2>2. id[1] = d /\ id \in Named
    OBVIOUS
  <2>3. opens => authority \in DelegationRecords(Named) /\ authority.handle \in {"none", authority.state}
    <3> SUFFICES ASSUME FollowUpOpens(preflight, a)
                 PROVE  authority \in DelegationRecords(Named) /\ authority.handle \in {"none", authority.state}
      OBVIOUS
    <3>1. a \in Approvals(id)
      OBVIOUS
    <3> HIDE DEF Named, id
    <3> QED  BY <2>2, <3>1, FollowUpAuthorityFit
  <2> HIDE DEF id, authority, opens
  <2>4. /\ DOMAIN proAuthorities' = IF opens THEN DOMAIN proAuthorities \cup {id} ELSE DOMAIN proAuthorities
        /\ opens => proAuthorities'[id] = authority
        /\ \A x \in DOMAIN proAuthorities : x # id \/ ~opens => proAuthorities'[x] = proAuthorities[x]
    BY <2>1 DEF Put
  <2>5. ASSUME NEW r \in DOMAIN proAuthorities'
        PROVE  /\ r \in DOMAIN registrations'
               /\ proAuthorities'[r] \in DelegationRecords({r})
               /\ proAuthorities'[r].handle \in {"none", proAuthorities'[r].state}
    <3>1. CASE opens /\ r = id
      BY <2>1, <2>3, <2>4, <3>1
    <3>2. CASE ~(opens /\ r = id)
      <4>1. r \in DOMAIN proAuthorities /\ proAuthorities'[r] = proAuthorities[r]
        BY <2>4, <2>5, <3>2
      <4> QED  BY <2>1, <4>1 DEF AuthoritiesIn
    <3> QED  BY <3>1, <3>2
  <2>6. \A r \in DOMAIN registrations' : r[1] \in adapters'
    BY <2>1, <2>2 DEF AuthoritiesIn
  <2> QED  BY <2>5, <2>6 DEF AuthoritiesIn
<1>2. ASSUME NEW r \in DOMAIN proAuthorities, Withdraw(r)
      PROVE  AuthoritiesIn'
  <2>1. /\ DOMAIN proAuthorities' = DOMAIN proAuthorities /\ registrations' = registrations
        /\ proAuthorities'[r] = Cancelled(proAuthorities[r])
        /\ \A x \in DOMAIN proAuthorities : x # r => proAuthorities'[x] = proAuthorities[x]
    BY <1>2 DEF Withdraw
  <2>2. Cancelled(proAuthorities[r]) \in DelegationRecords({r})
        /\ Cancelled(proAuthorities[r]).handle \in {"none", Cancelled(proAuthorities[r]).state}
    BY CancelledFit DEF AuthoritiesIn
  <2>3. ASSUME NEW x \in DOMAIN proAuthorities'
        PROVE  /\ proAuthorities'[x] \in DelegationRecords({x})
               /\ proAuthorities'[x].handle \in {"none", proAuthorities'[x].state}
    <3>1. CASE x = r
      BY <2>1, <2>2, <3>1
    <3>2. CASE x # r
      BY <2>1, <3>2 DEF AuthoritiesIn
    <3> QED  BY <3>1, <3>2
  <2> QED  BY <2>1, <2>3 DEF AuthoritiesIn
<1>3. CASE UNCHANGED <<registrations, proAuthorities>>
  BY <1>3 DEF AuthoritiesIn
<1>4. \/ UNCHANGED <<registrations, proAuthorities>>
      \/ \E r \in DOMAIN proAuthorities : Withdraw(r)
      \/ \E d \in adapters, s \in SelectionsIn, cost \in Costs, preflight \in Preflights :
           \E a \in Approvals(<<d, s, cost>>) : RegisterDelegation(d, s, cost, preflight, a)
  BY Frames DEF ProactiveNext
<1> QED  BY <1>1, <1>2, <1>3, <1>4

LEMMA AttemptsInStep ==
  ASSUME AttemptsIn, DOMAIN registrations \subseteq DOMAIN registrations', [ProactiveNext]_proactiveVars
  PROVE  AttemptsIn'
<1>1. ASSUME NEW r \in DOMAIN registrations, NEW fixture, ExecuteRegistered(r, fixture)
      PROVE  AttemptsIn'
  <2> DEFINE runs   == registrations[r].status = "delegated_registered" /\ Resolved(r)
             status == IF runs THEN Outcomes[fixture] ELSE "rejected_invalid_lineage"
             at     == <<r, fixture>>
             event  == <<r, status>>
  <2>1. at[1] = r
    OBVIOUS
  <2>2. /\ DOMAIN proAttempts' = DOMAIN proAttempts \cup {at}
        /\ proEvents' = IF runs THEN Put(proEvents, event, at) ELSE proEvents
    BY <1>1 DEF ExecuteRegistered, Put
  <2> HIDE DEF at, event, runs, status
  <2>3. \A e \in DOMAIN proEvents' : proEvents'[e] = at \/ (e \in DOMAIN proEvents /\ proEvents'[e] = proEvents[e])
    BY <2>2 DEF Put
  <2> QED  BY <2>1, <2>2, <2>3 DEF AttemptsIn
<1>2. CASE UNCHANGED <<proAttempts, proEvents>>
  BY <1>2 DEF AttemptsIn
<1>3. \/ UNCHANGED <<proAttempts, proEvents>>
      \/ \E r \in DOMAIN registrations, fixture \in ScanFixtures : ExecuteRegistered(r, fixture)
  BY FramesOfEvents, Frames DEF ProactiveNext
<1> QED  BY <1>1, <1>2, <1>3

LEMMA RegistrationsStay ==
  ASSUME [ProactiveNext]_proactiveVars
  PROVE  DOMAIN registrations \subseteq DOMAIN registrations'
<1>1. ASSUME NEW d, NEW s, NEW cost, NEW preflight, NEW a, RegisterDelegation(d, s, cost, preflight, a)
      PROVE  DOMAIN registrations \subseteq DOMAIN registrations'
  BY <1>1 DEF RegisterDelegation, Put
<1>2. \/ registrations' = registrations
      \/ \E d, s, cost, preflight, a : RegisterDelegation(d, s, cost, preflight, a)
  BY Frames DEF ProactiveNext
<1> QED  BY <1>1, <1>2

LEMMA ProTypedStep == ProIInv /\ ProTyped /\ [ProactiveNext]_proactiveVars => ProTyped'
<1> SUFFICES ASSUME ProIInv, ProTyped, [ProactiveNext]_proactiveVars PROVE ProTyped'
  OBVIOUS
<1>1. opportunities \subseteq opportunities' /\ adapters \subseteq adapters'
  BY ScansStep, SuggestionsStep, SendingsStep, AdaptersStep DEF ProIInv
<1> QED  BY <1>1, ScansInStep, ChatsInStep, GrantsInStep, AuthoritiesInStep, AttemptsInStep, RegistrationsStay DEF ProTyped

\* Every record of the proactive chain is about records there are, and a handle stands
\* where its delegation stands, whatever was granted, scanned, sent and registered.
THEOREM ProactiveTypes == ProactiveSpec => []ProactiveTypeOK
<1>1. ProactiveInit => ProTyped
  BY DEF ProactiveInit, ProTyped, ScansIn, ChatsIn, GrantsIn, AuthoritiesIn, AttemptsIn
<1>2. ProIInv /\ ProTyped => ProactiveTypeOK
  <2> SUFFICES ASSUME ProIInv, ProTyped PROVE ProactiveTypeOK
    OBVIOUS
  <2>1. \A r \in DOMAIN proAuthorities : proAuthorities[r].handle \in {"none", proAuthorities[r].state} \cap Handles
    BY DEF ProTyped, AuthoritiesIn, DelegationRecords
  <2>2. \A o \in opportunities : o.source \in sources /\ o.blocked \in BOOLEAN
    <3>1. \A content : Sensitive(content) \in BOOLEAN
      BY DEF Sensitive
    <3> QED  BY <3>1 DEF ProIInv, ScansOK
  <2> QED  BY <2>1, <2>2 DEF ProIInv, ProTyped, ScansOK, SuggestionsOK, SendingsOK, AdaptersOK, ScansIn, ChatsIn, GrantsIn,
              AuthoritiesIn, AttemptsIn, ProactiveTypeOK
<1> QED  BY <1>1, <1>2, ProTypedStep, ProInvariant, PTL DEF ProactiveSpec

-----------------------------------------------------------------------------
(* The memory center *)

ToWrite == {"approved_pending_writeback", "edited_pending_writeback"}

(* A card that was rendered is the owner's own. *)
CardsOK == \A c \in DOMAIN cards : /\ c = <<c[1], c[2]>>
                                   /\ cards[c] = "rendered" => c[2] = "own"

(***************************************************************************)
(* A decision that may be written is about the card it names, in a wording *)
(* that is not sensitive; of each proposal one decision is final.          *)
(***************************************************************************)
DecisionsOK ==
  /\ \A d \in DOMAIN decisions : decisions[d] \in ToWrite =>
       /\ d.card \in DOMAIN cards /\ cards[d.card] = "rendered" /\ d.card[1] = d.of
       /\ decisions[d] = "edited_pending_writeback" <=> d.answer = "edit"
       /\ d.answer = "edit" => d.text # "secret"
  /\ \A d, e \in DOMAIN decisions : d.of = e.of /\ decisions[d] \in Terminal /\ decisions[e] \in Terminal => d = e

(* What is in the center was written for a decision, of its proposal and in its wording. *)
CenterOK ==
  \A d \in DOMAIN center : /\ d \in DOMAIN decisions /\ decisions[d] \in ToWrite
                           /\ center[d].of = d.of /\ center[d].text = FinalText(d)

ReviewIInv == CardsOK /\ DecisionsOK /\ CenterOK
-----------------------------------------------------------------------------

LEMMA ReviewInitially == CenterInit => ReviewIInv
  BY DEF CenterInit, ReviewIInv, CardsOK, DecisionsOK, CenterOK

LEMMA RenderStep ==
  ASSUME ReviewIInv, NEW p, NEW chat, RenderCard(p, chat)
  PROVE  ReviewIInv'
<1> DEFINE c      == <<p, chat>>
           status == IF ProposalRefused(p, chat) THEN "blocked" ELSE "rendered"
<1>1. c \notin DOMAIN cards /\ cards' = Put(cards, c, status) /\ UNCHANGED <<decisions, center>>
  BY DEF RenderCard
<1>2. c = <<c[1], c[2]>> /\ (status = "rendered" => c[2] = "own")
  BY DEF ProposalRefused
<1> HIDE DEF c, status
<1>3. /\ DOMAIN cards' = DOMAIN cards \cup {c} /\ cards'[c] = status
      /\ \A x \in DOMAIN cards : cards'[x] = cards[x]
  BY <1>1 DEF Put
<1>4. CardsOK'
  BY <1>2, <1>3 DEF ReviewIInv, CardsOK
<1>5. DecisionsOK'
  BY <1>1, <1>3 DEF ReviewIInv, DecisionsOK
<1>6. CenterOK'
  BY <1>1 DEF ReviewIInv, CenterOK, FinalText
<1> QED  BY <1>4, <1>5, <1>6 DEF ReviewIInv

(* What a decision says of the selection it is made of. *)
LEMMA DecidedOn ==
  ASSUME NEW pl, NEW card, NEW by
  PROVE  /\ DecisionOf(pl, card, by) \in Terminal => ~AlreadyDecided(pl.of)
         /\ DecisionOf(pl, card, by) \in ToWrite =>
              /\ cards[card] = "rendered" /\ pl.of = card[1] /\ pl.card = card
              /\ DecisionOf(pl, card, by) = "edited_pending_writeback" <=> pl.answer = "edit"
              /\ pl.answer = "edit" => pl.text # "secret"
<1>1. CASE AlreadyDecided(pl.of) \/ SelectionUnfit(pl, card, by)
  <2>1. DecisionOf(pl, card, by) = "blocked"
    BY <1>1 DEF DecisionOf
  <2> QED  BY <2>1 DEF Terminal, ToWrite
<1>2. CASE ~AlreadyDecided(pl.of) /\ ~SelectionUnfit(pl, card, by)
  <2>1. cards[card] = "rendered" /\ pl.of = card[1] /\ pl.card = card
    BY <1>2 DEF SelectionUnfit
  <2>2. DecisionOf(pl, card, by) =
          IF pl.answer = "lineage" THEN "lineage_summary_requested"
          ELSE IF pl.answer = "edit" /\ pl.text = "secret" THEN "rejected_sensitive_edit"
          ELSE IF pl.answer = "edit" THEN "edited_pending_writeback"
          ELSE IF pl.answer = "reject" THEN "rejected_no_write"
          ELSE "approved_pending_writeback"
    BY <1>2 DEF DecisionOf
  <2>3. CASE pl.answer = "edit"
    BY <1>2, <2>1, <2>2, <2>3 DEF ToWrite
  <2>4. CASE pl.answer # "edit"
    BY <1>2, <2>1, <2>2, <2>4 DEF ToWrite
  <2> QED  BY <2>3, <2>4
<1> QED  BY <1>1, <1>2

LEMMA BindStep ==
  ASSUME ReviewIInv, NEW pl, NEW card \in DOMAIN cards, NEW by, BindSelection(pl, card, by)
  PROVE  ReviewIInv'
<1> DEFINE status == DecisionOf(pl, card, by)
<1>1. pl \notin DOMAIN decisions /\ decisions' = Put(decisions, pl, status) /\ UNCHANGED <<cards, center>>
  BY DEF BindSelection
<1>2. /\ status \in Terminal => ~AlreadyDecided(pl.of)
      /\ status \in ToWrite =>
           /\ cards[card] = "rendered" /\ pl.of = card[1] /\ pl.card = card
           /\ status = "edited_pending_writeback" <=> pl.answer = "edit"
           /\ pl.answer = "edit" => pl.text # "secret"
  BY DecidedOn
<1> HIDE DEF status
<1>3. /\ DOMAIN decisions' = DOMAIN decisions \cup {pl} /\ decisions'[pl] = status
      /\ \A x \in DOMAIN decisions : decisions'[x] = decisions[x]
  BY <1>1 DEF Put
<1>4. CardsOK'
  BY <1>1 DEF ReviewIInv, CardsOK
<1>5. ASSUME NEW d \in DOMAIN decisions', decisions'[d] \in ToWrite
      PROVE  /\ d.card \in DOMAIN cards' /\ cards'[d.card] = "rendered" /\ d.card[1] = d.of
             /\ decisions'[d] = "edited_pending_writeback" <=> d.answer = "edit"
             /\ d.answer = "edit" => d.text # "secret"
  <2>1. CASE d = pl
    BY <1>1, <1>2, <1>3, <1>5, <2>1
  <2>2. CASE d # pl
    BY <1>1, <1>3, <1>5, <2>2 DEF ReviewIInv, DecisionsOK
  <2> QED  BY <2>1, <2>2
<1>6. ASSUME NEW d \in DOMAIN decisions', NEW e \in DOMAIN decisions', d.of = e.of,
             decisions'[d] \in Terminal, decisions'[e] \in Terminal
      PROVE  d = e
  <2>1. status \in Terminal => \A x \in DOMAIN decisions : x.of = pl.of => decisions[x] \notin Terminal
    BY <1>2 DEF AlreadyDecided
  <2>2. CASE d \in DOMAIN decisions /\ e \in DOMAIN decisions
    BY <1>3, <1>6, <2>2 DEF ReviewIInv, DecisionsOK
  <2>3. CASE d = pl /\ e = pl
    BY <2>3
  <2>4. CASE d = pl /\ e \in DOMAIN decisions
    BY <1>3, <1>6, <2>1, <2>4
  <2>5. CASE d \in DOMAIN decisions /\ e = pl
    BY <1>3, <1>6, <2>1, <2>5
  <2> QED  BY <1>3, <2>2, <2>3, <2>4, <2>5
<1>7. CenterOK'
  BY <1>1, <1>3 DEF ReviewIInv, CenterOK, FinalText
<1> QED  BY <1>4, <1>5, <1>6, <1>7 DEF ReviewIInv, DecisionsOK

LEMMA WriteStep ==
  ASSUME ReviewIInv, NEW d \in DOMAIN decisions, NEW card, NEW p, WriteBack(d, card, p)
  PROVE  ReviewIInv'
<1>1. UNCHANGED <<cards, decisions>>
  BY DEF WriteBack
<1>2. CASE WritebackRefused(d, card, p)
  <2>1. center' = center
    BY <1>2 DEF WriteBack
  <2> QED  BY <1>1, <2>1 DEF ReviewIInv, CardsOK, DecisionsOK, CenterOK, FinalText
<1>3. CASE ~WritebackRefused(d, card, p)
  <2>1. center' = Put(center, d, Item(d, p)) /\ decisions[d] \in ToWrite /\ d.of = p
    BY <1>3 DEF WriteBack, WritebackRefused, ToWrite
  <2>2. Item(d, p).of = d.of /\ Item(d, p).text = FinalText(d)
    BY <2>1 DEF Item
  <2>3. /\ DOMAIN center' = DOMAIN center \cup {d} /\ center'[d] = Item(d, p)
        /\ \A x \in DOMAIN center : x # d => center'[x] = center[x]
    BY <2>1 DEF Put
  <2>4. CenterOK'
    BY <1>1, <2>1, <2>2, <2>3 DEF ReviewIInv, CenterOK, FinalText
  <2> QED  BY <1>1, <2>4 DEF ReviewIInv, CardsOK, DecisionsOK
<1> QED  BY <1>2, <1>3

(* The store and the review commands leave the review as it is. *)
LEMMA StoreLeavesReview ==
  ASSUME StoreNext
  PROVE  UNCHANGED reviewVars
  BY DEF StoreNext, ApproveCandidate, AddMemory, Store, ForgetMemory, PinMemory, EditMemory, ReviewCandidate,
         ReceiveForget, ReceiveEdit, ReceiveCorrection, Receive

LEMMA ReviewStep == ReviewIInv /\ [CenterNext]_centerVars => ReviewIInv'
<1> SUFFICES ASSUME ReviewIInv, [CenterNext]_centerVars
             PROVE  ReviewIInv'
  OBVIOUS
<1>1. ASSUME UNCHANGED reviewVars
      PROVE  ReviewIInv'
  BY <1>1 DEF reviewVars, ReviewIInv, CardsOK, DecisionsOK, CenterOK, FinalText
<1>2. CASE ReviewNext
  BY <1>2, RenderStep, BindStep, WriteStep DEF ReviewNext
<1>3. CASE StoreNext
  BY <1>1, <1>3, StoreLeavesReview
<1>4. CASE UNCHANGED centerVars
  BY <1>1, <1>4 DEF centerVars
<1> QED  BY <1>2, <1>3, <1>4 DEF CenterNext

(***************************************************************************)
(* A memory of the center is the one decision the owner took on that       *)
(* proposal: shown to him in his own chat, in the wording he approved or   *)
(* gave, nothing sensitive in it; no proposal becomes two memories, and    *)
(* none that he refused becomes one.                                       *)
(***************************************************************************)
THEOREM WrittenAsDecidedHolds == CenterSpec => []WrittenAsDecided
<1>1. ReviewIInv => WrittenAsDecided
  <2> SUFFICES ASSUME ReviewIInv, NEW d \in DOMAIN center
               PROVE  /\ cards[d.card] = "rendered" /\ d.card = <<center[d].of, "own">>
                      /\ center[d].text = IF d.answer = "edit" THEN d.text ELSE "proposed"
                      /\ center[d].text # "secret"
                      /\ \A e \in DOMAIN decisions : e.of = d.of /\ decisions[e] \in Terminal => e = d
    BY DEF WrittenAsDecided
  <2>1. d \in DOMAIN decisions /\ decisions[d] \in ToWrite /\ center[d].of = d.of /\ center[d].text = FinalText(d)
    BY DEF ReviewIInv, CenterOK
  <2>2. /\ d.card \in DOMAIN cards /\ cards[d.card] = "rendered" /\ d.card[1] = d.of
        /\ decisions[d] = "edited_pending_writeback" <=> d.answer = "edit"
        /\ d.answer = "edit" => d.text # "secret"
    BY <2>1 DEF ReviewIInv, DecisionsOK
  <2>3. d.card = <<d.of, "own">>
    BY <2>2 DEF ReviewIInv, CardsOK
  <2>4. center[d].text = IF d.answer = "edit" THEN d.text ELSE "proposed"
    BY <2>1, <2>2 DEF FinalText
  <2>5. decisions[d] \in Terminal
    BY <2>1 DEF ToWrite, Terminal
  <2> QED  BY <2>1, <2>2, <2>3, <2>4, <2>5 DEF ReviewIInv, DecisionsOK
<1> QED  BY <1>1, ReviewInitially, ReviewStep, PTL DEF CenterSpec
-----------------------------------------------------------------------------
(* Types of the memory center: what is kept of the store says what it is. *)

Origins == {"context_scan_owner_approved", "telegram_memory_add", "telegram_memory_edit"}

Items == [content : Notes, source : Origins, active : BOOLEAN, pinned : BOOLEAN]

StoreTyped ==
  /\ asked = DOMAIN stored
  /\ \A id \in DOMAIN stored : id \in Ids /\ stored[id] \in Items /\ (stored[id].pinned => stored[id].active)

ReviewTyped ==
  /\ \A c \in DOMAIN cards : c[1] \in Proposals /\ cards[c] \in {"rendered", "blocked"}
  /\ \A d \in DOMAIN decisions : d.card \in DOMAIN cards /\ d.of \in Proposals
  /\ DOMAIN writebacks \subseteq DOMAIN decisions
  /\ DOMAIN center = {d \in DOMAIN writebacks : writebacks[d] = "written"}

ChoicesTyped == \A c \in choices : c.about \in Proposals

NothingStored == stored' = stored /\ asked' = asked

NewlyStored(id, source) ==
  /\ id \notin DOMAIN stored
  /\ stored' = Put(stored, id, StoredAs(source, id[2]))
  /\ asked' = asked \cup {id}

Changed(id, item) ==
  /\ id \in DOMAIN stored /\ stored[id].active
  /\ stored' = [stored EXCEPT ![id] = item]
  /\ asked' = asked
  /\ item.active \/ item.content = stored[id].content

\* The ways in which any call changes the store: not at all, a memory that was never
\* asked for, or another form of one in use.
LEMMA StoreWays ==
  ASSUME StoreTyped, [CenterNext]_centerVars
  PROVE  \/ NothingStored
         \/ \E id \in Ids, source \in Origins : id[2] \in Notes /\ NewlyStored(id, source)
         \/ \E id \in Ids, item \in Items : (item.pinned => item.active) /\ Changed(id, item)
<1>1. ASSUME NEW id \in Ids, NEW source \in Origins, NEW note \in Notes, id[2] = note, Store(id, source, note)
      PROVE  NothingStored \/ NewlyStored(id, source)
  <2>1. CASE Unstored(id)
    BY <1>1, <2>1 DEF Store, Unstored, NewlyStored
  <2>2. CASE ~Unstored(id)
    BY <1>1, <2>2 DEF Store, Unstored, NothingStored, StoreTyped
  <2> QED  BY <2>1, <2>2
<1>2. ASSUME NEW note \in Notes, AddMemory(note)
      PROVE  NothingStored \/ NewlyStored(OwnerId(note), "telegram_memory_add")
  BY <1>1, <1>2 DEF AddMemory, OwnerId, Ids, Origins
<1>3. ASSUME NEW note \in Notes, NEW signal \in Signals, ApproveCandidate(signal, note)
      PROVE  NothingStored \/ NewlyStored(ContextId(signal, note), "context_scan_owner_approved")
  BY <1>1, <1>3 DEF ApproveCandidate, ContextId, Ids, Origins
<1>4. ASSUME NEW id, ForgetMemory(id)
      PROVE  \E item \in Items : (item.pinned => item.active) /\ Changed(id, item)
  <2> DEFINE old  == stored[id]
             item == [old EXCEPT !.active = FALSE, !.pinned = FALSE]
  <2>1. id \in DOMAIN stored /\ old.active /\ stored' = [stored EXCEPT ![id] = item] /\ asked' = asked
    BY <1>4 DEF ForgetMemory, Active, StoreTyped
  <2>2. old \in Items
    BY <2>1 DEF StoreTyped
  <2>3. item \in Items /\ ~item.pinned /\ item.content = old.content
    BY <2>2 DEF Items
  <2> QED  BY <2>1, <2>3 DEF Changed
<1>5. ASSUME NEW id, PinMemory(id)
      PROVE  \E item \in Items : (item.pinned => item.active) /\ Changed(id, item)
  <2> DEFINE old  == stored[id]
             item == [old EXCEPT !.pinned = TRUE]
  <2>1. id \in DOMAIN stored /\ old.active /\ stored' = [stored EXCEPT ![id] = item] /\ asked' = asked
    BY <1>5 DEF PinMemory, Active, StoreTyped
  <2>2. old \in Items
    BY <2>1 DEF StoreTyped
  <2>3. item \in Items /\ item.active = old.active /\ item.content = old.content
    BY <2>2 DEF Items
  <2> QED  BY <2>1, <2>3 DEF Changed
<1>6. ASSUME NEW id, NEW note \in Notes, EditMemory(id, note)
      PROVE  \E item \in Items : (item.pinned => item.active) /\ Changed(id, item)
  <2> DEFINE old  == stored[id]
             item == [old EXCEPT !.content = note, !.source = "telegram_memory_edit"]
  <2>1. id \in DOMAIN stored /\ old.active /\ stored' = [stored EXCEPT ![id] = item] /\ asked' = asked
    BY <1>6 DEF EditMemory, Active, StoreTyped
  <2>2. old \in Items /\ "telegram_memory_edit" \in Origins
    BY <2>1 DEF StoreTyped, Origins
  <2>3. item \in Items /\ item.active = old.active
    BY <2>2 DEF Items
  <2> QED  BY <2>1, <2>3 DEF Changed
<1>7. CASE UNCHANGED storeVars
  BY <1>7 DEF storeVars, NothingStored
<1>8. \/ UNCHANGED storeVars
      \/ \E note \in Notes : AddMemory(note) \/ (\E signal \in Signals : ApproveCandidate(signal, note))
      \/ \E id \in Ids : ForgetMemory(id) \/ PinMemory(id) \/ (\E note \in Notes : EditMemory(id, note))
  <2>1. CASE ReviewNext
    BY <2>1 DEF ReviewNext, RenderCard, BindSelection, WriteBack
  <2>2. CASE StoreNext
    BY <2>2 DEF StoreNext, ReviewCandidate, ReceiveForget, ReceiveEdit, ReceiveCorrection, Receive
  <2>3. CASE UNCHANGED centerVars
    BY <2>3 DEF centerVars
  <2> QED  BY <2>1, <2>2, <2>3 DEF CenterNext
<1>9. /\ "telegram_memory_add" \in Origins /\ "context_scan_owner_approved" \in Origins
      /\ \A note \in Notes : OwnerId(note) \in Ids /\ OwnerId(note)[2] = note
      /\ \A note \in Notes, signal \in Signals : ContextId(signal, note) \in Ids /\ ContextId(signal, note)[2] = note
  BY DEF Origins, Ids, OwnerId, ContextId
<1>10. ASSUME NEW note \in Notes, AddMemory(note) \/ (\E signal \in Signals : ApproveCandidate(signal, note))
       PROVE  NothingStored \/ \E id \in Ids, source \in Origins : id[2] \in Notes /\ NewlyStored(id, source)
  BY <1>2, <1>3, <1>9, <1>10
<1> QED  BY <1>4, <1>5, <1>6, <1>7, <1>8, <1>10

LEMMA StoreTypedStep ==
  ASSUME StoreTyped, [CenterNext]_centerVars
  PROVE  StoreTyped'
<1>1. CASE NothingStored
  BY <1>1 DEF NothingStored, StoreTyped
<1>2. ASSUME NEW id \in Ids, NEW source \in Origins, id[2] \in Notes, NewlyStored(id, source)
      PROVE  StoreTyped'
  <2> DEFINE item == StoredAs(source, id[2])
  <2>1. item \in Items /\ ~item.pinned
    BY <1>2 DEF StoredAs, Items
  <2>2. stored' = Put(stored, id, item) /\ asked' = asked \cup {id}
    BY <1>2 DEF NewlyStored
  <2> HIDE DEF item
  <2> QED  BY <2>1, <2>2 DEF StoreTyped, Put
<1>3. ASSUME NEW id \in Ids, NEW item \in Items, item.pinned => item.active, Changed(id, item)
      PROVE  StoreTyped'
  BY <1>3 DEF StoreTyped, Changed
<1> QED  BY <1>1, <1>2, <1>3, StoreWays

(***************************************************************************)
(* A memory the owner had forgotten is never touched again, and a text     *)
(* that no memory in use holds comes into use only by a request he never   *)
(* made before or by an edit of a memory in use: to add a note again, or   *)
(* to approve what a scan proposes again of the same message, brings       *)
(* nothing back (app/memory_store.py).                                     *)
(***************************************************************************)
THEOREM RepetitionReturnsNothing == CenterSpec => NoReturnByRepetition
<1> DEFINE Untouched == \A id \in DOMAIN stored :
                          ~stored[id].active => id \in DOMAIN stored' /\ stored'[id] = stored[id]
           Anew(note) == \/ \E id \in asked' \ asked : id[2] = note
                         \/ \E id \in Bundle \cap Bundle' : stored'[id].content = note
<1>1. CenterInit => StoreTyped
  BY DEF CenterInit, StoreTyped
<1>2. ASSUME StoreTyped, [CenterNext]_centerVars
      PROVE  Untouched /\ \A note \in InUse' \ InUse : Anew(note)
  <2>1. CASE NothingStored
    <3>1. stored' = stored
      BY <2>1 DEF NothingStored
    <3>2. InUse' = InUse
      BY <3>1 DEF InUse, Bundle
    <3> QED  BY <3>1, <3>2
  <2>2. ASSUME NEW id \in Ids, NEW source \in Origins, NewlyStored(id, source)
        PROVE  Untouched /\ \A note \in InUse' \ InUse : Anew(note)
    <3>1. /\ DOMAIN stored' = DOMAIN stored \cup {id} /\ id \notin DOMAIN stored
          /\ \A x \in DOMAIN stored : stored'[x] = stored[x]
          /\ stored'[id].content = id[2]
          /\ id \in asked' \ asked
      BY <1>2, <2>2 DEF NewlyStored, Put, StoredAs, StoreTyped
    <3>2. ASSUME NEW note \in InUse' \ InUse
          PROVE  \E x \in asked' \ asked : x[2] = note
      <4>1. PICK x \in Bundle' : stored'[x].content = note
        BY <3>2 DEF InUse
      <4>2. x = id
        BY <3>1, <3>2, <4>1 DEF InUse, Bundle
      <4> QED  BY <3>1, <4>1, <4>2
    <3> QED  BY <3>1, <3>2
  <2>3. ASSUME NEW id \in Ids, NEW item \in Items, Changed(id, item)
        PROVE  Untouched /\ \A note \in InUse' \ InUse : Anew(note)
    <3>1. /\ DOMAIN stored' = DOMAIN stored /\ id \in DOMAIN stored /\ stored[id].active
          /\ \A x \in DOMAIN stored : x # id => stored'[x] = stored[x]
          /\ stored'[id] = item /\ (item.active \/ item.content = stored[id].content)
      BY <2>3 DEF Changed
    <3>2. ASSUME NEW note \in InUse' \ InUse
          PROVE  \E x \in Bundle \cap Bundle' : stored'[x].content = note
      <4>1. PICK x \in Bundle' : stored'[x].content = note
        BY <3>2 DEF InUse
      <4>2. x = id /\ id \in Bundle
        BY <3>1, <3>2, <4>1 DEF InUse, Bundle
      <4> QED  BY <4>1, <4>2
    <3> QED  BY <3>1, <3>2
  <2> QED  BY <1>2, <2>1, <2>2, <2>3, StoreWays
<1>3. StoreTyped /\ [CenterNext]_centerVars => StoreTyped'
  BY StoreTypedStep
<1>4. StoreTyped /\ [CenterNext]_centerVars =>
        [Untouched /\ \A note \in InUse' \ InUse : Anew(note)]_centerVars
  BY <1>2
<1> QED  BY <1>1, <1>3, <1>4, PTL DEF CenterSpec, NoReturnByRepetition

LEMMA ReviewTypedStep ==
  ASSUME ReviewTyped, [CenterNext]_centerVars
  PROVE  ReviewTyped'
<1>1. ASSUME NEW p \in Proposals, NEW chat, RenderCard(p, chat)
      PROVE  ReviewTyped'
  <2> DEFINE c      == <<p, chat>>
             status == IF ProposalRefused(p, chat) THEN "blocked" ELSE "rendered"
  <2>1. c[1] \in Proposals /\ status \in {"rendered", "blocked"}
    OBVIOUS
  <2>2. cards' = Put(cards, c, status) /\ UNCHANGED <<decisions, writebacks, center>>
    BY <1>1 DEF RenderCard
  <2> HIDE DEF c, status
  <2> QED  BY <2>1, <2>2 DEF ReviewTyped, Put
<1>2. ASSUME NEW p \in Proposals, NEW c \in DOMAIN cards, NEW card, NEW answer, NEW text, NEW by,
             BindSelection(Payload(p, c, answer, text), card, by)
      PROVE  ReviewTyped'
  <2> DEFINE pl == Payload(p, c, answer, text)
  <2>1. pl.card = c /\ pl.of = p
    BY DEF Payload
  <2>2. DOMAIN decisions' = DOMAIN decisions \cup {pl} /\ UNCHANGED <<cards, writebacks, center>>
    BY <1>2 DEF BindSelection, Put
  <2> HIDE DEF pl
  <2> QED  BY <2>1, <2>2 DEF ReviewTyped
<1>3. ASSUME NEW d \in DOMAIN decisions, NEW card, NEW p, WriteBack(d, card, p)
      PROVE  ReviewTyped'
  <2> DEFINE written == ~WritebackRefused(d, card, p)
             status  == IF written THEN "written" ELSE "rejected"
  <2>1. /\ d \notin DOMAIN writebacks /\ UNCHANGED <<cards, decisions>>
        /\ writebacks' = Put(writebacks, d, status)
        /\ center' = IF written THEN Put(center, d, Item(d, p)) ELSE center
    BY <1>3 DEF WriteBack
  <2>2. status = "written" <=> written
    OBVIOUS
  <2> HIDE DEF written, status
  <2>3. /\ DOMAIN writebacks' = DOMAIN writebacks \cup {d} /\ writebacks'[d] = status
        /\ \A x \in DOMAIN writebacks : writebacks'[x] = writebacks[x]
        /\ DOMAIN center' = IF written THEN DOMAIN center \cup {d} ELSE DOMAIN center
    BY <2>1 DEF Put
  <2>4. DOMAIN center' = {x \in DOMAIN writebacks' : writebacks'[x] = "written"}
    BY <2>1, <2>2, <2>3 DEF ReviewTyped
  <2> QED  BY <2>1, <2>3, <2>4 DEF ReviewTyped
<1>4. CASE UNCHANGED reviewVars
  BY <1>4 DEF reviewVars, ReviewTyped
<1>5. CASE ReviewNext
  BY <1>1, <1>2, <1>3, <1>5 DEF ReviewNext
<1>6. CASE StoreNext
  BY <1>4, <1>6, StoreLeavesReview
<1>7. CASE UNCHANGED centerVars
  BY <1>4, <1>7 DEF centerVars
<1> QED  BY <1>5, <1>6, <1>7 DEF CenterNext

LEMMA ChoicesTypedStep ==
  ASSUME ChoicesTyped, [CenterNext]_centerVars
  PROVE  ChoicesTyped'
<1>1. ASSUME NEW p \in Proposals, NEW choice, NEW text, ReviewCandidate(p, choice, text)
      PROVE  ChoicesTyped'
  <2> DEFINE r == [about |-> p, choice |-> choice, text |-> text, status |-> ReviewStatus(p, choice, text)]
  <2>1. r.about = p /\ choices' = choices \cup {r}
    BY <1>1 DEF ReviewCandidate
  <2> HIDE DEF r
  <2> QED  BY <2>1 DEF ChoicesTyped
<1>2. CASE choices' = choices
  BY <1>2 DEF ChoicesTyped
<1>3. CASE ReviewNext
  BY <1>2, <1>3 DEF ReviewNext, RenderCard, BindSelection, WriteBack
<1>4. CASE StoreNext
  <2>1. \/ choices' = choices
        \/ \E p \in Proposals, text \in Edits \cup {""}, choice \in {"edit", "approve", "reject"} :
             ReviewCandidate(p, choice, text)
    BY <1>4 DEF StoreNext, ApproveCandidate, AddMemory, Store, ForgetMemory, PinMemory, EditMemory, ReceiveForget,
                ReceiveEdit, ReceiveCorrection, Receive
  <2> QED  BY <1>1, <1>2, <2>1
<1>5. CASE UNCHANGED centerVars
  BY <1>2, <1>5 DEF centerVars
<1> QED  BY <1>3, <1>4, <1>5 DEF CenterNext

CenterTyped == StoreTyped /\ ReviewTyped /\ ChoicesTyped

LEMMA CenterTypedInitially == CenterInit => CenterTyped
  BY DEF CenterInit, CenterTyped, StoreTyped, ReviewTyped, ChoicesTyped

LEMMA CenterTypedStep == CenterTyped /\ [CenterNext]_centerVars => CenterTyped'
  BY StoreTypedStep, ReviewTypedStep, ChoicesTypedStep DEF CenterTyped

LEMMA CenterTypedIsOK == CenterTyped => CenterTypeOK
  BY DEF CenterTyped, StoreTyped, ReviewTyped, ChoicesTyped, CenterTypeOK

\* Decisions are about cards there are, exactly what was written has an item in the
\* center, and nothing stays pinned that is forgotten.
THEOREM CenterTypes == CenterSpec => []CenterTypeOK
  BY CenterTypedInitially, CenterTypedStep, CenterTypedIsOK, PTL DEF CenterSpec

-----------------------------------------------------------------------------
(* The chains and the center side by side *)

\* A step of one of them is a step of each, or a stutter of it.
LEMMA StepsOfEach ==
  ASSUME [MCNext]_<<asyncVars, followVars, proactiveVars, centerVars, part>>
  PROVE  /\ [AsyncNext]_asyncVars
         /\ [FollowNext]_followVars
         /\ [ProactiveNext]_proactiveVars
         /\ [CenterNext]_centerVars
  BY DEF MCNext, CenterNext

\* The type invariants of the three chains and of the memory center, whichever of
\* them moves: every record a stage keeps is about records there are.
THEOREM TypesHold == MCSpec => []TypesOK
<1>1. MCInit => AsyncInit /\ FollowInit /\ ProactiveInit /\ CenterInit
  BY DEF MCInit
<1>2. MCSpec => AsyncSpec /\ FollowSpec /\ ProactiveSpec /\ CenterSpec
  BY <1>1, StepsOfEach, PTL DEF MCSpec, AsyncSpec, FollowSpec, ProactiveSpec, CenterSpec
<1>3. AsyncTypeOK /\ FollowTypeOK /\ ProactiveTypeOK /\ CenterTypeOK => TypesOK
  BY DEF TypesOK
<1> QED  BY <1>2, <1>3, AsyncTypes, FollowTypes, ProactiveTypes, CenterTypes, PTL
=============================================================================
