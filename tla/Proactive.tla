------------------------------ MODULE Proactive ------------------------------
(***************************************************************************)
(* The proactive chain: sources the owner lets be scanned (118P), what is  *)
(* detected in them (119P), the suggestion sent to a chat (120P), its      *)
(* adaptation to a follow-up intent (121P), the delegation registered from *)
(* a choice (122P) and its local execution (123P).                         *)
(*                                                                         *)
(* A call that raises leaves everything as it was, and no action.  Records *)
(* are identified with what their ids are made of.  Stage 108P plans none  *)
(* of these intents, so the selections are handed in by the caller.        *)
(***************************************************************************)
EXTENDS DelegationAuthority, FiniteSets

CONSTANTS Contents,      \* what a local source is about
          GrantTypes,    \* the sets of contents an authorization may cover
          Chats,         \* chats a suggestion may be meant for
          Costs,         \* cost requests a registration is authorized with
          ScanFixtures,  \* fixtures an execution is run with
          MaxGrants, MaxSources, MaxSuggestions, MaxSends, MaxFailures, MaxRegistrations  \* bounds on the registries

VARIABLES grants,        \* scan authorizations: a revocation is a record of its own
          sources, opportunities, scans, suggestions,
          sendings,      \* <<suggestion, chat>> -> its delivery
          sendCalls,     \* <<suggestion, chat>> -> what each call of the transport came to
          adaptGrants, adapters,    \* the deliveries the owner authorized, and those adapted
          registrations,            \* what the owner authorized -> its record
          proAuthorities,           \* registration -> its delegation
          proAttempts, proEvents    \* <<registration, fixture>> -> status; <<registration, status>> -> the attempt it tells of

scanVars == <<grants, sources, opportunities, scans>>
suggestVars == <<suggestions, sendings, sendCalls, adaptGrants, adapters>>
delegateVars == <<registrations, proAuthorities, proAttempts, proEvents>>
proactiveVars == <<scanVars, suggestVars, delegateVars>>

ProactiveInit ==
  /\ grants = {} /\ sources = {} /\ opportunities = {} /\ scans = {} /\ suggestions = {}
  /\ sendings = << >> /\ sendCalls = << >> /\ adaptGrants = {} /\ adapters = {}
  /\ registrations = << >> /\ proAuthorities = << >> /\ proAttempts = << >> /\ proEvents = << >>

(* 118P *)
GrantScan(status, types) ==
  /\ Cardinality(grants) < MaxGrants
  /\ grants' = grants \cup {[status |-> status, types |-> types]}
  /\ UNCHANGED <<sources, opportunities, scans, suggestVars, delegateVars>>

AddSource(g, content) ==
  /\ g.status = "active" /\ content \in g.types
  /\ Cardinality(sources) < MaxSources
  /\ sources' = sources \cup {[grant |-> g, content |-> content]}
  /\ UNCHANGED <<grants, opportunities, scans, suggestVars, delegateVars>>

(* 119P: words of a credential end the detection, other sensitive words block what is detected. *)
Sensitive(content) == content \in {"secret", "limits"}

Kind(content, upcoming) ==
  CASE content = "brief" /\ upcoming -> "meeting_brief_missing"
    [] content = "review"            -> "document_review_needed"
    [] content = "lead"              -> "lead_followup_due"
    [] content = "invoice"           -> "invoice_due_soon"
    [] content = "thread"            -> "unread_context_needs_summary"
    [] content = "gap"               -> "memory_gap_detected"
    [] content = "limits"            -> "boundary_review_needed"
    [] OTHER                         -> "no_opportunity"

Detectable(source) == source.content # "credential"

Opportunity(source, upcoming) ==
  [source |-> source, kind |-> Kind(source.content, upcoming), blocked |-> Sensitive(source.content)]

(* A detection goes through its sources in order and breaks off at the first that raises: what it found stays, unrecorded. *)
Detect(batch, upcoming) ==
  LET read == {i \in DOMAIN batch : \A j \in 1..i : Detectable(batch[j])}
      found == {Opportunity(batch[i], upcoming) : i \in read}
  IN  /\ opportunities' = opportunities \cup found
      /\ scans' = IF read = DOMAIN batch THEN scans \cup {found} ELSE scans
      /\ UNCHANGED <<grants, sources, suggestVars, delegateVars>>

Suggestable_EvenBlocked(o) == o.kind # "no_opportunity"

Suggestable(o) == o.kind # "no_opportunity" /\ ~o.blocked

(* 120P: the authorization is looked up under the id the source has kept, which no revocation changes. *)
Suggest(o, chat) ==
  /\ Suggestable(o) /\ o.source.grant.status = "active"
  /\ Cardinality(suggestions) < MaxSuggestions
  /\ suggestions' = suggestions \cup {[opportunity |-> o, chat |-> chat]}
  /\ UNCHANGED <<scanVars, sendings, sendCalls, adaptGrants, adapters, delegateVars>>

(* A chat that is named must be the one bound; the suggestion's own chat is not compared with it. *)
SendingRefused(s, named, bound) == bound = "" \/ (named # "" /\ named # bound)

Target(s, named) == IF named = "" THEN s.chat ELSE named

CallsOf(id) == IF id \in DOMAIN sendCalls THEN sendCalls[id] ELSE <<>>

KnownSending(id) == id \in DOMAIN sendings

Send(s, named, bound, arrives) ==
  LET id == <<s, Target(s, named)>>
  IN  /\ ~KnownSending(id)
      /\ Cardinality(DOMAIN sendCalls \cup {id}) <= MaxSends
      /\ arrives \/ Len(CallsOf(id)) < MaxFailures
      /\ sendings' = IF SendingRefused(s, named, bound) THEN Put(sendings, id, "rejected_invalid_lineage")
                     ELSE IF arrives THEN Put(sendings, id, "delivered_local")
                     ELSE sendings
      /\ sendCalls' = Put(sendCalls, id, IF SendingRefused(s, named, bound) THEN CallsOf(id)
                                       ELSE Append(CallsOf(id), arrives))
      /\ UNCHANGED <<scanVars, suggestions, adaptGrants, adapters, delegateVars>>

(* 121P *)
AuthorizeAdaptation(d) ==
  /\ adaptGrants' = adaptGrants \cup {d}
  /\ UNCHANGED <<scanVars, suggestions, sendings, sendCalls, adapters, delegateVars>>

Adaptable(d) == sendings[d] = "delivered_local" /\ d[2] = d[1].chat /\ Suggestable(d[1].opportunity)

Adapt(d) ==
  /\ d \in adaptGrants /\ Adaptable(d)
  /\ adapters' = adapters \cup {d}
  /\ UNCHANGED <<scanVars, suggestions, sendings, sendCalls, adaptGrants, delegateVars>>

(* 122P: the one option each kind of intent may be delegated with; a meeting brief has none. *)
OptionOf == [document_review_needed |-> "human_review_checklist", boundary_review_needed |-> "human_review_checklist",
             invoice_due_soon |-> "human_review_checklist", memory_gap_detected |-> "human_review_checklist",
             lead_followup_due |-> "extract_questions", unread_context_needs_summary |-> "deeper_summary"]

SelectionIn(of, option, status) == [of |-> of, option |-> option, status |-> status]

SelectionsIn == {SelectionIn(d, option, status) : d \in adapters, status \in {"selected", "cancelled"},
                                                  option \in {"human_review_checklist", "deeper_summary"}}

Linked_AnyIntent(s, d) == TRUE

Linked(s, d) == s.status = "cancelled" \/ s.of = d

Mapped(s, d) == /\ d[1].opportunity.kind \in DOMAIN OptionOf
                /\ OptionOf[d[1].opportunity.kind] = s.option

RegistrationStatus(s, d, opens, authority) ==
  IF s.status = "cancelled" THEN "rejected_cancelled_selection"
  ELSE IF ~Mapped(s, d) THEN "rejected_unsupported_task_class"
  ELSE IF opens /\ authority.state = "registered" THEN "delegated_registered"
  ELSE "rejected_invalid_lineage"

RegisterDelegation(d, s, cost, preflight, a) ==
  LET id        == <<d, s, cost>>
      opens     == s.status = "selected" /\ Mapped(s, d) /\ FollowUpOpens(preflight, a)
      authority == FollowUpAuthority(id, preflight, a)
  IN  /\ Linked(s, d)
      /\ id \notin DOMAIN registrations
      /\ Cardinality(DOMAIN registrations) < MaxRegistrations
      /\ registrations' = Put(registrations, id, [status |-> RegistrationStatus(s, d, opens, authority), preflight |-> preflight])
      /\ proAuthorities' = IF opens THEN Put(proAuthorities, id, authority) ELSE proAuthorities
      /\ UNCHANGED <<scanVars, suggestVars, proAttempts, proEvents>>

Withdraw(r) ==
  /\ proAuthorities' = [proAuthorities EXCEPT ![r] = Cancelled(@)]
  /\ UNCHANGED <<scanVars, suggestVars, registrations, proAttempts, proEvents>>

Resolved_ByRecord(r) == r \in DOMAIN proAuthorities

(* 123P: the delegation must still be registered when it is executed. *)
Resolved(r) == /\ r \in DOMAIN proAuthorities
               /\ proAuthorities[r].state = "registered" /\ proAuthorities[r].handle = "registered"

Outcomes == [plain |-> "completed", versions |-> "completed", failing |-> "failed"]

ExecuteRegistered(r, fixture) ==
  LET runs   == registrations[r].status = "delegated_registered" /\ Resolved(r)
      status == IF runs THEN Outcomes[fixture] ELSE "rejected_invalid_lineage"
  IN  /\ <<r, fixture>> \notin DOMAIN proAttempts
      /\ proAttempts' = Put(proAttempts, <<r, fixture>>, status)
      /\ proEvents' = IF runs THEN Put(proEvents, <<r, status>>, <<r, fixture>>) ELSE proEvents
      /\ UNCHANGED <<scanVars, suggestVars, registrations, proAuthorities>>

Batches == UNION {[1..n -> sources] : n \in 1..2}

ProactiveNext ==
  \/ \E status \in {"active", "revoked"}, types \in GrantTypes : GrantScan(status, types)
  \/ \E g \in grants, content \in Contents : AddSource(g, content)
  \/ \E batch \in Batches, upcoming \in BOOLEAN : Detect(batch, upcoming)
  \/ \E o \in opportunities, chat \in Chats : Suggest(o, chat)
  \/ \E s \in suggestions, named, bound \in Chats \cup {""}, arrives \in BOOLEAN : Send(s, named, bound, arrives)
  \/ \E d \in DOMAIN sendings : AuthorizeAdaptation(d) \/ Adapt(d)
  \/ \E d \in adapters, s \in SelectionsIn, cost \in Costs, preflight \in Preflights :
       \E a \in Approvals(<<d, s, cost>>) : RegisterDelegation(d, s, cost, preflight, a)
  \/ \E r \in DOMAIN proAuthorities : Withdraw(r)
  \/ \E r \in DOMAIN registrations, fixture \in ScanFixtures : ExecuteRegistered(r, fixture)

ProactiveSpec == ProactiveInit /\ [][ProactiveNext]_proactiveVars

(***************************************************************************)
(* Types; each record is about records there are: a source of its grant,   *)
(* an opportunity of its source, and so on to the attempt.                 *)
(***************************************************************************)
ProactiveTypeOK ==
  /\ \A source \in sources : source.grant \in grants
  /\ \A o \in opportunities : o.source \in sources /\ o.blocked \in BOOLEAN
  /\ \A scan \in scans : scan \subseteq opportunities
  /\ \A s \in suggestions : s.opportunity \in opportunities /\ s.chat \in Chats
  /\ DOMAIN sendings \subseteq DOMAIN sendCalls
  /\ \A d \in DOMAIN sendCalls : d[1] \in suggestions /\ d[2] \in Chats
  /\ adapters \subseteq adaptGrants /\ adaptGrants \subseteq DOMAIN sendings
  /\ \A r \in DOMAIN registrations : r[1] \in adapters
  /\ DOMAIN proAuthorities \subseteq DOMAIN registrations
  /\ \A r \in DOMAIN proAuthorities : proAuthorities[r].handle \in {"none", proAuthorities[r].state} \cap Handles
  /\ \A at \in DOMAIN proAttempts : at[1] \in DOMAIN registrations
  /\ \A event \in DOMAIN proEvents : proEvents[event] \in DOMAIN proAttempts

Arrivals(id) == {i \in DOMAIN sendCalls[id] : sendCalls[id][i]}

(***************************************************************************)
(* What reaches a chat unasked was found in a source the owner gave to     *)
(* scan, is a real opportunity, and has nothing sensitive in it; it        *)
(* reaches each chat once, whatever the transport did before.              *)
(***************************************************************************)
SuggestedInBounds ==
  \A id \in DOMAIN sendCalls : Arrivals(id) # {} =>
    LET o == id[1].opportunity
    IN  /\ o.source.grant \in grants /\ o.source.content \in o.source.grant.types
        /\ o \in opportunities /\ ~Sensitive(o.source.content) /\ o.kind # "no_opportunity"
        /\ Cardinality(Arrivals(id)) = 1

(***************************************************************************)
(* A delegation comes of a suggestion only along the owner's own steps:    *)
(* the suggestion reached him, he authorized its adaptation, chose the     *)
(* option of that very intent, and, where its cost calls for it, approved  *)
(* that very delegation.                                                   *)
(***************************************************************************)
DelegatedStepByStep ==
  \A r \in DOMAIN registrations : registrations[r].status = "delegated_registered" =>
    /\ r[1] \in adaptGrants /\ Cardinality(Arrivals(r[1])) = 1
    /\ r[2].of = r[1] /\ r[2].status = "selected"
    /\ registrations[r].preflight = "require_confirmation" => proAuthorities[r].grounds.of = {r}

(***************************************************************************)
(* A delegation that was withdrawn is not executed afterwards.             *)
(***************************************************************************)
WithdrawnStaysUndone ==
  [][\A r \in DOMAIN proAuthorities, fixture \in ScanFixtures :
       (proAuthorities[r].state # "registered" /\ <<r, fixture>> \notin DOMAIN proAttempts
          /\ <<r, fixture>> \in DOMAIN proAttempts')
         => proAttempts'[<<r, fixture>>] \notin {"completed", "failed"}]_proactiveVars
=============================================================================
