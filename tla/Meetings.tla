------------------------------- MODULE Meetings -------------------------------
(***************************************************************************)
(* The read-only connectors and what is prepared from them: the workspace  *)
(* token and its refresh, the calendar read (133P), its context candidates *)
(* (137P, 164P), meeting suggestions (138P), the brief asked for one       *)
(* (139P), the preparation pack with mail and documents (141P), the        *)
(* memory it proposes (144P) and what the owner says to it (145P), and     *)
(* one mail thread.  A command reads everything anew; what it shows stays  *)
(* on the owner's screen while the calendar changes.                       *)
(***************************************************************************)
EXTENDS Integers, FiniteSets, Sequences

CONSTANTS Agendas,    \* what the calendar may hold: sequences of [event, title, state, marks]
          Life, Skew, \* lifetime of a token and the margin it is renewed in (60 s)
          MaxContext, MaxMeetings, MaxProposed,   \* the limits of 137P (10), 138P (3), 164P (12)
          LastSecond, MaxCommands                   \* bounds

(* A token of Google lives for longer than the margin it is renewed in. *)
ASSUME MeetingsAssumption ==
  /\ Life \in Nat /\ Skew \in Nat /\ Skew < Life /\ LastSecond \in Nat
  /\ MaxContext \in Nat /\ MaxMeetings \in Nat /\ MaxProposed \in Nat /\ MaxCommands \in Nat

VARIABLES now,       \* seconds, coarsely
          direct,    \* whether the environment gives a token itself
          file,      \* the token file
          issued,    \* access tokens Google issued, each with the time it expires
          agenda,    \* what the calendar holds
          asked,     \* the token of the last request
          shown,     \* suggestions on the owner's screen
          commands,  \* commands so far
          given,     \* preparation packs and briefs he was given
          proposed,  \* memories proposed to him from them
          told       \* what he said to a proposed memory

meetingVars == <<now, direct, file, issued, agenda, asked, shown, commands, given, proposed, told>>

Never == LastSecond + Life + 1

NoFile == [access |-> 0, refresh |-> "none", expires |-> Never, grant |-> 0]

MeetingInit ==
  /\ now = 0 /\ direct \in BOOLEAN /\ file = NoFile /\ issued = <<Life>>
  /\ agenda \in Agendas /\ asked = NoFile
  /\ shown = {} /\ commands = 0 /\ given = {} /\ proposed = {} /\ told = {}

PassSecond == now < LastSecond /\ now' = now + 1
        /\ UNCHANGED <<direct, file, issued, agenda, asked, shown, commands, given, proposed, told>>

EditAgenda(events) ==
  /\ agenda' = events
  /\ UNCHANGED <<now, direct, file, issued, asked, shown, commands, given, proposed, told>>

(* The answer of the token endpoint may name no expiry, and no refresh token unless it is a new one. *)
Answers200 == {[refresh |-> r, timed |-> t] : r \in {"new", "none"}, t \in BOOLEAN}

TokenRecord_AsAnswered(answer, prior, grant) ==
  [access |-> Len(issued) + 1, refresh |-> answer.refresh,
   expires |-> IF answer.timed THEN now + Life ELSE Never, grant |-> grant]

TokenRecord(answer, prior, grant) ==
  [access |-> Len(issued) + 1, refresh |-> IF answer.refresh = "none" THEN prior ELSE answer.refresh,
   expires |-> IF answer.timed THEN now + Life ELSE Never, grant |-> grant]

Connect(answer) ==
  /\ file.grant < 1
  /\ file' = TokenRecord(answer, "none", file.grant + 1)
  /\ issued' = Append(issued, now + Life)
  /\ UNCHANGED <<now, direct, agenda, asked, shown, commands, given, proposed, told>>

FreshToken(record) == record.expires > now + Skew

RefreshedFrom(answer) == TokenRecord(answer, file.refresh, file.grant)

(* "use" is the token a command is given: the environment's, the file's, a refreshed one, or none. *)
Resolutions ==
  LET none == [access |-> 0, saved |-> file, issued |-> issued]
      refreshed(answer) == [access |-> Len(issued) + 1, saved |-> RefreshedFrom(answer), issued |-> Append(issued, now + Life)]
  IN  IF direct THEN {[none EXCEPT !.access = 1]}
      ELSE IF file = NoFile THEN {none}
      ELSE IF FreshToken(file) THEN {[none EXCEPT !.access = file.access]}
      ELSE IF file.refresh = "none" THEN {none}
      ELSE {none} \cup {refreshed(answer) : answer \in Answers200}

Resolve(use) ==
  /\ use \in Resolutions
  /\ file' = use.saved /\ issued' = use.issued
  /\ asked' = IF use.access = 0 THEN asked ELSE IF direct THEN NoFile ELSE use.saved
  /\ commands < MaxCommands /\ commands' = commands + 1
  /\ UNCHANGED <<now, direct, agenda>>

(* The places of the calendar that a read gives. *)
Confirmed == {k \in DOMAIN agenda : agenda[k].state = "confirmed"}

(* 133P.  A token Google no longer takes is answered 401; "fails" is every other way the call goes wrong. *)
CalendarRead(use, net) ==
  LET refused(error) == [ok |-> FALSE, error |-> error, events |-> {}]
  IN  IF use.access = 0 THEN refused("missing_access_token")
      ELSE IF net = "misconfigured" THEN refused("invalid_configuration")
      ELSE IF use.issued[use.access] <= now THEN refused("unauthorized")
      ELSE IF net = "fails" THEN refused("network_error")
      ELSE [ok |-> TRUE, error |-> "none", events |-> Confirmed]

Nets == {"answers", "fails", "misconfigured"}

(* 137P: up to three candidates an event, in this order, cut at the limit over all of them. *)
Kinds137 == <<"business", "prep", "people">>

CandidatesOf(k) == {<<k, n>> : n \in {i \in DOMAIN Kinds137 : Kinds137[i] \in agenda[k].marks}}

Before(c, d) == c[1] < d[1] \/ (c[1] = d[1] /\ c[2] < d[2])

Earliest(candidates, n) == {c \in candidates : Cardinality({d \in candidates : Before(d, c)}) < n}

ContextScan(read) == Earliest(UNION {CandidatesOf(k) : k \in read.events}, MaxContext)

(* 138P: one suggestion an event, the first of the scan. *)
SuggestionOf(c) == [event |-> agenda[c[1]].event, title |-> agenda[c[1]].title]

MeetingSuggestions(read) ==
  LET prep     == {c \in ContextScan(read) : Kinds137[c[2]] = "prep"}
      first(c) == \A d \in prep : Before(d, c) => agenda[d[1]].event # agenda[c[1]].event
  IN  {SuggestionOf(c) : c \in Earliest({c \in prep : first(c)}, MaxMeetings)}

Suggest(use, net) ==
  /\ Resolve(use)
  /\ shown' = MeetingSuggestions(CalendarRead(use, net))
  /\ UNCHANGED <<given, proposed, told>>

(* The mail read: the signals its messages give, or that it went wrong. *)
MailReads == {<<"context">>, <<"context", "attachment", "followup">>, <<"fails">>}

Signals == {<< >>} \cup (MailReads \ {<<"fails">>})

MailOf(use, mail) ==
  IF use.access = 0 \/ mail = <<"fails">> THEN "blocked" ELSE IF mail = << >> THEN "empty" ELSE "context"

(* 164P: from the calendar and from the signals of the mail. *)
Proposal(source, about) == [source |-> source, about |-> about]

ContextProposals(read, mail) ==
  LET scan == ContextScan(read)
      room == {k \in DOMAIN mail : Cardinality(scan) + k <= MaxProposed}
  IN  {Proposal("calendar", agenda[c[1]].event) : c \in Earliest(scan, MaxProposed)}
        \cup {Proposal("mail", mail[k]) : k \in room}

ProposeContext(use, net, mail) ==
  /\ Resolve(use)
  /\ use.access = 0 => mail = << >>
  /\ proposed' = proposed \cup ContextProposals(CalendarRead(use, net), mail)
  /\ UNCHANGED <<shown, given, told>>

(* 139P: the suggestion must be one of the scan made now. *)
Selected_FromScreen(id, read) == read.ok /\ id \in shown

Selected(id, read) == id \in MeetingSuggestions(read)

BriefStatus(id, read) ==
  IF ~read.ok THEN "blocked_calendar_unavailable"
  ELSE IF ~Selected(id, read) THEN "blocked_suggestion_not_found"
  ELSE "completed"

(* The pack: mail and documents only add to a brief that was completed. *)
PackStatus(id, read, mail, documents) ==
  IF BriefStatus(id, read) # "completed" THEN BriefStatus(id, read)
  ELSE IF mail = "context" \/ documents = "context" THEN "completed_with_context"
  ELSE IF mail = "blocked" \/ documents = "blocked" THEN "completed_with_blocked_sources"
  ELSE "completed"

Pack(id, status, at) == [meeting |-> id, status |-> status, at |-> at]

(* 144P: one memory is proposed from a brief that was completed. *)
BriefProposal(id, status) == IF status = "completed" THEN {Proposal("brief", id.event)} ELSE {}

Prepare(id, use, net, mail, documents) ==
  LET read == CalendarRead(use, net)
      made == Pack(id, PackStatus(id, read, MailOf(use, mail), documents), now)
  IN  /\ Resolve(use)
      /\ given' = given \cup {made}
      /\ proposed' = proposed \cup BriefProposal(id, BriefStatus(id, read))
      /\ UNCHANGED <<shown, told>>

(* 145P: any candidate named is taken, and each choice leaves a receipt of its own. *)
DecideProposal(p, choice) ==
  /\ told' = told \cup {<<p, choice>>}
  /\ commands < MaxCommands /\ commands' = commands + 1
  /\ UNCHANGED <<now, direct, file, issued, agenda, asked, shown, given, proposed>>

(* One thread of the mail: the request names one header where three were meant. *)
ThreadHeaders == {"Date"}

ReadThread(use, net) ==
  /\ Resolve(use)
  /\ given' = given \cup {Pack([event |-> "thread", title |-> IF "Subject" \in ThreadHeaders THEN "subject" ELSE "(No subject)"],
                               IF use.access = 0 THEN "missing_access_token"
                               ELSE IF net = "answers" THEN "completed_with_messages" ELSE "gmail_thread_read_failed_closed", now)}
  /\ UNCHANGED <<shown, proposed, told>>

MeetingNext ==
  \/ PassSecond
  \/ \E events \in Agendas : EditAgenda(events)
  \/ \E answer \in Answers200 : Connect(answer)
  \/ \E use \in Resolutions, net \in Nets :
       \/ Suggest(use, net)
       \/ ReadThread(use, net)
       \/ \E mail \in Signals : ProposeContext(use, net, mail)
       \/ \E id \in shown, mail \in MailReads \cup {<< >>}, documents \in {"none", "context", "blocked"} : Prepare(id, use, net, mail, documents)
  \/ \E p \in proposed, choice \in {"approve", "reject"} : DecideProposal(p, choice)

MeetingSpec == MeetingInit /\ [][MeetingNext]_meetingVars

(***************************************************************************)
(* Types; the file holds a token that was issued and says of its expiry    *)
(* what was answered; what he is told of was proposed, and what was        *)
(* proposed from a brief came of a pack he was given.                      *)
(***************************************************************************)
MeetingTypeOK ==
  /\ now \in 0 .. LastSecond /\ agenda \in Agendas /\ commands \in 0 .. MaxCommands
  /\ file.access \in {0} \cup DOMAIN issued
  /\ file.access # 0 => file.expires \in {issued[file.access], Never}
  /\ asked.access \in {0} \cup DOMAIN issued
  /\ \A t \in told : t[1] \in proposed
  /\ \A p \in proposed : p.source = "brief" => \E g \in given : g.meeting.event = p.about

(***************************************************************************)
(* Once the workspace is connected with a refresh token it stays connected *)
(* whatever the token endpoint answers, and no request is made with a      *)
(* token of the file that is known to expire within the margin.            *)
(***************************************************************************)
StaysConnected ==
  [][/\ file'.grant = file.grant /\ file.refresh # "none" => file'.refresh # "none"
     /\ asked' # asked /\ asked' # NoFile => asked'.expires > now + Skew]_meetingVars

OnAgenda(id) ==
  \E k \in DOMAIN agenda : /\ agenda[k].state = "confirmed" /\ "prep" \in agenda[k].marks
                           /\ id = [event |-> agenda[k].event, title |-> agenda[k].title]

(***************************************************************************)
(* A meeting is prepared only while the calendar holds it: one the owner   *)
(* was shown and that was cancelled, renamed or pushed out of the scan     *)
(* since is answered as gone, and no memory is proposed from it.           *)
(***************************************************************************)
PreparedFromTheCalendar ==
  [][/\ \A p \in given' \ given :
          p.status \in {"completed", "completed_with_context", "completed_with_blocked_sources"} => OnAgenda(p.meeting)
     /\ \A p \in proposed' \ proposed :
          p.source = "brief" => \E id \in shown : id.event = p.about /\ OnAgenda(id)]_meetingVars
=============================================================================
