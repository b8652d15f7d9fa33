------------------------------ MODULE DemoFlows ------------------------------
(***************************************************************************)
(* The two demos of the proactive chain: a document to review              *)
(* (app/document_review_demo_flow.py, stage 128P) and a meeting to prepare *)
(* (app/meeting_brief_demo_flow.py, 126P), the packs they are shown under  *)
(* (app/skill_pack_activation_surface.py, 125P), and the screen of the     *)
(* second (app/demo_result_delivery_surface.py, 127P).                     *)
(*                                                                         *)
(* A run goes through every stage again, and each stage gives back the     *)
(* record it already has for the same key.  The keys differ: one run's     *)
(* records are those of its owner, chat, fixture and day, but the brief is *)
(* the owner's of the window, and the packs are the owner's for ever.      *)
(***************************************************************************)
EXTENDS Integers, FiniteSets

CONSTANTS
    DemoRuns,   \* what may be asked for: [owner, chat, fixture, day]
    MaxFlows    \* bound: flows kept

ASSUME DemosAssumption ==
    /\ MaxFlows \in Nat
    /\ \A run \in DemoRuns :
           run = [owner |-> run.owner, chat |-> run.chat, fixture |-> run.fixture, day |-> run.day]

VARIABLES
    document,  \* DocumentReviewDemoDependencyBundle: briefs, packs and flows kept
    meeting,   \* MeetingBriefDemoDependencyBundle
    screens,   \* DemoResultDeliverySurfaceRegistry
    lastDemo   \* what the last run was asked and how it ended

demoVars == <<document, meeting, screens, lastDemo>>

NoRun  == [owner |-> "nobody"]
NoFlow == [of |-> NoRun]

DemoInit ==
    /\ document = [briefs |-> {}, surfaces |-> {}, flows |-> {}]
    /\ meeting  = [briefs |-> {}, surfaces |-> {}, flows |-> {}]
    /\ screens = {}
    /\ lastDemo = [asked |-> NoRun, how |-> "none", flow |-> NoFlow]

-----------------------------------------------------------------------------
(* The records of one run, by what their ids are made of *)

\* Neither a fixture nor a chat may hold what looks like a secret; a document may not
\* claim to be signed, read by OCR or legal advice either.
DocumentAccepted(run) == run.fixture.says \notin {"secret", "claim"}
MeetingAccepted(run)  == run.fixture.says # "secret"

\* 118P: a document is seen on the day of the run, a meeting at its own time.
DocumentSource(run) == [owner |-> run.owner, fixture |-> run.fixture.id, at |-> run.day]
MeetingSource(run)  == [owner |-> run.owner, fixture |-> run.fixture.id, at |-> run.fixture.at]

\* 119P: what the fixture hints at; a brief is only missing before the meeting.
Noticed(run) ==
    IF run.fixture.hints = "meeting_brief_missing" /\ run.fixture.at < run.day
    THEN "no_opportunity" ELSE run.fixture.hints

Opportunity(run, source) == [source |-> source, kind |-> Noticed(run)]

\* 120P, 121P and the plan of 108P: suggested in a chat.
Plan(run, source) == [opportunity |-> Opportunity(run, source), chat |-> run.chat]

\* 109P and 110P: there is one option to choose.
Selection(run, source) == [plan |-> Plan(run, source), option |-> "option_a"]

\* The estimate names the day it was asked for.
CostRequest(run) == [owner |-> run.owner, day |-> run.day]

\* 111P and 122P, and the attempt of 123P.
Delegated(run, source) == [selection |-> Selection(run, source), cost |-> CostRequest(run)]
Attempt(run, source)   == [delegation |-> Delegated(run, source)]

-----------------------------------------------------------------------------
(* 124P and 125P: what is kept for the owner *)

\* The brief of a window holds what was there when it was first asked for.
BriefOf(bundle, run) ==
    LET kept == {b \in bundle.briefs : b.owner = run.owner /\ b.window = run.fixture.window}
    IN  IF kept # {} THEN CHOOSE b \in kept : TRUE
        ELSE [owner |-> run.owner, window |-> run.fixture.window, about |-> run]

\* _classify_opportunity, for what these fixtures hint at.
PackOf(kind) ==
    CASE kind = "document_review_needed"                             -> "documents_pack"
      [] kind \in {"meeting_brief_missing", "unread_context_needs_summary"} -> "basic_package"
      [] kind = "stale_proposal_followup"                            -> "sales_pack"
      [] kind = "no_opportunity"                                     -> "robot_core"
      [] OTHER                                                       -> "pro_package"

\* What can be asked of the packs afterwards: the run's brief, attempt, opportunity and
\* source, each under its pack.
Classified(run, source, brief) ==
    {[record |-> brief, pack |-> "basic_package"],
     [record |-> Attempt(run, source), pack |-> "pro_package"],
     [record |-> Opportunity(run, source), pack |-> PackOf(Noticed(run))],
     [record |-> source, pack |-> "robot_core"]}

\* The surface is found again by its owner alone.
SurfaceOf(bundle, run, source, brief) ==
    LET kept == {s \in bundle.surfaces : s.owner = run.owner}
    IN  IF kept # {} THEN CHOOSE s \in kept : TRUE
        ELSE [owner |-> run.owner, classified |-> Classified(run, source, brief)]

Presented(bundle, brief, surface) ==
    [bundle EXCEPT !.briefs = @ \cup {brief}, !.surfaces = @ \cup {surface}]

-----------------------------------------------------------------------------
(* 128P and 126P: the flow and its artifact *)

FlowKey_OfFixture(run, source) == <<run.owner, run.chat, run.fixture.id>>

\* demo_dedupe_key
FlowKey(run, source) == <<run.owner, run.chat, source, Attempt(run, source)>>

NewFlow(key, run, artifact) == [key |-> key, of |-> run, artifact |-> artifact]

\* assemble_..._demo_flow for the records of one run, which fit each other: the flow
\* kept under the key, or a new one.
FlowOf(bundle, run, source, artifact) ==
    LET key  == FlowKey(run, source)
        kept == {f \in bundle.flows : f.key = key}
    IN  IF kept # {} THEN CHOOSE f \in kept : TRUE ELSE NewFlow(key, run, artifact)

\* The packs under which the artifact says the document is.
DocumentPacks(run, brief, surface) ==
    LET source == DocumentSource(run)
    IN  {c \in surface.classified :
            /\ c.pack = "documents_pack"
            /\ c.record \in {Opportunity(run, source), brief, Attempt(run, source), source}}

DocumentArtifact(run, brief, surface) ==
    [owner |-> run.owner, brief |-> brief, packs |-> DocumentPacks(run, brief, surface)]

\* A meeting's artifact names whatever packs its own records were put under.
MeetingPacks(run, brief, surface) ==
    LET source == MeetingSource(run)
    IN  {c \in surface.classified :
            /\ c.pack \in {"basic_package", "pro_package"}
            /\ c.record \in {Opportunity(run, source), brief, Attempt(run, source)}}

MeetingArtifact(run, brief, surface) ==
    [owner |-> run.owner, brief |-> brief, packs |-> MeetingPacks(run, brief, surface)]

Tells(run, how, flow) == lastDemo' = [asked |-> run, how |-> how, flow |-> flow]

Room(flow) == Cardinality(document.flows \cup meeting.flows \cup {flow}) <= MaxFlows

\* A flow there is already is answered without another look at the packs.
DocumentDemo(run) ==
    LET source   == DocumentSource(run)
        brief    == BriefOf(document, run)
        surface  == SurfaceOf(document, run, source, brief)
        flow     == FlowOf(document, run, source, DocumentArtifact(run, brief, surface))
    IN  /\ DocumentAccepted(run) /\ Noticed(run) = "document_review_needed"
        /\ flow \in document.flows \/ DocumentPacks(run, brief, surface) # {}
        /\ Room(flow)
        /\ document' = [Presented(document, brief, surface) EXCEPT !.flows = @ \cup {flow}]
        /\ Tells(run, "flow", flow)
        /\ UNCHANGED <<meeting, screens>>

\* rejected_missing_125p_documents_pack_classification: the packs are those of an
\* earlier run.  The brief stays.
DocumentUnclassified(run) ==
    LET source   == DocumentSource(run)
        brief    == BriefOf(document, run)
        surface  == SurfaceOf(document, run, source, brief)
        flow     == FlowOf(document, run, source, DocumentArtifact(run, brief, surface))
    IN  /\ DocumentAccepted(run) /\ Noticed(run) = "document_review_needed"
        /\ flow \notin document.flows /\ DocumentPacks(run, brief, surface) = {}
        /\ document' = Presented(document, brief, surface)
        /\ Tells(run, "unclassified", NoFlow)
        /\ UNCHANGED <<meeting, screens>>

\* What is refused before the brief is made leaves no trace in what is modelled here.
DocumentRefused(run) ==
    /\ ~DocumentAccepted(run) \/ Noticed(run) # "document_review_needed"
    /\ Tells(run, "refused", NoFlow)
    /\ UNCHANGED <<document, meeting, screens>>

MeetingDemo(run) ==
    LET source   == MeetingSource(run)
        brief    == BriefOf(meeting, run)
        surface  == SurfaceOf(meeting, run, source, brief)
        flow     == FlowOf(meeting, run, source, MeetingArtifact(run, brief, surface))
    IN  /\ MeetingAccepted(run) /\ Noticed(run) = "meeting_brief_missing"
        /\ Room(flow)
        /\ meeting' = [Presented(meeting, brief, surface) EXCEPT !.flows = @ \cup {flow}]
        /\ Tells(run, "flow", flow)
        /\ UNCHANGED <<document, screens>>

\* rejected_invalid_demo_intent_lineage, once everything else is there.
MeetingOfOtherIntent(run) ==
    LET source   == MeetingSource(run)
        brief    == BriefOf(meeting, run)
    IN  /\ MeetingAccepted(run)
        /\ Noticed(run) \notin {"meeting_brief_missing", "no_opportunity"}
        /\ meeting' = Presented(meeting, brief, SurfaceOf(meeting, run, source, brief))
        /\ Tells(run, "other_intent", NoFlow)
        /\ UNCHANGED <<document, screens>>

MeetingRefused(run) ==
    /\ ~MeetingAccepted(run) \/ Noticed(run) = "no_opportunity"
    /\ Tells(run, "refused", NoFlow)
    /\ UNCHANGED <<document, meeting, screens>>

-----------------------------------------------------------------------------
(* 127P *)

\* The flow and the artifact are handed in by themselves.
LineageFits(flow, artifact) == flow.artifact = artifact

\* render_demo_result_delivery_surface
ShowResult(owner, flow, artifact) ==
    /\ owner = flow.of.owner /\ owner = artifact.owner
    /\ LineageFits(flow, artifact)
    /\ screens' = screens \cup {[owner |-> owner, chat |-> flow.of.chat, flow |-> flow, artifact |-> artifact]}
    /\ UNCHANGED <<document, meeting, lastDemo>>

DemoNext ==
    \/ \E run \in DemoRuns :
          \/ /\ run.fixture.demo = "document"
             /\ DocumentDemo(run) \/ DocumentUnclassified(run) \/ DocumentRefused(run)
          \/ /\ run.fixture.demo = "meeting"
             /\ MeetingDemo(run) \/ MeetingOfOtherIntent(run) \/ MeetingRefused(run)
    \/ \E flow, other \in meeting.flows, owner \in {run.owner : run \in DemoRuns} :
          ShowResult(owner, flow, other.artifact)

DemoSpec == DemoInit /\ [][DemoNext]_demoVars

-----------------------------------------------------------------------------
\* One brief for an owner and a window, one surface for an owner, one flow for a key;
\* and the demos keep to themselves.
DemoTypeOK ==
    \A bundle \in {document, meeting} :
        /\ \A b, c \in bundle.briefs : b.owner = c.owner /\ b.window = c.window => b = c
        /\ \A s, t \in bundle.surfaces : s.owner = t.owner => s = t
        /\ \A f, g \in bundle.flows : f.key = g.key => f = g
        /\ \A f \in bundle.flows : f.artifact.brief \in bundle.briefs
        /\ \A f \in bundle.flows : f.of.fixture.demo = IF bundle = document THEN "document" ELSE "meeting"

\* A demo is told as its own: the flow a run is answered with was made for that owner,
\* in that chat, of that fixture and day, though its brief may tell of another run of
\* the owner's; a document is under the documents pack by its own opportunity.  What
\* was told once is told again alike, whatever was refused in between, and is shown to
\* nobody else.
DemosTellTheirOwn ==
    [][/\ lastDemo' # lastDemo /\ lastDemo'.how = "flow" =>
             /\ lastDemo'.flow.of = lastDemo'.asked
             /\ lastDemo'.flow.artifact.brief.owner = lastDemo'.asked.owner
             /\ lastDemo'.asked.fixture.demo = "document" =>
                    \E c \in lastDemo'.flow.artifact.packs :
                        c.record = Opportunity(lastDemo'.asked, DocumentSource(lastDemo'.asked))
       /\ lastDemo' # lastDemo =>
             \A f \in document.flows \cup meeting.flows :
                 f.of = lastDemo'.asked => lastDemo'.how = "flow" /\ lastDemo'.flow = f
       /\ \A s \in screens' : s.owner = s.artifact.owner /\ s.chat = s.flow.of.chat
                               /\ s.artifact = s.flow.artifact]_demoVars
=============================================================================
