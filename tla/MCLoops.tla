------------------------------- MODULE MCLoops -------------------------------
(***************************************************************************)
(* The memory loop, the conversation loop and the polling loop of the      *)
(* pilot robot share no state.  TLC explores them in one run: one of them  *)
(* moves in a behaviour, the others rest in their initial state.  For the  *)
(* memory loop either any messages come to either handler, or all of them  *)
(* come from the user of MemoryDelivery; her part uses fewer ids, for it   *)
(* has her screen and Telegram besides the tables.                         *)
(***************************************************************************)
EXTENDS MemoryDelivery, PilotPolling

CONSTANTS
    HerProposals,  \* bound: proposals made in her part
    HerMemories,   \* bound: memories kept in her part
    Chats, MaxTurns, TTL, MaxId, MaxClock, MaxQueue, MaxLostAnswers  \* of the conversation

ASSUME HerBounds == HerProposals \subseteq ProposalIds /\ HerMemories \subseteq MemoryIds

VARIABLES
    turns, clock, calls, answer, prompt, sent, queue, lostAnswers, session, given,  \* of the conversation
    part   \* what moves: "anywhere" or "user", "talk", "polling"

talkVars == <<turns, clock, calls, answer, prompt, sent, queue, lostAnswers, session, given>>
mcVars   == <<allVars, pollVars, talkVars, part>>

Talk == INSTANCE ConversationHistory WITH reply <- answer, lost <- lostAnswers, MaxLost <- MaxLostAnswers

ASSUME ConversationAssumption == Talk!SettingsAssumption /\ Talk!BoundsAssumption

InHerBounds ==
    /\ \A p \in ProposalIds \ HerProposals : proposal[p] = NoRow
    /\ \A m \in MemoryIds \ HerMemories : memory[m] = NoRow

MCInit == DeliveryInit /\ PollInit /\ Talk!Init /\ part \in {"anywhere", "user", "talk", "polling"}

OnlyMemory  == UNCHANGED <<pollVars, talkVars, part>>
OnlyTalk    == part = "talk" /\ UNCHANGED <<allVars, pollVars, part>>
OnlyPolling == part = "polling" /\ UNCHANGED <<allVars, talkVars, part>>

FromAnywhere == part = "anywhere" /\ Next /\ UNCHANGED delivery /\ OnlyMemory
FromUser     == part = "user" /\ DeliveryNext /\ InHerBounds' /\ OnlyMemory
Delivered    == part = "user" /\ Deliver /\ InHerBounds' /\ OnlyMemory
TalkMoves    == Talk!Next /\ OnlyTalk
PollingMoves == PollNext /\ OnlyPolling

MCNext == FromAnywhere \/ FromUser \/ TalkMoves \/ PollingMoves

\* Telegram keeps posting an update until it is answered; the polling loop never
\* rests, and whoever runs the robot starts it again.
MCSpec ==
    /\ MCInit /\ [][MCNext]_mcVars
    /\ WF_mcVars(Delivered)
    /\ WF_mcVars(Poll /\ OnlyPolling)
    /\ WF_mcVars(HandleUpdate /\ OnlyPolling)
    /\ WF_mcVars(Start /\ OnlyPolling)

\* DecidedAsShown, in the part where there is a screen: the user sees exactly what
\* would be remembered when she decides about it.
SheDecidesAsShown == part = "user" => DeliveryTypeOK /\ DecidedAsShown

\* ConversationHistory's statement: the model is given the turns a reader of the
\* conversation would call recent; and no message has two of them.
PromptIsSession == []Talk!TypeOK /\ []Talk!OneTurnPerSource /\ Talk!PromptIsSession

\* ConversationHistory's statement: a message that is answered again is answered
\* alike; and in one chat no message is answered with another's answer.
RetriedAlike == []Talk!OwnAnswer /\ Talk!RetriedAlike
=============================================================================
