----------------------------- MODULE PolicyChain -----------------------------
(***************************************************************************)
(* The policy chain of the Telegram surface (95P) and the two handlers     *)
(* built on it, the caregiver assistant (97P) and the routine started by   *)
(* hand (98P), with the contract Hermes is run under (96P).  A text goes   *)
(* through command, skill, tool, memory and cost policies in turn; the     *)
(* first that stops it answers, and only a text none of them stops is      *)
(* handed to Hermes, a local stand-in, with the memories the request sees. *)
(***************************************************************************)
EXTENDS CostGovernor, MemoryProjection, Care

CONSTANTS Texts,          \* the texts a message may carry: [command, words, chars, items]
          Senders,         \* the Telegram users
          Kinds,          \* the kinds of memory kept
          Definitions,    \* the routines started: [kind, approved, manual, wakes, budgeted, fails, pills]
          MaxMemories,    \* bound: how many memories a person has at once
          MaxRan          \* bound: how many runs are remembered; nothing moves after the last

(* What a text and a routine are, and what the bounds may be. *)
ASSUME ChainAssumption ==
  /\ Texts \subseteq [command : STRING, words : SUBSET STRING, chars : Nat, items : Nat]
  /\ Definitions \subseteq [kind : STRING, approved : BOOLEAN, manual : BOOLEAN, wakes : BOOLEAN,
                            budgeted : BOOLEAN, fails : BOOLEAN, pills : BOOLEAN]
  /\ MaxMemories \in Nat /\ MaxRan \in Nat

VARIABLES known,          \* who has an account, with a robot
          memories,       \* the active memories: [owner, order, kind]
          ran             \* what was answered, and what reached Hermes

chainVars == <<known, memories, ran>>

SkillWords    == {"pay", "dose", "yolo"}
ToolWords     == {"pay", "dose", "destructive"}
ExternalWords == {"send"}
ReminderWords == {"remind"}

(* 90P: what becomes of a command; /approve with a packet id is let through. *)
CommandPolicy(text) ==
  CASE text.command \in {"bare_approval", "operator"} -> "BLOCK_CONSUMER"
    [] text.command \in {"approval", "exposed"}       -> "EXPOSE"
    [] text.command = "wrapped"                       -> "WRAP"
    [] OTHER                                          -> "PRODUCT_INTENT"

(* 91P: one word is asked about. *)
SkillPolicy(text) ==
  IF text.command = "approval" THEN "ANSWER"
  ELSE IF text.words \cap SkillWords # {} THEN "BLOCK"
  ELSE IF text.command = "wrapped" THEN "ANSWER"
  ELSE IF text.command = "single" THEN "CLARIFY"
  ELSE "ANSWER"

ToolPolicy_ReminderFirst(text) ==
  IF text.command = "approval" THEN "DRAFT_ONLY"
  ELSE IF text.words \cap ReminderWords # {} THEN "DRAFT_ONLY"
  ELSE IF text.words \cap ToolWords # {} THEN "BLOCK"
  ELSE IF text.words \cap ExternalWords # {} THEN "ASK_CONFIRMATION"
  ELSE "ALLOW"

(* 92P: what it would do. *)
ToolPolicy(text) ==
  IF text.command = "approval" THEN "DRAFT_ONLY"
  ELSE IF text.words \cap ToolWords # {} THEN "BLOCK"
  ELSE IF text.words \cap ExternalWords # {} THEN "ASK_CONFIRMATION"
  ELSE IF text.words \cap ReminderWords # {} THEN "DRAFT_ONLY"
  ELSE "ALLOW"

(* The item the chain makes of a memory: it never carries a conflict group, nor who may see it. *)
CenterItem(memory) ==
  LET boundary == memory.kind = "BOUNDARY_MEMORY"
      work     == memory.kind = "WORK_PREFERENCE"
  IN  [order |-> memory.order, owner |-> memory.owner, robot |-> memory.owner, kind |-> memory.kind,
       status |-> "active",
       scopes |-> {"general", "telegram", "hermes_os"}
                    \cup (IF boundary THEN {"caregiver", "routine"} ELSE {}) \cup (IF work THEN {"routine"} ELSE {}),
       uses |-> {"answer_personalization", "telegram_context", "hermes_os_context"}
                  \cup (IF boundary THEN {"boundary_enforcement", "caregiver_context", "routine_context"} ELSE {})
                  \cup (IF work THEN {"routine_context"} ELSE {}),
       sensitivity |-> CASE memory.kind = "CREDENTIAL"       -> "credential_like"
                         [] memory.kind = "MEDICAL_DECISION" -> "medical"
                         [] memory.kind = "OWNER_PRIVATE"    -> "personal"
                         [] OTHER                            -> "ordinary",
       visibility |-> "owner_private", actors |-> {}, group |-> NoGroup,
       boundary |-> boundary, preference |-> work, summarised |-> FALSE]

Surfaces ==
  [owner     |-> [role |-> "owner_admin",    scope |-> "telegram",  use |-> "telegram_context"],
   routine   |-> [role |-> "routine",        scope |-> "routine",   use |-> "routine_context"],
   caregiver |-> [role |-> "care_recipient", scope |-> "caregiver", use |-> "caregiver_context"]]

(* The memories a run of the chain is given: the person's own active ones, projected. *)
ContextFor(p, surface) ==
  LET s == Surfaces[surface]
  IN  {[owner |-> item.owner, order |-> item.order, kind |-> item.kind] :
         item \in Projected([actor |-> p, role |-> s.role, owner |-> p, robot |-> p, scope |-> s.scope, use |-> s.use,
                             decides |-> TRUE, audits |-> FALSE, most |-> 3],
                            {CenterItem(m) : m \in {n \in memories : n.owner = p}})}

CostRequest(text, surface, context) ==
  TaskRequest([text EXCEPT !.items = Cardinality(context)], surface = "routine")

(* Where the chain stops a text of that cost, or none. *)
StopAt(text, cost) ==
  IF text.command = "malformed" THEN "telegram_input_blocked"
  ELSE IF CommandPolicy(text) = "BLOCK_CONSUMER" THEN "command_policy_blocked"
  ELSE IF SkillPolicy(text) = "BLOCK" THEN "skill_scope_blocked"
  ELSE IF ToolPolicy(text) = "BLOCK" THEN "tool_authority_blocked"
  ELSE IF ToolPolicy(text) = "ASK_CONFIRMATION" THEN "action_packet_required"
  ELSE IF cost = "block" THEN "cost_preflight_blocked"
  ELSE IF cost = "require_confirmation" THEN "cost_confirmation_required"
  ELSE "none"

Stop(text, surface, context) == StopAt(text, Preflight(CostRequest(text, surface, context), DefaultBudget))

(* 96P: the record of the task run. *)
TaskRunStatus(stop) ==
  CASE stop = "tool_authority_blocked" -> "BLOCKED_BEFORE_HERMES"
    [] stop = "action_packet_required" -> "WAITING_FOR_ACTION_PACKET_CONFIRMATION"
    [] stop = "none"                   -> "LOCAL_HERMES_OS_STUB_COMPLETED"
    [] OTHER                           -> "STOPPED_BEFORE_HERMES"

BeforeTools == {"telegram_input_blocked", "command_policy_blocked", "skill_scope_blocked", "preflight"}

(* The contract Hermes is run under; it cannot be made for a run that the tool policy held back. *)
Contract(stop, reached) ==
  [status   |-> TaskRunStatus(stop),
   complete |-> stop \notin BeforeTools,
   active   |-> stop \notin BeforeTools,
   raises   |-> reached /\ stop \in {"tool_authority_blocked", "action_packet_required"}]

Result(surface, stop, context) ==
  [surface |-> surface, stop |-> stop, given |-> context, reached |-> stop = "none",
   contract |-> Contract(stop, stop = "none")]

ChainedWith(text, surface, context) == Result(surface, Stop(text, surface, context), context)

Chained(p, text, surface) ==
  ChainedWith(text, surface, IF text.command = "malformed" THEN {} ELSE ContextFor(p, surface))

NotRun == [surface |-> "none", stop |-> "preflight", given |-> {}, reached |-> FALSE, contract |-> Contract("preflight", FALSE)]

NoCare == [decision |-> "none", packet |-> FALSE, ok |-> TRUE, error |-> "none", type |-> "none", relay |-> FALSE]

(* 97P: what the caregiver assistant makes of the chain's answer. *)
Cared(chain, text, pills) ==
  LET refused  == chain.stop \in {"command_policy_blocked", "skill_scope_blocked"}
      words    == IF text.command = "malformed" THEN {} ELSE text.words
      decision == CareDecision(words, refused)
      guided   == GuidedPacket({"approved"} \cup (IF pills THEN {"medication"} ELSE {}), RoutineHint(words))
  IN  [decision |-> decision,
       packet   |-> decision \in {"ESCALATION_DRAFT_REQUIRED", "SAFE_REPEAT"} \/ chain.stop = "action_packet_required",
       ok       |-> chain.reached /\ decision \notin {"REFUSE_MEDICAL_DECISION", "POLICY_BLOCKED"},
       error    |-> CASE decision = "REFUSE_MEDICAL_DECISION" -> "caregiver_medical_decision_refused"
                      [] decision = "POLICY_BLOCKED"          -> chain.stop
                      [] OTHER                                -> "none",
       type     |-> guided.type,
       relay    |-> guided.relay # NoRelay]

(* 98P: what stops a routine before the chain. *)
PreflightStop(definition) ==
  IF definition.fails THEN "failed"
  ELSE IF ~definition.approved \/ ~definition.manual THEN "blocked"
  ELSE IF ~definition.wakes THEN "skipped"
  ELSE IF ~definition.budgeted THEN "blocked"
  ELSE "none"

RoutineState_IgnoresCare(chain, care) ==
  IF chain.stop = "cost_confirmation_required" THEN "needs_confirmation"
  ELSE IF chain.stop = "action_packet_required" THEN "needs_confirmation"
  ELSE IF ~chain.reached THEN "blocked"
  ELSE "completed"

RoutineState(chain, care) ==
  IF chain.stop = "cost_confirmation_required" THEN "needs_confirmation"
  ELSE IF chain.stop = "action_packet_required" \/ care.packet THEN "needs_confirmation"
  ELSE IF ~chain.reached \/ ~care.ok THEN "blocked"
  ELSE "completed"

RoutineError(chain, care) == IF chain.stop # "none" THEN chain.stop ELSE care.error

AnOrder == 1 .. MaxMemories

ChainInit == known = {} /\ memories = {} /\ ran = {}

Room == Cardinality(ran) < MaxRan

(* She has talked to the robot elsewhere. *)
Met(p) == known' = known \cup {p} /\ UNCHANGED <<memories, ran>>

(* A memory approved for her, under an id of any place among the others. *)
MemoryKept(p, kind, order) ==
  /\ p \in known /\ Room
  /\ ~\E m \in memories : m.owner = p /\ m.order = order
  /\ memories' = memories \cup {[owner |-> p, order |-> order, kind |-> kind]}
  /\ UNCHANGED <<known, ran>>

MemoryForgotten(m) ==
  /\ Room
  /\ memories' = memories \ {m}
  /\ UNCHANGED <<known, ran>>

(* A message that can be read makes its sender known. *)
Answered(p, text, run) ==
  /\ known' = IF text.command = "malformed" THEN known ELSE known \cup {p}
  /\ ran' = ran \cup {run}
  /\ UNCHANGED memories

PolicyChainWebhook(p, text) ==
  /\ Room
  /\ Answered(p, text, [person |-> p, text |-> text, kind |-> "message", chains |-> {Chained(p, text, "owner")},
                        care |-> NoCare, state |-> "none", error |-> "none"])

CaregiverAnswered(p, text, chain, care) ==
  Answered(p, text, [person |-> p, text |-> text, kind |-> "message", chains |-> {chain}, care |-> care,
                     state |-> "none", error |-> care.error])

CaregiverWebhook(p, text) ==
  /\ Room
  /\ \E chain \in {Chained(p, text, "caregiver")} : CaregiverAnswered(p, text, chain, Cared(chain, text, FALSE))

RoutineAnswered(p, text, definition, first, chains, care) ==
  Answered(p, text, [person |-> p, text |-> text, kind |-> definition.kind, chains |-> chains, care |-> care,
                     state |-> RoutineState(first, care),
                     error |-> IF RoutineState(first, care) # "blocked" THEN "none" ELSE RoutineError(first, care)])

(* A caregiver's routine goes through the chain twice: as a routine, and again as the assistant. *)
RoutineExecuted(p, text, definition) ==
  /\ Room /\ PreflightStop(definition) = "none"
  /\ \E first \in {Chained(p, text, "routine")} :
       IF definition.kind = "caregiver"
       THEN \E again \in {Chained(p, text, "caregiver")} :
              RoutineAnswered(p, text, definition, first, {first, again}, Cared(again, text, definition.pills))
       ELSE RoutineAnswered(p, text, definition, first, {first}, NoCare)

(* NotRun before the chain: nobody is looked up. *)
RoutineStopped(p, text, definition) ==
  LET run == [person |-> p, text |-> text, kind |-> definition.kind, chains |-> {NotRun}, care |-> NoCare,
              state |-> PreflightStop(definition), error |-> "preflight"]
  IN  /\ PreflightStop(definition) # "none"
      /\ Room
      /\ ran' = ran \cup {run}
      /\ UNCHANGED <<known, memories>>

ChainNext ==
  \/ \E p \in Senders : Met(p)
  \/ \E p \in Senders, kind \in Kinds, order \in AnOrder : MemoryKept(p, kind, order)
  \/ \E m \in memories : MemoryForgotten(m)
  \/ \E p \in Senders, text \in Texts : PolicyChainWebhook(p, text) \/ CaregiverWebhook(p, text)
  \/ \E p \in Senders, text \in Texts, definition \in Definitions :
       RoutineExecuted(p, text, definition) \/ RoutineStopped(p, text, definition)

ChainSpec == ChainInit /\ [][ChainNext]_chainVars

(* Hermes is never run with what a policy forbids, with what goes out to    *)
(* others, with a refused caregiver request, past the budget unasked, or on *)
(* a model unfit for a sensitive text; its contract would raise on the      *)
(* first two (ToolRequestPacket).                                           *)
NothingPastThePolicies ==
  \A run \in ran : \A chain \in run.chains :
    chain.reached =>
      /\ ~chain.contract.raises /\ chain.contract.complete
      /\ run.text.command \notin {"malformed", "bare_approval", "operator"}
      /\ run.text.command = "approval" \/ run.text.words \cap (SkillWords \cup ToolWords \cup ExternalWords) = {}
      /\ run.care.decision \notin {"REFUSE_MEDICAL_DECISION", "POLICY_BLOCKED"}
      /\ LET request == CostRequest(run.text, chain.surface, chain.given)
             model   == Selected(request, DefaultBudget)
         IN  /\ Cost(model, request) <= DefaultBudget.confirm
             /\ InputTokens(request) + OutputTokens(request) > DefaultBudget.longAt => ~request.long
             /\ IsSensitive(request) => model.safe /\ model.tier \in {"advanced", "premium"}

(* A routine is called completed only when every run of the chain it took   *)
(* reached Hermes and nobody is left to confirm anything; a general one     *)
(* that is not completed did not reach it at all (a caregiver's may have).  *)
CompletedMeansDone ==
  \A run \in {r \in ran : r.state # "none"} :
    /\ run.state = "completed" => /\ \A chain \in run.chains : chain.reached
                                  /\ ~run.care.packet
    /\ run.state # "completed" /\ run.kind = "general" => \A chain \in run.chains : ~chain.reached
    /\ run.state \in {"failed", "skipped"} => \A chain \in run.chains : ~chain.reached /\ chain.given = {}

(* What a run is given are her own active memories at that moment, three   *)
(* at most and no credential; a boundary of hers that applies is never      *)
(* left out in favour of something else (project_memory).                   *)
BoundariesComeFirst ==
  [][\A run \in ran' \ ran : \A chain \in run.chains :
       /\ chain.given \subseteq {m \in memories : m.owner = run.person /\ m.kind # "CREDENTIAL"}
       /\ Cardinality(chain.given) <= 3
       /\ \A m \in memories :
            /\ m.owner = run.person /\ m.kind = "BOUNDARY_MEMORY" /\ m \notin chain.given
            /\ chain.surface # "none" /\ run.text.command # "malformed"
            => \A given \in chain.given : given.kind = "BOUNDARY_MEMORY"]_chainVars
=============================================================================
