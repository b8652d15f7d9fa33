# Formal verification of Roboticxs

TLA+ models of the Roboticxs server, of its pilot robot and of the chains of records behind them, model-checked with TLC and,
where it matters most, proved with TLAPS for every value of the constants.

## 1. The system

Two programs share the repository, and a library of record builders that both draw on.

**The server**, `uvicorn app.main:app`. Every handler is an `async def` whose body never awaits, so the event loop finishes one
request before it takes the next; it works in one SQLAlchemy session (`src/app/db.py`) that is committed at the end or
rolled back on an exception. One request is therefore one atomic step of the models. What is hard lies *between* two
requests: an update handled twice because the answer that carried its reply was lost, a text written against a question
that has since changed, a restart with other settings, the passing of time, rows that several flows share.

It has two entrances for texts.

- `POST /api/telegram/runtime/webhook` (`telegram_runtime.py`): the owner check, then the discovery interview, then the
  memory loop, then the conversation with the model. The reply is the body of the HTTP answer.
- `POST /api/telegram/webhook` (`orchestrator.py`, `command_registry.py`, `flows/`): the control plane. A text is matched
  against the registered commands in order (budget, files, retrieval, documents, memories, ...), then against memory
  proposals, then handled as a general task.

**The pilot robot**, `app.runnable_telegram_robot_mvp`: a process that calls `getUpdates`, passes each update of the batch to
`handle_incoming_command` and answers with `sendMessage`. Its state is the polling offset, a local variable; a command reads
the workspace (Calendar, Gmail) and fixed data anew, and some are answered from a cache of recent replies.

**The stages** (modules numbered 68P to 226P in the documents). Each is a builder: a function from records to a record, kept in
a registry under an id made of what it was made of, that refuses what does not fit. A caller carries the record to the next
stage, and may call a stage again, later, with another record, or with a copy that has since been superseded. What is
hard is exactly that: ids that leave something out, copies that went stale, a transport that failed after the record
was made, an approval of something else, a revocation that a later stage does not look at.

### Inventory

| component | state | operations | what is hard | what makes it correct |
|---|---|---|---|---|
| discovery interview, `helper_discovery.py` | session row, processing-consent row, context-note rows | one handler with some 25 branches; the founder's `create_helper_context_invite` | lost answers, restarts with other settings, lazy expiry, a note replaced while it is offered | consent before storage, before OpenAI and before use of a note; no answer lost; nothing used after the deadline |
| memory loop, `telegram_runtime.py`, `memory_service.py`, `memory_control.py`, `flows/memory_flow.py` | `ProposedMemory` and `MemoryItem` rows, written by both entrances | propose, edit, approve, reject, forget, list | decisions without an id, texts on their way, repeated updates | one open proposal; one memory per approval, worded as approved; decisions and forgetting final |
| conversation, `conversation_history.py` | `ConversationTurn` rows | answer, replay a saved answer, clear, prune by age and count | repeated updates, several chats, ageing at the moment of use | the model sees exactly the recent turns; a repeated message gets its first answer |
| budget and usage, `budget_policy.py`, `token_usage.py` | the active `BudgetPolicy` row, `TokenUsageEvent` rows | set limit and thresholds, reset, the guard before each guarded flow | two thresholds set one at a time; refused requests are billed too | thresholds ordered; a refusal stands; no way round it |
| files, retrieval, documents, `flows/` | four tables of rows with a status | receive, forget, plan, cancel, request enablement, resolve, review | rows outlive what they refer to; the setting changes at a restart | what was forgotten, cancelled or resolved stays so |
| polling loop and commands of the pilot, `runnable_telegram_robot_mvp.py`, `fast_path_cache.py` | offset and batch; what Telegram has confirmed; saved replies | poll, handle, fail, stop, start again; 105 commands | failing calls in the middle of a batch, a handler that raises, restarts; replies served from a cache | nothing overtaken; at most one batch answered twice; a command touches what its sender may, and shows what is recent |
| action packets, `action_packet_approval.py` | an approval record that goes from call to call: versions, resume token, deadline | submit, approve, reject, cancel, expire, edit, resume | decisions out of order, repeated, late, about an older version | only what the named reviewer approved in time is resumed, once; nothing stopped goes on |
| policy chain, routines, caregiver, cost governor, `telegram_policy_chain.py`, `cost_governor.py`, `memory_center_projection.py`, `routine_execution_engine.py` | none between two runs of the chain | command, skill, tool, memory and cost verdicts in order; hand over to Hermes; a routine of several steps | order of the verdicts; a context that is too large; a step that fails among others | nothing reaches Hermes past a verdict; boundaries shown first; "completed" means that all of it is done |
| asynchronous delegation (102P–106P) | authority records, inbox, deliveries, answers | open, bind an approval, register, cancel, expire; receive an event; deliver; answer | approvals of other tasks, events late and repeated, a binding switched, a transport that fails | a handle has grounds of its own; a result is sent once and answered as sent |
| follow-up chain (107P–115P) | one registry per stage | intent, plan, choices, selection, delegation, execution, routing, answer, memory proposal | stale copies, executions repeated, results repeated | one choice, one result, nothing proposed that was not asked for step by step |
| proactive chain (118P–123P) | one registry per stage | grant, scan, detect, suggest, send, adapt, register, withdraw, execute | batches that break off, sends that fail, withdrawn delegations | only what the owner gave to scan, nothing sensitive, once; a delegation along his own steps |
| memory center and store (99P, 116P, 117P, 136P, 165P, 173P, 187P, 209P) | cards, decisions, writebacks, items, receipts | show, decide, write back; add, edit, forget, pin; review | a decision under the identity of another; what was forgotten is added or proposed again | written as decided; nothing forgotten comes back by repetition |
| suggestions, drafts, export (147P, 170P–185P, 194P, 195P, 208P) | receipts in the order they came | rank, decide, draft, revise, confirm, export, create in Gmail | every stage computed anew; titles change under one id | what leaves names an approval, and is what that approved |
| connectors and preparation (133P–145P, 164P) | the workspace token; what is on the screen | refresh, read calendar and mail, suggest, ask for a brief, prepare, propose a memory | a refresh that fails half way; the calendar moves on under the screen | the connection is not lost by a failure; prepared only while the calendar holds it |
| pilot ledgers (169P, 203P–207P, 218P–226P) | captures in order | capture; report, learn, decide whether the pilot may be charged for | captures of other users, resolutions, thresholds | no charge over harm |
| daily brief (124P) and demos (125P–128P) | records with their time; briefs; packs | record, ask for a window; run a demo | the same id for another request; clocks; counts of an older brief | a brief tells what its window holds; a demo shows its own |
| conversation continuity, reply wording, command-line tools | none | text and reports | – | not modelled, section 6 |

`PROJECT.json` lists the components with their files, and the hazards at their lines.

## 2. Modules

| module | models | correspondence |
|---|---|---|
| `HelperDiscovery` | `handle_helper_discovery` | one action per branch, guards in the order of the code's tests; the three row types are variables; a restart is a change of the settings |
| `InterviewContract` | – | the interview's promise to its user: asked, agreed, three to seven answers, closed |
| `HelperDelivery` | the interview together with its user | extends `HelperDiscovery` with what the helper has read, Telegram's queue, and lost answers |
| `MemoryLoop` | both memory handlers on the same tables | the patterns of a text are its kind (`says`), the message it replies to an id (`replyTo`) |
| `MemoryContract` | – | the memory loop's promise: one open offer, kept as worded, answered once |
| `MemoryDelivery` | the memory loop together with its user | extends `MemoryLoop` with screens, queue and lost answers |
| `ConversationHistory` | the conversation loop and its store, with Telegram posting again | turns as a set of rows with their time, in the order of their answers; what the model answers is a fresh number |
| `ControlPlane` | the control plane past its memory flows | one action per flow; money in whole micro-dollars |
| `ActionPackets` | `action_packet_approval.py` | one action per function and branch; the record is the variables; a decision brings its own time |
| `PilotPolling` | `main`, `run_polling_loop`, `run_polling_once` | Telegram's side is the inbox and the first id not confirmed |
| `RobotCommands` | `handle_incoming_command`, `fast_path_cache.py` | a command is what it touches and shows; one action from its arrival to its reply |
| `CostGovernor`, `MemoryProjection`, `Care` | the cost decision, what a request sees of the memories, the routine and caregiver decisions | functions: a text is the words the code looks for, its length and its items |
| `PolicyChain` | `telegram_policy_chain.py` and the handlers on it | one action per handler: a run of the chain with all its stages |
| `Registries` | – | what storing under an id does |
| `DelegationAuthority` | authority record, inbox, surface and delivery as values | one operator per function of stages 102P to 105P |
| `AsyncResults` | stages 102P–106P over the tasks of the assistant | one action per call; time, transport and binding are the environment |
| `FollowUp` | stages 107P–115P | one action per stage; a stage takes any copy that is out |
| `Proactive` | stages 118P–123P | one action per stage; records identified with what their ids are made of |
| `MemoryCenter` | stages 116P, 117P, 136P, 165P, 173P, 187P, 209P | proposal, decision and writeback are registries; the store is a function of ids, made of the source (himself, a message or an event) and the first content; `asked` is history |
| `Drafts` | stages 147P, 170P–172P, 177P–179P, 185P, 194P, 195P, 208P | a stage is computed anew from receipts in sequence; the queue of drafts keeps the positions of the decisions it is made of, and "the first named so" is the least position |
| `Meetings` | stages 133P, 137P–141P, 144P, 145P, 164P and the workspace token | a command reads agenda and token anew; a scan takes the candidates by their places in the calendar; the screen keeps what it showed |
| `PilotLedgers` | stages 169P, 203P–207P, 218P–226P | captures as sequences; reports and the gate as functions of them, which count the places of the pilot's own entries |
| `DailyBrief` | stage 124P | records with their time, briefs under their window |
| `DemoFlows` | stages 125P–128P | a run is one action through all its stages; what each key leaves out is what runs share |
| `HelperDiscoveryProofs` | – | the theorems about `HelperDiscovery` and `HelperDelivery` |
| `LoopProofs` | – | those about `MemoryLoop`, `MemoryDelivery`, `PilotPolling` and their part of `MCLoops` |
| `PlaneProofs` | – | those about `ControlPlane` and `ActionPackets` |
| `PolicyChainProofs` | – | those about `PolicyChain`, with `Care`, `CostGovernor` and `MemoryProjection` |
| `DelegationProofs` | – | those about `DelegationAuthority`, `AsyncResults` and `FollowUp` |
| `ScanProofs` | – | those about `Proactive`, `MemoryCenter` and the types of `MCDelegations` |
| `RecordsProofs` | – | those about `RobotCommands`, `DailyBrief`, `DemoFlows`, `Meetings`, `PilotLedgers` and `Drafts`, and the types of `MCRecords` |
| `ConversationProofs` | – | those about `ConversationHistory`, alone and in `MCLoops` |
| `MCLoops`, `MCPolicies`, `MCDelegations`, `MCRecords` | – | for TLC: several modules that share no state, one of which moves in a behaviour |

The operators named `X_Something` next to an operator `X` are variants of `X` with one plausible mistake. They are used in no
specification; each shows that a property would notice the mistake (`mutants` in `PROJECT.json`).

How the modules meet. The discovery interview writes a profile proposal into the tables of the memory loop (there the
action `FlowProposal`); the conversation gets only the texts the memory loop leaves alone (there the kind `memory`); the
control plane's `Work` stands for any flow the budget lets pass, the memory flows among them (in `MemoryLoop` a flow the
budget blocks is `FlowReplyOnly`). `HelperDelivery`, `MemoryDelivery` and `ConversationHistory` compose a handler with Telegram
and with a user who reads and writes. `DelegationAuthority` is one text run by three chains: for a task (`AsyncResults`), a
follow-up (`FollowUp`), a suggestion (`Proactive`). `PolicyChain` is built from `CostGovernor`, `MemoryProjection` and `Care`. The
answer that `AsyncResults` records is the request `FollowUp` begins with; the proposal `FollowUp` ends with is what
`MemoryCenter` decides about. Both are handed over by a caller, and each chain starts here from any record its caller may hold.

## 3. Runs

| run | question | result |
|---|---|---|
| `helper_discovery` | Any text at any time: do answers match the steps, is nothing used past its deadline, and does the handler keep `InterviewContract`? | yes |
| `helper_delivery` | Seen by the helper: does anything happen she did not agree to? Is an overdue interview wiped? | not unless an answer is lost or settings change; yes |
| `helper_restart` | May a restart with other settings change what a consent meant? | **yes**, a finding |
| `helper_consent_redelivery` | May a repeated first message count as consent? | **yes**, a finding |
| `loops` | Memory: do both handlers keep `MemoryContract`, does each decision of a user who waits fall on what she was shown, and is it taken in the end, whatever is lost? Conversation: is the model given exactly the retained session, and is a message posted again answered alike? Polling: is a command left behind, answered more often than a batch can explain, or never? | kept; yes; yes; no |
| `memory_crossing` | And if she does not wait? | **no**, a finding |
| `conversation_replay` | And with two chats? | **no**, a finding |
| `plane_and_packets` | Can the budget be got round, a decided record be decided again, a packet be resumed that was not approved as it is, in time, by the one who may? Does a text pass a policy that stops it, is a boundary left out for a preference, or a routine called done that is not? | no |
| `packet_editing` | Does a packet blocked for missing evidence stay so? | **not** when it is edited, a finding |
| `pilot_raising` | Is every command answered? | **not** after one that raises, a finding |
| `delegations` | Along 102P to 123P, with approvals of other tasks, events repeated and late, bindings switched, transports that fail, stale copies and withdrawals: does anything get a handle, a result, a follow-up, a delegation or a memory without the owner's own steps for exactly that? Does a request made again bring back what was forgotten? | no |
| `records` | Does anything leave but what the receipt named approved, the connection lost by a failure, a meeting prepared that the calendar no longer holds, the pilot charged for over harm, a brief or a demo told from what is not its own? | no |

### The findings

1. *A consent answered under other settings* (`helper_restart`). The gate that asks for processing consent covers only
   interviews that are active or paused. One that waits for a consent when OpenAI is switched on goes straight to OpenAI.
2. *A repeated first message is consent* (`helper_consent_redelivery`). No `update_id` is recorded, so "comenzar" handled a
   second time answers the question its first handling asked.
3. *A plain approval takes whatever is pending* (`memory_crossing`). The proposal document wants an explicit approval of
   what the user sees; a proposal or edit still on its way changes what that is.
4. *Answers of another chat* (`conversation_replay`). Saved turns are looked up by message id without the chat; the owner may
   write in a group too, which numbers its messages on its own.
5. *Editing frees a blocked packet* (`packet_editing`). A packet that lacks its policy trace is blocked at its creation. An edit is
   accepted in every state and proposes a new version without asking for the evidence again; that version can be approved
   and resumed. The document lists an edit only for packets that await approval.
6. *A command that raises blocks the pilot* (`pilot_raising`). Nothing catches the exception, the update stays unconfirmed,
   and every later process begins with it.

Seen while modelling, in the models as the code has it, and without a run of its own:

- *Delegation*. A blocked step overwrites a terminal state: a completed task that is cancelled late reads "blocked", and a new
  result is accepted for it (`async_delegation_authority.py:892` and `:827`, against
  `docs/reference/HERMES_ASYNC_DELEGATION_AUTHORITY_ADAPTER_102P_v0_1.md:380`).
- *Follow-up*. The fields by which the planner would offer to inspect a failure or compare versions are in no lineage, so
  neither is ever offered. The memory proposal judges the whole message, task name included, so that any acknowledged
  result is of "task" kind. None of the intents of the proactive chain is one the planner plans.
- *Daily brief*. It says that nothing is new although a suggestion was sent in its window, for suggestions count towards no
  summary line. A demo that reuses the day's brief is told as part of a brief that was made before it.
- *Demos*. A second document demo of an owner on another day is refused, for the packs are looked up by owner alone. A
  fixture id with a new title is answered with the old flow.
- *Pilot ledgers*. The command that shows the gate passes it no activations, so it never says READY; the weekly report never
  counts a resolved issue; `/pilot_provision 0` and an `/inbox_done` without id raise, which is finding 6 again. Each
  `/export_email` creates another Gmail draft.
- *Memory store*. To add a note again, or approve a candidate again, that was forgotten or edited since finds the old item and
  changes nothing, yet the reply says that the memory "is active" or "is now active" (`memory_store.py:197`, `:153`). The same text
  proposed from another message has another id, so approving it brings a forgotten text into use again: `NoReturnByRepetition`
  counts that as a new request of the owner.
- *Drafts*. An approval is not taken back: after a rejection, an edit or an expiry of the same draft the receipt of the earlier
  approval still exports it, for export and Gmail look only at the receipt named (`approved_gmail_draft_creation.py:162`). The id of a
  decision leaves the title out, so a suggestion decided again under a new title goes out under its first one.
- *Cache*. A saved reply dated in the future counts as fresh.
- *Server*. A note accepted for local processing can go to OpenAI if the interview is begun again from the processing
  question; an answer handled twice is recorded twice, and the interview ends one answer early; the text "rechazar" sent as
  the reply to an edit question becomes the new wording; clearing a conversation deletes the turns of all chats; overdue
  answers stay stored until the helper writes again; a refused request is billed, and a refusal leaves the proposal it
  answered pending; a forgotten file keeps its retrieval attempts. The pilot's `--once` leaves its last batch unconfirmed.

### Bounds, and why they are enough

- `helper_discovery`: a time to live of two ticks and a clock of two, so that a text can arrive before, at and after a
  deadline; two notes, the least for one to replace, outlive or follow another; one restart, that changes both settings at
  will. The number of answers is the code's own three and seven.
- `helper_delivery`: one text on its way, one lost answer, one restart, one note, one tick. With a time to live of one tick an
  interview may expire and a new one begin within the bounds. The conditions `lost = 0` and `Undisturbed` are met by a
  large part of the states, and the runs with findings show what happens without them.
- `loops`: three proposals and three memories, so that one is decided, one expired and one open; two wordings, a fact and
  the words of a command. The part with a user has two of each, for her screen and the queue come on top, one text on its
  way and two lost answers; `memory_crossing` needs two texts on their way. Conversation: five messages and a memory of two
  turns, so that turns fall out both by count and by age, a time to live of two in four ticks, one lost answer;
  `conversation_replay` needs two messages in each of two chats. Polling: batches of two and four updates, so that full,
  partial and empty batches occur, and two failing calls.
- `plane_and_packets`: two costs, a limit below and one above the default, percentages on both sides of the default
  thresholds, spend until the larger limit is nearly used up; two rows per table. Past the bound on spend nothing is sent:
  the action `Spent` stutters. For the packet two payloads, three versions and two times, so that a deadline is over
  before the last one. For the chain four memories against the code's own limit on what it shows, of three kinds, one of
  them never shown; the texts are those at which some verdict turns.
- `delegations`: one task with two events of it and two deliveries, so that a result can be repeated, late or of another status;
  two selections, one follow-up and two attempts of it, so that a second attempt can overtake the first; two sources, of
  which one is sensitive, two chats, two sends and one that fails; two cards and two decisions about three proposals, one
  of which no memory is recommended for; two contents for the store, from the owner and from two messages, so that a text
  that was forgotten can be asked for again and from elsewhere. The registration, execution and delivery of one record never look at another
  record of the same stage, which is why one task and one follow-up show what a second would.
- `records`: two readings of the signals, two decisions about one draft and one export; three calendars, so that a meeting can
  move and disappear under the screen, three commands and a token that lives two seconds and is renewed one before; five captures against the
  thresholds of two days and two users; one saved reply that outlives its time; three records in windows that
  overlap; two demos on different days, for different owners or of different fixtures.

Where ids or records are used up a run ends, hence `CHECK_DEADLOCK FALSE` there; nothing in the repository promises that a chain
goes on.

### Fairness

- `WF(Deliver)` in `HelperDelivery`, and for the user of `MemoryDelivery` in `MCLoops`: Telegram posts an update again until it is
  answered. Losing an answer is never fair, and is bounded.
- `WF(Poll)`, `WF(HandleUpdate)`, `WF(Start)` in `PilotPolling`, and in `MCLoops` for its part: the loop does not rest, and whoever
  runs the robot starts it again when it has ended. No fairness is asked of arriving updates or of failures.
- The user, the founder, the clock, restarts, and the callers of the stages are never obliged to act.

## 4. Proofs

Every theorem is checked by `tlapm` for all values of the constants that satisfy the named assumptions (natural numbers,
positive where the settings validate it, `None` different from every id, a token that lives longer than the margin it is
renewed before, statuses that the stage of a record writes, severities the code knows). Some theorems state an invariant that
no run lists by itself any more: it is part of a stronger property that a run checks (`KeepsContract`, `TypesOK`,
`SheDecidesAsShown`), or of the inductive invariant behind another theorem. Where a theorem needs more than the code's
constants it says so: `ReadsFirst`, `OneFixturePerId` and `OneChat` are hypotheses of the theorems that use them, and each is
explained below.

- **`HelperDiscoveryProofs`**. `TypeOK` is not inductive: that the answers fit their keys depends on the step counter, and
  that data has a deadline depends on the status. `IInv == RowOK /\ NotesOK /\ RestOK /\ CallOK` says of the session row how
  step, answers, summary and deadline hang together in each status, of the notes that at most one is alive and that text
  and state agree, of the rest its types, and of the last call what it may have been. The lemma about `AnswerKey` shows that
  the next key is always fresh. From `IInv`: type correctness, the four invariants, both action properties, and that the
  handler implements `InterviewContract`.

  With the user: `PermissionsKept` and `AnswersConsented` are proved for a helper who reads an answer before she writes again
  (`ReadsFirst`, at most one text on its way). That is a hypothesis because the code offers no more: with two texts on their
  way the second answers a question she has not seen, and TLC shows both statements false. The invariant, `ReaderOK`, says
  of each status of the row which question she was asked last, on which reply she can have agreed to what the row holds,
  and what the reply on its way to her asks. It is proved once for every branch of the handler, with what each branch may
  make of the row.
- **`LoopProofs`**, memory. `Classified` shows that every step changes the two tables in one of six ways (nothing, create,
  reword, keep, refuse, forget); the proofs of the invariants then have six cases instead of twenty. `IInv` is
  `TypeOK /\ OneOpenProposal /\ OneMemoryPerApproval`. From it: the two action properties and the implementation of
  `MemoryContract`, where the refinement maps the pending row to the open offer, the active memories to what is kept, and
  all other rows to closed ids. With the user, `ShownIsDecided`: what a user who waits (`ReadsFirst` again) decides is what
  she was shown, although answers are lost and updates posted again. Its invariant relates the pending row to her screen by
  way of the text on its way: the screen shows the row as it is worded, or that text made it and the answer, posted again
  until it arrives, will show it; and a decision on its way was written in front of what it decides.
- **`LoopProofs`**, polling. `NoneOvertaken` and `OncePerLife` are not inductive: they say nothing about the batch in hand. The
  invariant adds that the batch fits what is confirmed and the offset is the next update (`BatchOK`), that everything behind
  the position is settled (`SettledOK`), and that this life's answers lie behind its offset (`LifeOK`).
- **`PlaneProofs`**, the plane. `IInv` is `TypeOK /\ ThresholdsOrdered /\ RefusalsStand`. Every step that touches the budget is
  quiet (spend may grow, the policy stays), a change of the policy (the history of refusals begins anew) or a refusal. That
  a refusal stands follows from two arithmetic facts: a threshold once reached stays reached when the spend grows, and
  when the cost does. `NoWayRound` then needs no more than that what is refused would be refused again.
- **`PlaneProofs`**, the packets. `Classified` shows that every call changes the record in one of seven ways, whatever the
  decision, and approves or resumes for the named reviewer only. `PacketIInv` adds to the four invariants that a version not
  resumed yet was never used, that its approval can only be of the payload it has, and that later versions have no past
  (`Fresh`): without the first, a second approval could give a second use.
- **`PolicyChainProofs`**. A run of the chain is a value, kept in `ran` as it was; the invariant is therefore about one run at
  the moment it is made, and nearly all of the proof is about the operators that make it. The lemmas follow the order of the
  verdicts: what a text that none of them stops cannot contain, what the governor lets pass costs, what the contract of such a
  run says, and what a routine's state says about the runs it took. `BoundariesFirst` is about `ContextFor`: the memories a run is
  given are the first of an order, and a lemma shows that an order by rank puts no boundary behind anything else.
- **`DelegationProofs`**, the tasks. That a handle has grounds depends on how the delegation came to be registered and on the
  approval it was bound to, which goes on changing. `TasksInv` says that a record awaits an approval only when its preflight
  calls for one, and that from the moment it may be registered it is grounded: by its preflight, or by an approval of its
  own request that had not run out and is not up for review any more, so that its last moment is not set anew. There is one
  lemma for each operator of `DelegationAuthority`. `DeliveriesInv` says that the transport is called by the call that makes a
  record and by no later one; an answer to what was sent once follows.
- **`DelegationProofs`**, the follow-up. A stage takes any copy of a record that is out, so the invariant cannot be about the
  latest copy: it says of each registry what a key in it implies about the registries before it, which only grow.
  `OneResult` rests on `Settled`: a delegation a result was sent of has ended, as that result says, and nothing the chain can
  still do to it leads to another; `NothingUnasked` goes back along the keys.
- **`ScanProofs`**, the proactive chain. The lineage of a delegation goes through six registries that grow at different times,
  hence a chain of invariants in which each uses that those before it only grow: `ScansOK`, `SuggestionsOK`, `SendingsOK` (a
  chat got a suggestion once exactly when its record says so), `AdaptersOK`, `RegistrationsOK`. `Frames` says what each action
  leaves alone. That withdrawn delegations stay undone needs no invariant.
- **`ScanProofs`**, the memory center. `ReviewIInv` says that a decision to be written is the only terminal one on its proposal
  and was taken on a card rendered to the owner himself, and that an item of the center came of such a decision.
  `RepetitionReturnsNothing` rests on `StoreWays`: a call changes the store in two ways only (an item under an id never asked
  for; a new content for an item in use, which may be forgotten or pinned instead), and `StoreTyped` says that the ids asked for are those
  of the store. It is about requests, not about texts: see the note on the memory store in section 3.
  `TypesHold` puts the types of the four chains together: one moves, the others stutter.
- **`RecordsProofs`**. Six components, six invariants, and the types of all of them (`TypesHold`): one moves, the others stutter.
  `AnswersOwnAndRecent`: a saved reply has a time it was made at, and what it leaves out changed no earlier than that; with the
  lifetime of a saved reply the bound on what is out of date follows.
  `BriefTellsTheWindow`: of one subject a decision comes after its proposal and a memory after its decision, with one record of
  each stage; therefore what a brief calls done it does not call pending, in whatever window the two fall. What a brief leaves
  out on purpose is named in the property, a question about a proposal (`OnlyAsked`) included.
  `DemosTold`: what each key of the demo registries leaves out is made up for by the others. Its hypothesis `OneFixturePerId` is
  what the code assumes of its fixtures, which it knows by their id; without it the finding about fixtures (section 3) is
  the counterexample.
  `WorkspaceStaysConnected`: what a refresh may do to the token file, case by case, with `MeetingsAssumption` that a fresh token
  outlives the margin.
  `OnlyTheHeldIsPrepared`: each place of a scan's answer comes from a place of the calendar as it is read by that command, so
  what is prepared is held now, although the screen may show what was held before; everything else prepares nothing.
  `HarmStaysCounted`: the gate, the tuning reports and the learning queue are functions of the ledgers, and the ledgers and
  packs only grow. The queue keeps, of the learnings with one identity, the most urgent ones: one of the first rank is never
  given up when every learning has a rank, so the invariant says of each ledger and pack that its entries have one.
  `OnlyApprovedIsExported`: a draft is computed anew from the decisions each time it is named, so the invariant is about the
  decisions and receipts themselves, which are only ever added at the end; the first decision or receipt under an id is then the
  same for good, and so is the title an approval stands for (`AskedFor`). It does not say that the approval is the last word on
  its draft, which the code does not ask. `Least` and `Greatest` (a set of numbers has one) are proved by well-founded induction over sets of positions,
  which takes no operator as parameter.

- **`ConversationProofs`**. `PromptIsRecent` says that pruning the table each time it is read loses nothing the model should have
  been given: what is left is what is recent of all that was said since the last clear. The invariant, `History`, says that rows
  leave at the old end only (what is kept is closed under "later"), and that a row not kept is out of date or has `MaxTurns`
  later ones. Neither can change back: time and the number of later turns only grow.
  `AnsweredAlike`: a message that is posted again is the head of Telegram's queue (`QueueOK`), and the turn it made is the
  newest of all until it ages (`HeadOK`, `TurnsOK`), so pruning keeps it and it is found. The hypothesis is `OneChat`. With two
  chats a turn is found by another chat's number, and the finding about saved turns (section 3) is the counterexample.

Only model-checked, and why:

- liveness (`OverdueIsWiped`, `DecisionTaken`, `AnsweredInTheEnd`): beyond the prover;
- that the operators which pick by rank and cost (`CostGovernor`, `MemoryProjection`) agree with the code's tables: that is the
  map's business, not a theorem's. Nothing is proved about the contents of texts.

## 5. Assumptions

- One request is one step (section 1). Two server processes on one database would break that; nothing in the repository
  deploys two. A stage is one step too: it calls nothing that could call it back.
- A refresh of the workspace token and its save are one step of `Meetings`. The code writes the file in place, outside the `try`
  (`google_oauth_workspace.py:322`): a process that ends during the write leaves a file that reads as no token.
- The learning queue of the pilot gate is an optional argument; `PilotLedgers` always passes it.
- One user and one active robot on the server. Every query of the code is restricted to both; `ConversationHistory` has the one
  place where a restriction is missing.
- Conversation history is switched on in `ConversationHistory`. Texts are classes: what the patterns of the code tell apart.
- An id that is a digest or a join of some fields is identified with those fields, no more and no fewer.
- Money is in whole micro-dollars, to which the code rounds; a tie in rounding a percentage to two digits counts as up.
- A record of a brief carries a time as those of the repository's tests do. The stage 116P itself stamps `created_at` with
  a local number (`decision_local_0001`, the next one `0002`), which `_parse_datetime` of the brief would refuse to read.
- Modules that share no state are explored in one run, one moving at a time: an interleaving of them would reach no state in
  which a property of one could differ.

## 6. Not modelled

- What the language model answers, the HTTP clients of OpenAI, Google and Telegram, OAuth: external. Their outcomes are choices
  where a modelled handler depends on them.
- Wording of replies, packs and reports (`reply_composer` and the renderers of the pilot's commands); checklists,
  consoles and baselines rendered from constants; voice transcription.
- Conversation continuity: an inert receipt computed from one record and read by no handler.
- `repo_understanding.py`, `research_radar.py`, `ecc_knowledge_compiler.py`, the loop command line: reports over files.
- `budget_authority`, `token_meter` and the routers beside the cost governor: arithmetic on constants without a state. The
  context bindings, the boundary gate and the skill manifest gates: a verdict over one record.
- The read-only flows of the control plane (attention, capabilities, robot folder, familiar): replies without a state.

## 7. What is left

1. The runtime as a whole: interview, memory loop and conversation over one user. One hazard waits for it: a forgotten memory
   is quoted by a retained turn. The branches are modelled apart, with what the dispatch gives each of them.
2. A composition of the chains by the ids that are handed over: an answer of `AsyncResults` into `FollowUp`, its proposal into
   `MemoryCenter`, and an approved packet of `ActionPackets` into `DelegationAuthority`, which takes any approval here.
3. Proofs: every safety invariant and action property of a passing run is a theorem now. What is left to prove is what the
   compositions of 1 and 2 will state.
