-------------------------- MODULE PolicyChainProofs --------------------------
(***************************************************************************)
(* What the policy chain lets through, for every text, every memory kept   *)
(* and any number of people.  The three statements are about single runs,  *)
(* so the proofs are about the operators a run is made of: the verdict of  *)
(* the cost governor, the stop of the chain, the projection of memories.   *)
(***************************************************************************)
EXTENDS PolicyChain, FiniteSetTheorems, WellFoundedInduction, TLAPS

-----------------------------------------------------------------------------
(* Numbers *)

Below == {p \in Nat \X Nat : p[1] < p[2]}

LEMMA BelowIsWellFounded == IsWellFoundedOn(Below, Nat)
<1>1. OpToRel(<, Nat) = Below
  BY Zenon DEF OpToRel, Below
<1> QED BY <1>1, NatLessThanWellFounded, Zenon

\* Every set of numbers that is not empty has a least one.
LEMMA Least ==
    ASSUME NEW T, T \subseteq Nat, T # {}
    PROVE  \E x \in T : \A y \in T : x <= y
<1>1. PICK x \in T : \A y \in T : ~ (<<y, x>> \in Below)
  BY WFMin, BelowIsWellFounded, Zenon
<1>2. ASSUME NEW y \in T PROVE x <= y
  <2>1. x \in Nat /\ y \in Nat /\ <<y, x>> \notin Below
    BY <1>1
  <2> QED BY <2>1 DEF Below
<1> QED BY <1>2

-----------------------------------------------------------------------------
(* The cost governor *)

CostTexts == [command : STRING, words : SUBSET STRING, chars : Nat, items : Nat]

Requests ==
    [task : TaskClasses, mode : RoutingModes, sensitive : BOOLEAN, tools : BOOLEAN, long : BOOLEAN,
     chars : Nat, output : Nat, items : Nat, expands : BOOLEAN]

LEMMA ClassOK == ASSUME NEW words, NEW routine PROVE TaskClass(words, routine) \in TaskClasses
BY DEF TaskClass, TaskClasses, TaskMinTier

LEMMA RequestOK ==
    ASSUME NEW text \in CostTexts, NEW routine
    PROVE  TaskRequest(text, routine) \in Requests
<1>1. text.chars \in Nat /\ text.items \in Nat
  BY DEF CostTexts
<1>2. RoutingMode(text.words) \in RoutingModes /\ OutputChars(text.words) \in Nat
  BY DEF RoutingMode, RoutingModes, OutputChars
<1>3. Larger(text.chars, 1) \in Nat
  BY <1>1 DEF Larger
<1> QED BY <1>1, <1>2, <1>3, ClassOK DEF TaskRequest, Requests

LEMMA TokensOK ==
    ASSUME NEW request \in Requests
    PROVE  InputTokens(request) \in Nat /\ OutputTokens(request) \in Nat
<1>1. request.chars \in Nat /\ request.output \in Nat /\ request.items \in Nat /\ request.task \in TaskClasses
  BY DEF Requests
<1>2. OutputFloor[request.task] \in Nat
  BY <1>1 DEF OutputFloor, TaskClasses, TaskMinTier
<1> QED BY <1>1, <1>2 DEF InputTokens, OutputTokens, Larger, CeilDiv

\* Every entry of the catalogue has a price, a rank and a tier.
LEMMA CatalogOK ==
    ASSUME NEW model \in Catalog
    PROVE  model.in \in Nat /\ model.out \in Nat /\ model.rank \in Nat /\ model.tier \in DOMAIN Tier
BY DEF Catalog, Tier

LEMMA CostOK ==
    ASSUME NEW request \in Requests, NEW model \in Catalog
    PROVE  Cost(model, request) \in Nat
<1>1. InputTokens(request) \in Nat /\ OutputTokens(request) \in Nat /\ model.in \in Nat /\ model.out \in Nat
  BY TokensOK, CatalogOK
<1>2. \A i, o, a, b \in Nat : (i * a + o * b + 5) \div 10 \in Nat
  <2> TAKE i, o, a, b \in Nat
  <2>1. i * a \in Nat /\ o * b \in Nat
    OBVIOUS
  <2> DEFINE n == i * a + o * b + 5
  <2>2. n \in Nat
    BY <2>1
  <2> HIDE DEF n
  <2>3. n \div 10 \in Nat
    BY <2>2
  <2> QED BY <2>3 DEF n
<1> QED BY <1>1, <1>2 DEF Cost

\* There is a cheapest model, whatever models are left.
LEMMA CheapestOK ==
    ASSUME NEW request \in Requests, NEW models \in SUBSET Catalog, models # {}
    PROVE  Cheapest(models, request) \in models
<1> DEFINE costs == {Cost(m, request) : m \in models}
<1>1. costs \subseteq Nat /\ costs # {}
  BY CostOK
<1>2. PICK c \in costs : \A d \in costs : c <= d
  <2> HIDE DEF costs
  <2> QED BY <1>1, Least
<1> DEFINE ranks == {m.rank : m \in {n \in models : Cost(n, request) = c}}
<1>3. ranks \subseteq Nat /\ ranks # {}
  BY <1>2, CatalogOK
<1>4. PICK r \in ranks : \A s \in ranks : r <= s
  <2> HIDE DEF ranks
  <2> QED BY <1>3, Least
<1>5. PICK m \in models : Cost(m, request) = c /\ m.rank = r
  BY <1>4
<1>6. \A n \in models : \/ Cost(m, request) < Cost(n, request)
                        \/ Cost(m, request) = Cost(n, request) /\ m.rank <= n.rank
  <2> TAKE n \in models
  <2>1. Cost(n, request) \in Nat /\ c \in Nat /\ c <= Cost(n, request)
    BY <1>1, <1>2, CostOK
  <2>2. Cost(n, request) = c => r <= n.rank
    BY <1>4
  <2> QED BY <1>5, <2>1, <2>2
<1> QED BY <1>6 DEF Cheapest

LEMMA TierOK == ASSUME NEW tier \in DOMAIN Tier PROVE Tier[tier] \in 1 .. 4
BY DEF Tier

\* The lowest and the strongest tier there is.
LEMMA TiersOK ==
    ASSUME NEW models \in SUBSET Catalog, models # {}
    PROVE  /\ \E m \in models : \A n \in models : Tier[m.tier] <= Tier[n.tier]
           /\ \E m \in models : \A n \in models : Tier[m.tier] >= Tier[n.tier]
<1>0. \A m \in models : Tier[m.tier] \in 1 .. 4
  BY CatalogOK, TierOK
<1> DEFINE low  == {Tier[m.tier] : m \in models}
           high == {4 - Tier[m.tier] : m \in models}
<1>1. low \subseteq Nat /\ low # {} /\ high \subseteq Nat /\ high # {}
  BY <1>0
<1>2. PICK l \in low : \A n \in low : l <= n
  <2> HIDE DEF low
  <2> QED BY <1>1, Least
<1>3. PICK h \in high : \A n \in high : h <= n
  <2> HIDE DEF high
  <2> QED BY <1>1, Least
<1>4. \E m \in models : \A n \in models : Tier[m.tier] <= Tier[n.tier]
  BY <1>2
<1>5. \E m \in models : \A n \in models : Tier[m.tier] >= Tier[n.tier]
  BY <1>0, <1>3
<1> QED BY <1>4, <1>5

\* Whatever the budget, the model selected is one that nothing rejects.
LEMMA SelectedOK ==
    ASSUME NEW request \in Requests, NEW budget, Eligible(request, budget) # {}
    PROVE  Selected(request, budget) \in Eligible(request, budget)
<1> DEFINE models == Eligible(request, budget)
           lowest == {m \in models : \A n \in models : Tier[m.tier] <= Tier[n.tier]}
           strongest == {m \in models : \A n \in models : Tier[m.tier] >= Tier[n.tier]}
           cheap == Affordable(models, request, budget)
<1>1. models \in SUBSET Catalog /\ models # {}
  BY DEF Eligible
<1>2. lowest \in SUBSET Catalog /\ lowest # {} /\ strongest \in SUBSET Catalog /\ strongest # {}
  <2> HIDE DEF models
  <2> QED BY <1>1, TiersOK
<1>3. Cheapest(models, request) \in models
  BY <1>1, CheapestOK
<1>4. Lowest(models, request) \in models /\ Strongest(models, request) \in models
  <2>1. Cheapest(lowest, request) \in lowest /\ Cheapest(strongest, request) \in strongest
    <3> HIDE DEF lowest, strongest
    <3> QED BY <1>2, CheapestOK
  <2> QED BY <2>1 DEF Lowest, Strongest
<1>5. cheap # {} => Cheapest(cheap, request) \in models
  <2>1. cheap \in SUBSET Catalog /\ cheap \subseteq models
    BY <1>1 DEF Affordable
  <2> HIDE DEF cheap
  <2> QED BY <2>1, CheapestOK
<1> QED BY <1>3, <1>4, <1>5 DEF Selected, SelectedOf

\* What the governor lets through without asking: a model fit for the task, no
\* dearer than the limit, and no long context past the limit for one.
LEMMA LetThrough ==
    ASSUME NEW request \in Requests,
           Preflight(request, DefaultBudget) \notin {"block", "require_confirmation"}
    PROVE  LET model == Selected(request, DefaultBudget)
           IN  /\ Cost(model, request) <= DefaultBudget.confirm
               /\ InputTokens(request) + OutputTokens(request) > DefaultBudget.longAt => ~request.long
               /\ IsSensitive(request) => model.safe /\ model.tier \in {"advanced", "premium"}
<1> DEFINE model == Selected(request, DefaultBudget)
<1>1. Eligible(request, DefaultBudget) # {}
      /\ ~Confirmed(model, Eligible(request, DefaultBudget), request, DefaultBudget)
  BY DEF Preflight, Verdict
<1>2. model \in Catalog /\ Adequate(model, request, DefaultBudget)
  BY <1>1, SelectedOK DEF Eligible
<1> HIDE DEF model
<1>3. Cost(model, request) \in Nat /\ DefaultBudget.confirm = 20000
  BY <1>2, CostOK DEF DefaultBudget
<1>4. Cost(model, request) <= DefaultBudget.confirm
  BY <1>1, <1>3 DEF Confirmed
<1>5. InputTokens(request) + OutputTokens(request) > DefaultBudget.longAt => ~request.long
  BY <1>1 DEF Confirmed
<1>6. ASSUME IsSensitive(request) PROVE model.safe /\ model.tier \in {"advanced", "premium"}
  <2>1. model.safe /\ Tier[model.tier] >= RequiredTier(request, DefaultBudget)
    BY <1>2, <1>6 DEF Adequate
  <2>2. RequiredTier(request, DefaultBudget) >= 3 /\ RequiredTier(request, DefaultBudget) \in Int
    <3>1. \A a, b \in Int : Larger(a, b) >= b /\ Larger(a, b) \in Int
      BY DEF Larger
    <3>2. Tier[DefaultBudget.minTier] = 3
      BY DEF Tier, DefaultBudget
    <3>3. Tier[TaskMinTier[request.task]] \in Int
      <4>1. request.task \in TaskClasses
        BY DEF Requests
      <4>2. TaskMinTier[request.task] \in DOMAIN Tier
        BY <4>1 DEF TaskMinTier, TaskClasses, Tier
      <4> QED BY <4>2, TierOK
    <3> DEFINE mode == CASE request.mode = "balanced" -> 2 [] request.mode = "byok" -> 3 [] OTHER -> 1
    <3>4. mode \in Int
      OBVIOUS
    <3>5. RequiredTier(request, DefaultBudget) = Larger(Tier[TaskMinTier[request.task]], Larger(mode, 3))
      BY <1>6, <3>2 DEF RequiredTier
    <3> HIDE DEF mode
    <3>6. Larger(mode, 3) >= 3 /\ Larger(mode, 3) \in Int
      BY <3>1, <3>4
    <3>7. Larger(Tier[TaskMinTier[request.task]], Larger(mode, 3)) >= Larger(mode, 3)
      BY <3>1, <3>3, <3>6
    <3>8. Larger(Tier[TaskMinTier[request.task]], Larger(mode, 3)) \in Int
      BY <3>1, <3>3, <3>6
    <3> QED BY <3>5, <3>6, <3>7, <3>8
  <2>3. Tier[model.tier] >= 3 /\ model.tier \in DOMAIN Tier
    BY <1>2, <2>1, <2>2, CatalogOK, TierOK
  <2>4. model.tier \in {"advanced", "premium"}
    BY <2>3 DEF Tier
  <2> QED BY <2>1, <2>4
<1> QED BY <1>4, <1>5, <1>6 DEF model

-----------------------------------------------------------------------------
(* The chain *)

\* What a run of the chain that reached Hermes rests on.
ReachedOK(text, surface, context) ==
    LET request == CostRequest(text, surface, context)
        model   == Selected(request, DefaultBudget)
    IN  /\ text.command \notin {"malformed", "bare_approval", "operator"}
        /\ text.command = "approval" \/ text.words \cap (SkillWords \cup ToolWords \cup ExternalWords) = {}
        /\ Cost(model, request) <= DefaultBudget.confirm
        /\ InputTokens(request) + OutputTokens(request) > DefaultBudget.longAt => ~request.long
        /\ IsSensitive(request) => model.safe /\ model.tier \in {"advanced", "premium"}

LEMMA NotStopped ==
    ASSUME NEW text, NEW cost, StopAt(text, cost) = "none"
    PROVE  /\ text.command \notin {"malformed", "bare_approval", "operator"}
           /\ text.command = "approval" \/ text.words \cap (SkillWords \cup ToolWords \cup ExternalWords) = {}
           /\ cost \notin {"block", "require_confirmation"}
<1>1. /\ text.command # "malformed" /\ CommandPolicy(text) # "BLOCK_CONSUMER"
      /\ SkillPolicy(text) # "BLOCK" /\ ToolPolicy(text) \notin {"BLOCK", "ASK_CONFIRMATION"}
      /\ cost \notin {"block", "require_confirmation"}
  BY DEF StopAt
<1>2. text.command \notin {"bare_approval", "operator"}
  BY <1>1 DEF CommandPolicy
<1>3. text.command # "approval" => text.words \cap SkillWords = {}
  BY <1>1 DEF SkillPolicy
<1>4. text.command # "approval" => text.words \cap ToolWords = {} /\ text.words \cap ExternalWords = {}
  BY <1>1 DEF ToolPolicy
<1> QED BY <1>1, <1>2, <1>3, <1>4

\* The request that is priced carries the memories the run is given.
LEMMA CostRequestOK ==
    ASSUME NEW text \in CostTexts, NEW surface, NEW context, IsFiniteSet(context)
    PROVE  CostRequest(text, surface, context) \in Requests
<1> DEFINE priced == [text EXCEPT !.items = Cardinality(context)]
<1>1. priced \in CostTexts
  BY FS_CardinalityType DEF CostTexts
<1> HIDE DEF priced
<1>2. TaskRequest(priced, surface = "routine") \in Requests
  BY <1>1, RequestOK
<1> QED BY <1>2 DEF CostRequest, priced

\* A chain as the webhooks make it.
ChainOK(chain, text) ==
    /\ chain.reached => ReachedOK(text, chain.surface, chain.given)
    /\ chain.reached => ~chain.contract.raises /\ chain.contract.complete
    /\ chain.reached <=> chain.stop = "none"

LEMMA ChainedOK ==
    ASSUME NEW text \in CostTexts, NEW surface, NEW context, IsFiniteSet(context)
    PROVE  ChainOK(ChainedWith(text, surface, context), text)
<1> DEFINE chain == ChainedWith(text, surface, context)
           stop  == Stop(text, surface, context)
<1>1. /\ chain.stop = stop /\ chain.reached = (stop = "none") /\ chain.surface = surface
      /\ chain.given = context /\ chain.contract = Contract(stop, stop = "none")
  BY DEF ChainedWith, Result
<1> HIDE DEF chain, stop
<1>2. ASSUME stop = "none" PROVE ReachedOK(text, surface, context)
  <2>1. CostRequest(text, surface, context) \in Requests
    BY CostRequestOK
  <2>2. /\ text.command \notin {"malformed", "bare_approval", "operator"}
        /\ text.command = "approval" \/ text.words \cap (SkillWords \cup ToolWords \cup ExternalWords) = {}
        /\ Preflight(CostRequest(text, surface, context), DefaultBudget) \notin {"block", "require_confirmation"}
    BY <1>2, NotStopped DEF stop, Stop
  <2> QED BY <2>1, <2>2, LetThrough DEF ReachedOK
<1>3. stop = "none" => ~Contract(stop, stop = "none").raises /\ Contract(stop, stop = "none").complete
  BY DEF Contract, BeforeTools
<1> QED BY <1>1, <1>2, <1>3 DEF ChainOK, chain

LEMMA StoppedOK == ASSUME NEW text PROVE ChainOK(NotRun, text) /\ ~NotRun.reached /\ NotRun.given = {}
BY DEF ChainOK, NotRun

-----------------------------------------------------------------------------
(* The memories a run is given *)

MemoriesOK ==
    /\ IsFiniteSet(memories)
    /\ \A m \in memories :
          m \in [owner : Senders, order : AnOrder, kind : Kinds]
    /\ \A m, n \in memories : m.owner = n.owner /\ m.order = n.order => m = n

Hers(p) == {m \in memories : m.owner = p}

RequestFor(p, surface) ==
    [actor |-> p, role |-> Surfaces[surface].role, owner |-> p, robot |-> p,
     scope |-> Surfaces[surface].scope, use |-> Surfaces[surface].use,
     decides |-> TRUE, audits |-> FALSE, most |-> 3]

ItemsOf(p) == {CenterItem(m) : m \in Hers(p)}

\* The fields of the item made of a memory.
LEMMA ItemOK ==
    ASSUME NEW m
    PROVE  LET item == CenterItem(m) IN
           /\ item.order = m.order /\ item.owner = m.owner /\ item.kind = m.kind /\ item.robot = m.owner
           /\ item.boundary = (m.kind = "BOUNDARY_MEMORY") /\ item.group = NoGroup
           /\ item.status = "active" /\ item.visibility = "owner_private"
           /\ item.sensitivity = (CASE m.kind = "CREDENTIAL"       -> "credential_like"
                                    [] m.kind = "MEDICAL_DECISION" -> "medical"
                                    [] m.kind = "OWNER_PRIVATE"    -> "personal"
                                    [] OTHER                       -> "ordinary")
BY DEF CenterItem

LEMMA ImageFinite ==
    ASSUME NEW S, IsFiniteSet(S), NEW f, DOMAIN f = S, f = [x \in S |-> f[x]]
    PROVE  IsFiniteSet({f[x] : x \in S})
<1> DEFINE T == {f[x] : x \in S}
<1>1. f \in Surjection(S, T)
  BY DEF Surjection
<1> QED BY <1>1, FS_Surjection

LEMMA ItemsFinite == ASSUME MemoriesOK, NEW p PROVE IsFiniteSet(ItemsOf(p))
<1>1. IsFiniteSet(Hers(p))
  BY FS_Subset DEF Hers, MemoriesOK
<1> DEFINE f == [m \in Hers(p) |-> CenterItem(m)]
<1>2. ItemsOf(p) = {f[m] : m \in Hers(p)}
  BY DEF ItemsOf
<1>3. DOMAIN f = Hers(p) /\ f = [m \in Hers(p) |-> f[m]]
  OBVIOUS
<1> HIDE DEF f
<1> QED BY <1>1, <1>2, <1>3, ImageFinite

Slim(item) == [owner |-> item.owner, order |-> item.order, kind |-> item.kind]

LEMMA ContextIs ==
    ASSUME NEW p, NEW surface
    PROVE  ContextFor(p, surface) = {Slim(item) : item \in Projected(RequestFor(p, surface), ItemsOf(p))}
BY DEF ContextFor, RequestFor, ItemsOf, Hers, Slim

LEMMA ContextFinite ==
    ASSUME MemoriesOK, NEW p, NEW surface
    PROVE  IsFiniteSet(ContextFor(p, surface))
<1> DEFINE items == Projected(RequestFor(p, surface), ItemsOf(p))
           f == [item \in items |-> Slim(item)]
<1>1. items \subseteq ItemsOf(p)
  BY DEF Projected, Candidates
<1>2. IsFiniteSet(items)
  BY <1>1, ItemsFinite, FS_Subset
<1>3. ContextFor(p, surface) = {f[item] : item \in items}
  BY ContextIs
<1>4. DOMAIN f = items /\ f = [item \in items |-> f[item]]
  OBVIOUS
<1> HIDE DEF f, items
<1> QED BY <1>2, <1>3, <1>4, ImageFinite

-----------------------------------------------------------------------------
(* Runs *)

\* What a caregiver's text is refused for stops every chain it goes through.
LEMMA RefusedEverywhere ==
    ASSUME NEW text, NEW c, NEW d, StopAt(text, c) \in {"command_policy_blocked", "skill_scope_blocked"}
    PROVE  StopAt(text, d) # "none"
BY DEF StopAt

LEMMA CaredOK ==
    ASSUME NEW chain, NEW text, NEW pills
    PROVE  LET care == Cared(chain, text, pills) IN
           /\ care.decision \in {"REFUSE_MEDICAL_DECISION", "POLICY_BLOCKED"}
                => chain.stop \in {"command_policy_blocked", "skill_scope_blocked"}
           /\ care.ok => chain.reached
<1> DEFINE care == Cared(chain, text, pills)
           refused == chain.stop \in {"command_policy_blocked", "skill_scope_blocked"}
           words == IF text.command = "malformed" THEN {} ELSE text.words
<1>1. care.decision = CareDecision(words, refused)
      /\ care.ok = (chain.reached /\ care.decision \notin {"REFUSE_MEDICAL_DECISION", "POLICY_BLOCKED"})
  BY DEF Cared
<1>2. CareDecision(words, refused) \in {"REFUSE_MEDICAL_DECISION", "POLICY_BLOCKED"} => refused
  BY DEF CareDecision
<1> QED BY <1>1, <1>2

RunOK(run) ==
    /\ \A chain \in run.chains :
          /\ ChainOK(chain, run.text)
          /\ chain.reached => run.care.decision \notin {"REFUSE_MEDICAL_DECISION", "POLICY_BLOCKED"}
    /\ run.state = "completed" => /\ \A chain \in run.chains : chain.reached
                                  /\ ~run.care.packet
    /\ run.state \notin {"none", "completed"} /\ run.kind = "general" => \A chain \in run.chains : ~chain.reached
    /\ run.state \in {"failed", "skipped"} => \A chain \in run.chains : ~chain.reached /\ chain.given = {}

Run(p, text, kind, chains, care, state, error) ==
    [person |-> p, text |-> text, kind |-> kind, chains |-> chains, care |-> care, state |-> state, error |-> error]

LEMMA RunFields ==
    ASSUME NEW p, NEW text, NEW kind, NEW chains, NEW care, NEW state, NEW error
    PROVE  LET run == Run(p, text, kind, chains, care, state, error) IN
           /\ run.person = p /\ run.text = text /\ run.kind = kind /\ run.chains = chains
           /\ run.care = care /\ run.state = state /\ run.error = error
BY DEF Run

LEMMA ChainedIs ==
    ASSUME MemoriesOK, NEW p, NEW text \in CostTexts, NEW surface
    PROVE  /\ ChainOK(Chained(p, text, surface), text)
           /\ \E cost : Chained(p, text, surface).stop = StopAt(text, cost)
           /\ Chained(p, text, surface).surface = surface
           /\ Chained(p, text, surface).given =
                 IF text.command = "malformed" THEN {} ELSE ContextFor(p, surface)
<1> DEFINE context == IF text.command = "malformed" THEN {} ELSE ContextFor(p, surface)
<1>1. IsFiniteSet(context)
  BY ContextFinite, FS_EmptySet
<1>2. Chained(p, text, surface) = ChainedWith(text, surface, context)
  BY DEF Chained
<1> HIDE DEF context
<1>3. ChainOK(ChainedWith(text, surface, context), text)
  BY <1>1, ChainedOK
<1>4. /\ ChainedWith(text, surface, context).stop = Stop(text, surface, context)
      /\ ChainedWith(text, surface, context).surface = surface
      /\ ChainedWith(text, surface, context).given = context
  BY DEF ChainedWith, Result
<1>5. \E cost : Stop(text, surface, context) = StopAt(text, cost)
  BY DEF Stop
<1> QED BY <1>2, <1>3, <1>4, <1>5 DEF context

LEMMA MessageRun ==
    ASSUME NEW p, NEW text, NEW chain, NEW care, NEW error, ChainOK(chain, text),
           care.decision \in {"REFUSE_MEDICAL_DECISION", "POLICY_BLOCKED"} => chain.stop # "none"
    PROVE  RunOK(Run(p, text, "message", {chain}, care, "none", error))
<1> DEFINE run == Run(p, text, "message", {chain}, care, "none", error)
<1>1. /\ run.text = text /\ run.kind = "message" /\ run.chains = {chain}
      /\ run.care = care /\ run.state = "none"
  BY RunFields
<1> HIDE DEF run
<1>2. chain.reached => chain.stop = "none"
  BY DEF ChainOK
<1>3. RunOK(run)
  BY <1>1, <1>2 DEF RunOK
<1> QED BY <1>3 DEF run

\* A routine that is called completed has reached Hermes every time it had to;
\* a general one that is not completed has not.
LEMMA RoutineRun ==
    ASSUME NEW p, NEW text, NEW kind, NEW first, NEW again, NEW care, NEW error,
           ChainOK(first, text), ChainOK(again, text),
           care.decision \in {"REFUSE_MEDICAL_DECISION", "POLICY_BLOCKED"}
                => first.stop # "none" /\ again.stop # "none",
           care.ok => again = first \/ again.reached,
           kind = "general" => care = NoCare /\ again = first
    PROVE  RunOK(Run(p, text, kind, {first, again}, care, RoutineState(first, care), error))
<1> DEFINE run == Run(p, text, kind, {first, again}, care, RoutineState(first, care), error)
<1>1. /\ run.text = text /\ run.kind = kind /\ run.chains = {first, again}
      /\ run.care = care /\ run.state = RoutineState(first, care)
  BY RunFields
<1> HIDE DEF run
<1>2. (first.reached => first.stop = "none") /\ (again.reached => again.stop = "none")
  BY DEF ChainOK
<1>3. RoutineState(first, care) = "completed" => first.reached /\ care.ok /\ ~care.packet
  BY DEF RoutineState
<1>4. RoutineState(first, care) \notin {"failed", "skipped"}
  BY DEF RoutineState
<1>5. ASSUME kind = "general", first.reached PROVE RoutineState(first, care) = "completed"
  <2>1. first.stop = "none" /\ ~care.packet /\ care.ok
    BY <1>2, <1>5 DEF NoCare
  <2> QED BY <1>5, <2>1 DEF RoutineState
<1>6. RunOK(run)
  BY <1>1, <1>2, <1>3, <1>4, <1>5 DEF RunOK
<1> QED BY <1>6 DEF run

LEMMA StoppedRun ==
    ASSUME NEW p, NEW text, NEW kind, NEW error, NEW state, state # "completed"
    PROVE  RunOK(Run(p, text, kind, {NotRun}, NoCare, state, error))
<1> DEFINE run == Run(p, text, kind, {NotRun}, NoCare, state, error)
<1>1. /\ run.text = text /\ run.kind = kind /\ run.chains = {NotRun} /\ run.care = NoCare /\ run.state = state
  BY RunFields
<1> HIDE DEF run
<1>2. RunOK(run)
  BY <1>1, StoppedOK DEF RunOK
<1> QED BY <1>2 DEF run

-----------------------------------------------------------------------------
(* The invariant: every run remembered rests on what it was let through on *)

ChainInv == MemoriesOK /\ \A run \in ran : RunOK(run)

\* Only the memories kept by then are needed, so a run added is all a handler has to show.
LEMMA AnsweredKeeps ==
    ASSUME ChainInv, NEW p, NEW text, NEW run, RunOK(run), Answered(p, text, run)
    PROVE  ChainInv'
<1>1. memories' = memories /\ ran' = ran \cup {run}
  BY DEF Answered
<1>2. MemoriesOK'
  BY <1>1 DEF ChainInv, MemoriesOK
<1>3. (\A r \in ran : RunOK(r))'
  <2> TAKE r \in ran'
  <2>1. CASE r \in ran
    BY <2>1 DEF ChainInv
  <2>2. CASE r = run
    BY <2>2
  <2> QED BY <1>1, <2>1, <2>2
<1> QED BY <1>2, <1>3 DEF ChainInv

LEMMA WebhookRun ==
    ASSUME ChainInv, NEW p, NEW text \in CostTexts
    PROVE  RunOK(Run(p, text, "message", {Chained(p, text, "owner")}, NoCare, "none", "none"))
<1>1. ChainOK(Chained(p, text, "owner"), text)
  BY ChainedIs DEF ChainInv
<1>2. NoCare.decision \notin {"REFUSE_MEDICAL_DECISION", "POLICY_BLOCKED"}
  BY DEF NoCare
<1> QED BY <1>1, <1>2, MessageRun

LEMMA WebhookKeeps ==
    ASSUME ChainInv, NEW p, NEW text \in CostTexts, PolicyChainWebhook(p, text)
    PROVE  ChainInv'
<1> DEFINE run == Run(p, text, "message", {Chained(p, text, "owner")}, NoCare, "none", "none")
<1>1. Answered(p, text, run)
  BY DEF PolicyChainWebhook, Run
<1>2. RunOK(run)
  BY WebhookRun
<1> HIDE DEF run
<1> QED BY <1>1, <1>2, AnsweredKeeps

\* What the assistant refuses was stopped by the chain, whatever else it went through.
LEMMA RefusedMeansStopped ==
    ASSUME ChainInv, NEW p, NEW text \in CostTexts, NEW pills, NEW surface,
           Cared(Chained(p, text, "caregiver"), text, pills).decision
             \in {"REFUSE_MEDICAL_DECISION", "POLICY_BLOCKED"}
    PROVE  Chained(p, text, surface).stop # "none"
<1>1. Chained(p, text, "caregiver").stop \in {"command_policy_blocked", "skill_scope_blocked"}
  BY CaredOK
<1>2. PICK c : Chained(p, text, "caregiver").stop = StopAt(text, c)
  BY ChainedIs DEF ChainInv
<1>3. PICK d : Chained(p, text, surface).stop = StopAt(text, d)
  BY ChainedIs DEF ChainInv
<1> QED BY <1>1, <1>2, <1>3, RefusedEverywhere

LEMMA CaregiverKeeps ==
    ASSUME ChainInv, NEW p, NEW text \in CostTexts, CaregiverWebhook(p, text)
    PROVE  ChainInv'
<1> DEFINE chain == Chained(p, text, "caregiver")
           care  == Cared(chain, text, FALSE)
           run   == Run(p, text, "message", {chain}, care, "none", care.error)
<1>1. Answered(p, text, run)
  BY DEF CaregiverWebhook, CaregiverAnswered, Run
<1>2. ChainOK(chain, text)
  BY ChainedIs DEF ChainInv
<1>3. ASSUME care.decision \in {"REFUSE_MEDICAL_DECISION", "POLICY_BLOCKED"} PROVE chain.stop # "none"
  <2> DEFINE pills == FALSE
             surface == "caregiver"
  <2>1. Cared(Chained(p, text, "caregiver"), text, pills).decision \in {"REFUSE_MEDICAL_DECISION", "POLICY_BLOCKED"}
    BY <1>3
  <2> HIDE DEF pills, surface
  <2>2. Chained(p, text, surface).stop # "none"
    BY <2>1, RefusedMeansStopped
  <2> QED BY <2>2 DEF surface
<1> HIDE DEF chain, care
<1>4. RunOK(run)
  BY <1>2, <1>3, MessageRun
<1> HIDE DEF run
<1> QED BY <1>1, <1>4, AnsweredKeeps

ErrorOf(first, care) ==
    IF RoutineState(first, care) # "blocked" THEN "none" ELSE RoutineError(first, care)

LEMMA RoutineKeeps ==
    ASSUME ChainInv, NEW p, NEW text \in CostTexts, NEW definition, RoutineExecuted(p, text, definition)
    PROVE  ChainInv'
<1> DEFINE first == Chained(p, text, "routine")
           again == Chained(p, text, "caregiver")
           care  == Cared(again, text, definition.pills)
<1>1. ChainOK(first, text) /\ ChainOK(again, text)
  BY ChainedIs DEF ChainInv
<1>2. CASE definition.kind = "caregiver"
  <2> DEFINE run == Run(p, text, definition.kind, {first, again}, care, RoutineState(first, care), ErrorOf(first, care))
  <2>1. Answered(p, text, run)
    BY <1>2 DEF RoutineExecuted, RoutineAnswered, Run, ErrorOf
  <2>2. care.decision \in {"REFUSE_MEDICAL_DECISION", "POLICY_BLOCKED"} => first.stop # "none" /\ again.stop # "none"
    BY RefusedMeansStopped
  <2>3. care.ok => again.reached
    BY CaredOK
  <2>4. definition.kind # "general"
    BY <1>2
  <2> HIDE DEF first, again, care
  <2>5. RunOK(run)
    BY <1>1, <2>2, <2>3, <2>4, RoutineRun
  <2> HIDE DEF run
  <2> QED BY <2>1, <2>5, AnsweredKeeps
<1>3. CASE definition.kind # "caregiver"
  <2> DEFINE run == Run(p, text, definition.kind, {first, first}, NoCare, RoutineState(first, NoCare), ErrorOf(first, NoCare))
  <2>1. Answered(p, text, run)
    <3>1. {first, first} = {first}
      OBVIOUS
    <3> HIDE DEF first
    <3>2. RoutineAnswered(p, text, definition, first, {first}, NoCare)
      BY <1>3 DEF RoutineExecuted, first
    <3> QED BY <3>1, <3>2 DEF RoutineAnswered, Run, ErrorOf
  <2>2. NoCare.decision \notin {"REFUSE_MEDICAL_DECISION", "POLICY_BLOCKED"}
    BY DEF NoCare
  <2> HIDE DEF first
  <2>3. RunOK(run)
    BY <1>1, <2>2, RoutineRun
  <2> HIDE DEF run
  <2> QED BY <2>1, <2>3, AnsweredKeeps
<1> QED BY <1>2, <1>3

LEMMA StoppedKeeps ==
    ASSUME ChainInv, NEW p, NEW text, NEW definition, RoutineStopped(p, text, definition)
    PROVE  ChainInv'
<1> DEFINE state == PreflightStop(definition)
           run == Run(p, text, definition.kind, {NotRun}, NoCare, state, "preflight")
<1>1. ran' = ran \cup {run} /\ memories' = memories
  BY DEF RoutineStopped, Run
<1>2. state # "completed"
  BY DEF PreflightStop
<1> HIDE DEF state
<1>3. RunOK(run)
  BY <1>2, StoppedRun
<1> HIDE DEF run
<1>4. MemoriesOK'
  BY <1>1 DEF ChainInv, MemoriesOK
<1>5. (\A r \in ran : RunOK(r))'
  BY <1>1, <1>3 DEF ChainInv
<1> QED BY <1>4, <1>5 DEF ChainInv

LEMMA MemoryKeeps ==
    ASSUME ChainInv, NEW p \in Senders, NEW kind \in Kinds, NEW order \in AnOrder, MemoryKept(p, kind, order)
    PROVE  ChainInv'
<1> DEFINE new == [owner |-> p, order |-> order, kind |-> kind]
<1>1. /\ memories' = memories \cup {new} /\ ran' = ran
      /\ ~\E m \in memories : m.owner = p /\ m.order = order
  BY DEF MemoryKept
<1>2. new \in [owner : Senders, order : AnOrder, kind : Kinds] /\ new.owner = p /\ new.order = order
  OBVIOUS
<1> HIDE DEF new
<1>3. IsFiniteSet(memories')
  BY <1>1, FS_AddElement DEF ChainInv, MemoriesOK
<1>4. MemoriesOK'
  BY <1>1, <1>2, <1>3 DEF ChainInv, MemoriesOK, AnOrder
<1> QED BY <1>1, <1>4 DEF ChainInv

LEMMA ForgottenKeeps ==
    ASSUME ChainInv, NEW m \in memories, MemoryForgotten(m)
    PROVE  ChainInv'
<1>1. memories' \subseteq memories /\ ran' = ran
  BY DEF MemoryForgotten
<1>2. IsFiniteSet(memories')
  BY <1>1, FS_Subset DEF ChainInv, MemoriesOK
<1>3. MemoriesOK'
  BY <1>1, <1>2 DEF ChainInv, MemoriesOK
<1> QED BY <1>1, <1>3 DEF ChainInv

LEMMA ChainInitOK == ChainInit => ChainInv
BY FS_EmptySet DEF ChainInit, ChainInv, MemoriesOK

LEMMA TextsOK == Texts \subseteq CostTexts
BY ChainAssumption DEF CostTexts

LEMMA ChainStepOK == ASSUME ChainInv, [ChainNext]_chainVars PROVE ChainInv'
<1>1. CASE UNCHANGED chainVars
  BY <1>1 DEF chainVars, ChainInv, MemoriesOK
<1>2. ASSUME NEW p \in Senders, Met(p) PROVE ChainInv'
  BY <1>2 DEF Met, ChainInv, MemoriesOK
<1>3. ASSUME NEW p \in Senders, NEW kind \in Kinds, NEW order \in AnOrder, MemoryKept(p, kind, order) PROVE ChainInv'
  BY <1>3, MemoryKeeps
<1>4. ASSUME NEW m \in memories, MemoryForgotten(m) PROVE ChainInv'
  BY <1>4, ForgottenKeeps
<1>5. ASSUME NEW p \in Senders, NEW text \in Texts, PolicyChainWebhook(p, text) \/ CaregiverWebhook(p, text)
      PROVE  ChainInv'
  BY <1>5, TextsOK, WebhookKeeps, CaregiverKeeps
<1>6. ASSUME NEW p \in Senders, NEW text \in Texts, NEW definition \in Definitions,
             RoutineExecuted(p, text, definition) \/ RoutineStopped(p, text, definition)
      PROVE  ChainInv'
  BY <1>6, TextsOK, RoutineKeeps, StoppedKeeps
<1> QED BY <1>1, <1>2, <1>3, <1>4, <1>5, <1>6 DEF ChainNext

LEMMA ChainInvariance == ChainSpec => []ChainInv
<1>1. ChainInv /\ [ChainNext]_chainVars => ChainInv'
  BY ChainStepOK
<1> QED BY <1>1, ChainInitOK, PTL DEF ChainSpec

\* No policy is passed: for any texts, any people and any memories, what reached
\* Hermes is nothing the command, skill and tool policies stop (telegram_policy_chain,
\* handle), nothing the assistant refused and nothing the governor would ask about.
THEOREM NothingPasses == ChainSpec => []NothingPastThePolicies
<1>1. ChainInv => NothingPastThePolicies
  <2> SUFFICES ASSUME ChainInv, NEW run \in ran, NEW chain \in run.chains, chain.reached
               PROVE  /\ ~chain.contract.raises /\ chain.contract.complete
                      /\ ReachedOK(run.text, chain.surface, chain.given)
                      /\ run.care.decision \notin {"REFUSE_MEDICAL_DECISION", "POLICY_BLOCKED"}
    BY DEF NothingPastThePolicies, ReachedOK
  <2> QED BY DEF ChainInv, RunOK, ChainOK
<1> QED BY <1>1, ChainInvariance, PTL

\* A routine is called completed only when every run of the chain it took reached
\* Hermes and nothing is left to confirm; one that failed or was skipped reached
\* nothing and was given nothing (routine_runtime, run_manual_routine).
THEOREM CompletedIsDone == ChainSpec => []CompletedMeansDone
<1>1. ChainInv => CompletedMeansDone
  BY DEF ChainInv, RunOK, CompletedMeansDone
<1> QED BY <1>1, ChainInvariance, PTL

-----------------------------------------------------------------------------
(* The first few in an order: boundaries, then by id *)

Ordered(items) ==
    /\ IsFiniteSet(items)
    /\ \A x \in items : x.order \in Int /\ x.boundary \in BOOLEAN
    /\ \A x, y \in items : x.order = y.order => x = y

BeforeIt(items, x) == {other \in items : Before(other, x)}

LEMMA RankOK ==
    ASSUME NEW items, Ordered(items), NEW x
    PROVE  IsFiniteSet(BeforeIt(items, x)) /\ Cardinality(BeforeIt(items, x)) \in Nat
<1>1. IsFiniteSet(BeforeIt(items, x))
  BY FS_Subset DEF Ordered, BeforeIt
<1> QED BY <1>1, FS_CardinalityType

\* What comes earlier has fewer before it.
LEMMA RankGrows ==
    ASSUME NEW items, Ordered(items), NEW x \in items, NEW y \in items, Before(x, y)
    PROVE  Cardinality(BeforeIt(items, x)) < Cardinality(BeforeIt(items, y))
<1>1. x \notin BeforeIt(items, x)
  BY DEF BeforeIt, Before, Ordered
<1>2. BeforeIt(items, x) \cup {x} \subseteq BeforeIt(items, y)
  BY DEF BeforeIt, Before, Ordered
<1>3. /\ IsFiniteSet(BeforeIt(items, x) \cup {x})
      /\ Cardinality(BeforeIt(items, x) \cup {x}) = Cardinality(BeforeIt(items, x)) + 1
  BY <1>1, RankOK, FS_AddElement
<1>4. Cardinality(BeforeIt(items, x) \cup {x}) <= Cardinality(BeforeIt(items, y))
  BY <1>2, RankOK, FS_Subset
<1> QED BY <1>3, <1>4, RankOK

LEMMA AtMostThree ==
    ASSUME NEW items, Ordered(items)
    PROVE  LET few == {x \in items : Cardinality(BeforeIt(items, x)) < 3}
           IN  IsFiniteSet(few) /\ Cardinality(few) <= 3
<1> DEFINE few == {x \in items : Cardinality(BeforeIt(items, x)) < 3}
           place == [x \in few |-> Cardinality(BeforeIt(items, x))]
<1>1. place \in [few -> 0 .. 2]
  BY RankOK
<1>2. \A x, y \in few : place[x] = place[y] => x = y
  <2> TAKE x, y \in few
  <2>1. x # y => Before(x, y) \/ Before(y, x)
    BY DEF Before, Ordered
  <2>2. Before(x, y) => place[x] < place[y]
    BY RankGrows
  <2>3. Before(y, x) => place[y] < place[x]
    BY RankGrows
  <2>4. place[x] \in Nat /\ place[y] \in Nat
    BY <1>1
  <2> HIDE DEF place
  <2> QED BY <2>1, <2>2, <2>3, <2>4
<1>3. place \in Injection(few, 0 .. 2)
  <2> HIDE DEF place, few
  <2> QED BY <1>1, <1>2 DEF Injection, IsInjective
<1>4. IsFiniteSet(0 .. 2) /\ Cardinality(0 .. 2) = 3
  <2>1. 0 \in Int /\ 2 \in Int
    OBVIOUS
  <2>2. IsFiniteSet(0 .. 2) /\ Cardinality(0 .. 2) = IF 0 > 2 THEN 0 ELSE 2 - 0 + 1
    BY <2>1, FS_Interval, Zenon
  <2> QED BY <2>2
<1>5. IsFiniteSet(few) /\ Cardinality(few) <= Cardinality(0 .. 2)
  <2> HIDE DEF place, few
  <2> QED BY <1>3, <1>4, FS_Injection
<1> QED BY <1>4, <1>5

\* Nothing gets in before a boundary that does not.
LEMMA BoundaryOut ==
    ASSUME NEW items, Ordered(items), NEW x \in items, NEW y \in items,
           x.boundary, ~y.boundary, Cardinality(BeforeIt(items, y)) < 3
    PROVE  Cardinality(BeforeIt(items, x)) < 3
<1>1. Before(x, y)
  BY DEF Before
<1> QED BY <1>1, RankGrows, RankOK

-----------------------------------------------------------------------------
(* What a request of the chain sees *)

ChainSurfaces == {"owner", "routine", "caregiver"}

CandidatesFor(p, surface) == Candidates(RequestFor(p, surface), ItemsOf(p))

OfTheChain(request, p) ==
    /\ request.actor = p /\ request.owner = p /\ request.robot = p
    /\ request.decides = TRUE /\ request.audits = FALSE /\ request.most = 3
    /\ \/ request.role = "owner_admin" /\ request.scope = "telegram" /\ request.use = "telegram_context"
       \/ request.role = "routine" /\ request.scope = "routine" /\ request.use = "routine_context"
       \/ request.role = "care_recipient" /\ request.scope = "caregiver" /\ request.use = "caregiver_context"

LEMMA RequestOfChain ==
    ASSUME NEW p, NEW surface \in ChainSurfaces
    PROVE  OfTheChain(RequestFor(p, surface), p)
<1>1. CASE surface = "owner"
  BY <1>1 DEF RequestFor, Surfaces, OfTheChain
<1>2. CASE surface = "routine"
  BY <1>2 DEF RequestFor, Surfaces, OfTheChain
<1>3. CASE surface = "caregiver"
  BY <1>3 DEF RequestFor, Surfaces, OfTheChain
<1> QED BY <1>1, <1>2, <1>3 DEF ChainSurfaces

LEMMA ItemsOrdered == ASSUME MemoriesOK, NEW p PROVE Ordered(ItemsOf(p))
<1>1. ASSUME NEW x \in ItemsOf(p) PROVE x.order \in Int /\ x.boundary \in BOOLEAN
  <2>1. PICK m \in Hers(p) : x = CenterItem(m)
    BY DEF ItemsOf
  <2>2. m.order \in Int
    BY DEF Hers, MemoriesOK, AnOrder
  <2> QED BY <2>1, <2>2, ItemOK
<1>2. ASSUME NEW x \in ItemsOf(p), NEW y \in ItemsOf(p), x.order = y.order PROVE x = y
  <2>1. PICK m \in Hers(p) : x = CenterItem(m)
    BY DEF ItemsOf
  <2>2. PICK n \in Hers(p) : y = CenterItem(n)
    BY DEF ItemsOf
  <2>3. m.order = n.order
    BY <1>2, <2>1, <2>2, ItemOK
  <2>4. m = n
    BY <2>3 DEF Hers, MemoriesOK
  <2> QED BY <2>1, <2>2, <2>4
<1> QED BY <1>1, <1>2, ItemsFinite DEF Ordered

LEMMA CandidatesOrdered == ASSUME MemoriesOK, NEW p, NEW surface PROVE Ordered(CandidatesFor(p, surface))
<1>1. CandidatesFor(p, surface) \subseteq ItemsOf(p)
  BY DEF CandidatesFor, Candidates
<1>2. IsFiniteSet(CandidatesFor(p, surface))
  BY <1>1, ItemsFinite, FS_Subset
<1> QED BY <1>1, <1>2, ItemsOrdered DEF Ordered

LEMMA ProjectedIs ==
    ASSUME NEW p, NEW surface \in ChainSurfaces
    PROVE  LET items == CandidatesFor(p, surface)
           IN  Projected(RequestFor(p, surface), ItemsOf(p)) = {x \in items : Cardinality(BeforeIt(items, x)) < 3}
<1> DEFINE request == RequestFor(p, surface)
<1>1. /\ request.most = 3 /\ request.audits = FALSE
      /\ request.role \in Roles /\ request.scope \in Scopes \ {"skill_specific"} /\ request.use \in Uses
  <2>1. OfTheChain(request, p)
    BY RequestOfChain
  <2> HIDE DEF request
  <2> QED BY <2>1 DEF OfTheChain, Roles, Scopes, Uses
<1> HIDE DEF request
<1>2. ~RequestRejected(request)
  BY <1>1 DEF RequestRejected
<1>3. (IF request.most > MaxItemsCap THEN MaxItemsCap ELSE request.most) = 3
  BY <1>1 DEF MaxItemsCap
<1> QED BY <1>1, <1>2, <1>3 DEF Projected, BeforeIt, CandidatesFor, request

\* A memory given is hers, and no credential.
LEMMA SlimIs ==
    ASSUME MemoriesOK, NEW p, NEW m \in Hers(p)
    PROVE  Slim(CenterItem(m)) = m
<1>1. m = [owner |-> m.owner, order |-> m.order, kind |-> m.kind]
  BY DEF Hers, MemoriesOK
<1> QED BY <1>1, ItemOK DEF Slim

LEMMA NoCredential ==
    ASSUME NEW p, NEW surface, NEW m \in Hers(p), CenterItem(m) \in CandidatesFor(p, surface)
    PROVE  m.kind # "CREDENTIAL"
<1>1. CenterItem(m).sensitivity # "credential_like"
  BY DEF CandidatesFor, Candidates, Excluded
<1> QED BY <1>1, ItemOK

\* A boundary of hers is never excluded.
LEMMA BoundaryIsCandidate ==
    ASSUME NEW p, NEW surface \in ChainSurfaces, NEW m \in Hers(p), m.kind = "BOUNDARY_MEMORY"
    PROVE  CenterItem(m) \in CandidatesFor(p, surface)
<1> DEFINE item == CenterItem(m)
           request == RequestFor(p, surface)
<1>1. item \in ItemsOf(p) /\ m.owner = p
  BY DEF ItemsOf, Hers
<1>2. /\ item.owner = p /\ item.robot = p /\ item.boundary = TRUE /\ item.sensitivity = "ordinary"
      /\ item.status = "active" /\ item.visibility = "owner_private" /\ item.group = NoGroup
  BY <1>1, ItemOK
<1>3. /\ item.scopes = {"general", "telegram", "hermes_os"} \cup {"caregiver", "routine"} \cup {}
      /\ item.uses = {"answer_personalization", "telegram_context", "hermes_os_context"}
                       \cup {"boundary_enforcement", "caregiver_context", "routine_context"} \cup {}
  BY DEF CenterItem
<1>4. OfTheChain(request, p)
  BY RequestOfChain
<1> HIDE DEF item, request
<1>5. ~ActorRefused(request, item)
  BY <1>2, <1>4 DEF ActorRefused, OwnBoundary, OfTheChain
<1>6. request.scope \in item.scopes /\ request.use \in item.uses
  BY <1>3, <1>4 DEF OfTheChain
<1>7. ~Excluded(request, item)
  BY <1>2, <1>4, <1>5, <1>6 DEF Excluded, Unusable, OfTheChain
<1>8. Summarised(request, item)
  BY <1>2 DEF Summarised
<1> QED BY <1>1, <1>2, <1>7, <1>8 DEF CandidatesFor, Candidates, item, request

\* What a run is given.
LEMMA GivenOK ==
    ASSUME MemoriesOK, NEW p, NEW surface \in ChainSurfaces
    PROVE  LET given == ContextFor(p, surface) IN
           /\ given \subseteq {m \in memories : m.owner = p /\ m.kind # "CREDENTIAL"}
           /\ Cardinality(given) <= 3
           /\ \A m \in memories : m.owner = p /\ m.kind = "BOUNDARY_MEMORY" /\ m \notin given
                => \A g \in given : g.kind = "BOUNDARY_MEMORY"
<1> DEFINE items == CandidatesFor(p, surface)
           few   == {x \in items : Cardinality(BeforeIt(items, x)) < 3}
           given == ContextFor(p, surface)
<1>1. given = {Slim(x) : x \in few}
  BY ContextIs, ProjectedIs
<1>2. Ordered(items)
  BY CandidatesOrdered
<1>3. ASSUME NEW x \in items PROVE \E m \in Hers(p) : x = CenterItem(m) /\ Slim(x) = m /\ m.kind # "CREDENTIAL"
  <2>1. PICK m \in Hers(p) : x = CenterItem(m)
    BY DEF CandidatesFor, Candidates, ItemsOf
  <2>2. Slim(x) = m
    BY <2>1, SlimIs
  <2>3. m.kind # "CREDENTIAL"
    BY <2>1, NoCredential
  <2> QED BY <2>1, <2>2, <2>3
<1>4. given \subseteq {m \in memories : m.owner = p /\ m.kind # "CREDENTIAL"}
  <2> HIDE DEF items
  <2> QED BY <1>1, <1>3 DEF Hers
<1>5. Cardinality(given) <= 3
  <2>1. IsFiniteSet(few) /\ Cardinality(few) <= 3 /\ Cardinality(few) \in Nat
    <3>1. IsFiniteSet(few) /\ Cardinality(few) <= 3
      <4> HIDE DEF items
      <4> QED BY <1>2, AtMostThree
    <3> HIDE DEF few
    <3> QED BY <3>1, FS_CardinalityType
  <2> DEFINE slim == [x \in few |-> Slim(x)]
  <2>2. slim \in Surjection(few, given)
    <3> HIDE DEF few, given
    <3> QED BY <1>1 DEF Surjection
  <2>3. IsFiniteSet(given) /\ Cardinality(given) <= Cardinality(few)
    <3> HIDE DEF few, given, slim
    <3> QED BY <2>1, <2>2, FS_Surjection
  <2>4. Cardinality(given) \in Nat
    <3> HIDE DEF given
    <3> QED BY <2>3, FS_CardinalityType
  <2> HIDE DEF few, given
  <2> QED BY <2>1, <2>3, <2>4
<1>6. ASSUME NEW m \in memories, m.owner = p, m.kind = "BOUNDARY_MEMORY", m \notin given,
             NEW g \in given, g.kind # "BOUNDARY_MEMORY"
      PROVE  FALSE
  <2>1. m \in Hers(p)
    BY <1>6 DEF Hers
  <2>2. CenterItem(m) \in items /\ CenterItem(m).boundary
    BY <2>1, <1>6, BoundaryIsCandidate, ItemOK
  <2>3. CenterItem(m) \notin few
    BY <1>1, <1>6, <2>1, SlimIs
  <2>4. PICK x \in few : g = Slim(x)
    BY <1>1, <1>6
  <2>5. x \in items /\ Cardinality(BeforeIt(items, x)) < 3
    BY <2>4
  <2>6. PICK n \in Hers(p) : x = CenterItem(n) /\ g = n
    BY <1>3, <2>4, <2>5
  <2>7. ~x.boundary
    BY <1>6, <2>6, ItemOK
  <2>8. Cardinality(BeforeIt(items, CenterItem(m))) < 3
    <3> HIDE DEF items
    <3> QED BY <1>2, <2>2, <2>5, <2>7, BoundaryOut
  <2> QED BY <2>2, <2>3, <2>8
<1> QED BY <1>4, <1>5, <1>6

-----------------------------------------------------------------------------
(* What the runs added by a step are given *)

GivenWell(chain, p, text) ==
    /\ chain.given \subseteq {m \in memories : m.owner = p /\ m.kind # "CREDENTIAL"}
    /\ Cardinality(chain.given) <= 3
    /\ \A m \in memories :
          /\ m.owner = p /\ m.kind = "BOUNDARY_MEMORY" /\ m \notin chain.given
          /\ chain.surface # "none" /\ text.command # "malformed"
          => \A given \in chain.given : given.kind = "BOUNDARY_MEMORY"

LEMMA NothingIsWell ==
    ASSUME NEW chain, NEW p, NEW text, chain.given = {}
    PROVE  GivenWell(chain, p, text)
BY FS_EmptySet DEF GivenWell

LEMMA ChainedGiven ==
    ASSUME MemoriesOK, NEW p, NEW text \in CostTexts, NEW surface \in ChainSurfaces
    PROVE  GivenWell(Chained(p, text, surface), p, text)
<1> DEFINE chain == Chained(p, text, surface)
<1>1. chain.given = IF text.command = "malformed" THEN {} ELSE ContextFor(p, surface)
  BY ChainedIs
<1> HIDE DEF chain
<1>2. CASE text.command = "malformed"
  BY <1>1, <1>2, NothingIsWell DEF chain
<1>3. CASE text.command # "malformed"
  BY <1>1, <1>3, GivenOK DEF GivenWell, chain
<1> QED BY <1>2, <1>3

StepGiven(p, text, run) ==
    /\ run.person = p /\ run.text = text
    /\ \A chain \in run.chains : GivenWell(chain, p, text)

LEMMA MadeGiven ==
    ASSUME NEW p, NEW text, NEW kind, NEW chains, NEW care, NEW state, NEW error,
           \A chain \in chains : GivenWell(chain, p, text)
    PROVE  StepGiven(p, text, Run(p, text, kind, chains, care, state, error))
BY RunFields DEF StepGiven

\* Every step adds one run at most, whose chains are given their memories then.
LEMMA StepsGive ==
    ASSUME MemoriesOK, ChainNext, NEW run \in ran' \ ran
    PROVE  \E p, text : StepGiven(p, text, run)
<1>0. ASSUME NEW p, NEW text, NEW new, Answered(p, text, new) PROVE run = new
  BY <1>0 DEF Answered
<1>1. ASSUME NEW p \in Senders, NEW text \in Texts, PolicyChainWebhook(p, text)
      PROVE  StepGiven(p, text, run)
  <2>1. run = Run(p, text, "message", {Chained(p, text, "owner")}, NoCare, "none", "none")
    BY <1>0, <1>1 DEF PolicyChainWebhook, Run
  <2>2. GivenWell(Chained(p, text, "owner"), p, text)
    BY TextsOK, ChainedGiven DEF ChainSurfaces
  <2> QED BY <2>1, <2>2, MadeGiven
<1>2. ASSUME NEW p \in Senders, NEW text \in Texts, CaregiverWebhook(p, text)
      PROVE  StepGiven(p, text, run)
  <2> DEFINE chain == Chained(p, text, "caregiver")
             care  == Cared(chain, text, FALSE)
  <2>1. run = Run(p, text, "message", {chain}, care, "none", care.error)
    BY <1>0, <1>2 DEF CaregiverWebhook, CaregiverAnswered, Run
  <2>2. GivenWell(chain, p, text)
    BY TextsOK, ChainedGiven DEF ChainSurfaces
  <2> HIDE DEF chain, care
  <2> QED BY <2>1, <2>2, MadeGiven
<1>3. ASSUME NEW p \in Senders, NEW text \in Texts, NEW definition \in Definitions, RoutineExecuted(p, text, definition)
      PROVE  StepGiven(p, text, run)
  <2> DEFINE first == Chained(p, text, "routine")
             again == Chained(p, text, "caregiver")
             care  == Cared(again, text, definition.pills)
  <2>1. GivenWell(first, p, text) /\ GivenWell(again, p, text)
    BY TextsOK, ChainedGiven DEF ChainSurfaces
  <2>2. CASE definition.kind = "caregiver"
    <3>1. Answered(p, text, Run(p, text, definition.kind, {first, again}, care,
                               RoutineState(first, care), ErrorOf(first, care)))
      BY <1>3, <2>2 DEF RoutineExecuted, RoutineAnswered, Run, ErrorOf
    <3> HIDE DEF first, again, care
    <3>2. run = Run(p, text, definition.kind, {first, again}, care, RoutineState(first, care), ErrorOf(first, care))
      BY <1>0, <3>1
    <3> QED BY <2>1, <3>2, MadeGiven
  <2>3. CASE definition.kind # "caregiver"
    <3>1. Answered(p, text, Run(p, text, definition.kind, {first}, NoCare,
                               RoutineState(first, NoCare), ErrorOf(first, NoCare)))
      BY <1>3, <2>3 DEF RoutineExecuted, RoutineAnswered, Run, ErrorOf
    <3> HIDE DEF first
    <3>2. run = Run(p, text, definition.kind, {first}, NoCare, RoutineState(first, NoCare), ErrorOf(first, NoCare))
      BY <1>0, <3>1
    <3> QED BY <2>1, <3>2, MadeGiven
  <2> QED BY <2>2, <2>3
<1>4. ASSUME NEW p \in Senders, NEW text \in Texts, NEW definition \in Definitions, RoutineStopped(p, text, definition)
      PROVE  StepGiven(p, text, run)
  <2>1. run = Run(p, text, definition.kind, {NotRun}, NoCare, PreflightStop(definition), "preflight")
    BY <1>4 DEF RoutineStopped, Run
  <2>2. GivenWell(NotRun, p, text)
    BY NothingIsWell, StoppedOK
  <2> QED BY <2>1, <2>2, MadeGiven
<1>5. ASSUME ran' = ran PROVE FALSE
  BY <1>5
<1>6. (\E p \in Senders : Met(p)) \/ (\E p \in Senders, kind \in Kinds, order \in AnOrder : MemoryKept(p, kind, order))
        \/ (\E m \in memories : MemoryForgotten(m)) => ran' = ran
  BY DEF Met, MemoryKept, MemoryForgotten
<1> QED BY <1>1, <1>2, <1>3, <1>4, <1>5, <1>6 DEF ChainNext

\* What a run of the chain is given are her own memories, three at most and no
\* credential, and a boundary of hers gives way to nothing but other boundaries
\* (project_memory): for any number of memories, of any kinds.
THEOREM BoundariesFirst == ChainSpec => BoundariesComeFirst
<1>1. ASSUME ChainInv, [ChainNext]_chainVars
      PROVE  [\A run \in ran' \ ran : \A chain \in run.chains :
                /\ chain.given \subseteq {m \in memories : m.owner = run.person /\ m.kind # "CREDENTIAL"}
                /\ Cardinality(chain.given) <= 3
                /\ \A m \in memories :
                     /\ m.owner = run.person /\ m.kind = "BOUNDARY_MEMORY" /\ m \notin chain.given
                     /\ chain.surface # "none" /\ run.text.command # "malformed"
                     => \A given \in chain.given : given.kind = "BOUNDARY_MEMORY"]_chainVars
  <2> SUFFICES ASSUME ChainNext, NEW run \in ran' \ ran, NEW chain \in run.chains
               PROVE  GivenWell(chain, run.person, run.text)
    BY <1>1 DEF GivenWell
  <2>1. PICK p, text : StepGiven(p, text, run)
    BY <1>1, StepsGive DEF ChainInv
  <2> QED BY <2>1 DEF StepGiven
<1> QED BY <1>1, ChainInvariance, PTL DEF ChainSpec, BoundariesComeFirst
=============================================================================
