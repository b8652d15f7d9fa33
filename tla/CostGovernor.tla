---------------------------- MODULE CostGovernor ----------------------------
(***************************************************************************)
(* What a task may cost (100P): a request is read off a text, its tokens   *)
(* estimated, the budget's rules applied, a model chosen from the          *)
(* catalogue, and the task allowed, downgraded, held for confirmation or   *)
(* blocked.  A text is [command, words, chars, items]: the words that the  *)
(* code looks for in it, how long it is and how many memories it carries.  *)
(* Costs are in millionths of a dollar, prices in 10^-7 dollars a token.   *)
(***************************************************************************)
EXTENDS Integers, FiniteSets

Tier == [basic |-> 1, standard |-> 2, advanced |-> 3, premium |-> 4]

TaskMinTier ==
  [simple_classification |-> "basic", extraction |-> "basic", drafting |-> "basic", research |-> "standard",
   reasoning |-> "advanced", tool_planning |-> "standard", sensitive_review |-> "advanced",
   long_context |-> "advanced", creative |-> "basic", routine |-> "standard", async_delegation |-> "standard"]

OutputFloor ==
  [simple_classification |-> 32, extraction |-> 48, drafting |-> 96, research |-> 128, reasoning |-> 192,
   tool_planning |-> 96, sensitive_review |-> 160, long_context |-> 160, creative |-> 128, routine |-> 96,
   async_delegation |-> 128]

TaskClasses == DOMAIN TaskMinTier

RoutingModes == {"economy", "balanced", "premium", "byok"}

SensitiveWords == {"medical", "legal", "financial", "caregiver", "personal", "safety"}

Larger(a, b) == IF a >= b THEN a ELSE b

CeilDiv(n, d) == (n + d - 1) \div d

RoutingMode(words) ==
  IF "byok" \in words THEN "byok"
  ELSE IF "premium" \in words THEN "premium"
  ELSE IF "economy" \in words THEN "economy"
  ELSE "balanced"

(* The first kind of task whose words are there. *)
TaskClass(words, routine) ==
  IF routine THEN "routine"
  ELSE IF "async" \in words THEN "async_delegation"
  ELSE IF "long_context" \in words THEN "long_context"
  ELSE IF "sensitive_review" \in words THEN "sensitive_review"
  ELSE IF "reason" \in words THEN "reasoning"
  ELSE IF "research" \in words THEN "research"
  ELSE IF words \cap {"plan", "workflow", "tool"} # {} THEN "tool_planning"
  ELSE IF "classify" \in words THEN "simple_classification"
  ELSE IF "extract" \in words THEN "extraction"
  ELSE IF "creative" \in words THEN "creative"
  ELSE "drafting"

OutputChars(words) ==
  IF words \cap {"research", "reason", "long_context"} # {} THEN 720
  ELSE IF words \cap {"draft", "summary", "creative"} # {} THEN 520
  ELSE 240

(* What the words say of its sensitivity; "caregiver review" is caregiver too. *)
TaskRequest(text, routine) ==
  [task      |-> TaskClass(text.words, routine),
   mode      |-> RoutingMode(text.words),
   sensitive |-> text.words \cap SensitiveWords # {},
   tools     |-> text.words \cap {"plan", "workflow", "tool", "crm", "email"} # {},
   long      |-> "long_context" \in text.words \/ text.chars > 6000,
   chars     |-> Larger(text.chars, 1),
   output    |-> OutputChars(text.words),
   items     |-> text.items,
   expands   |-> "expand" \in text.words]

InputTokens(request) ==
  LET added == IF request.long \/ request.task = "long_context" THEN 64 + 24 * request.items ELSE 0
  IN  Larger(CeilDiv(request.chars, 4), 1) + (IF added > 512 THEN 512 ELSE added)

OutputTokens(request) == Larger(CeilDiv(request.output, 4), OutputFloor[request.task])

(* The budget the policy chain uses. *)
DefaultBudget ==
  [modes |-> RoutingModes, tasks |-> TaskClasses, byok |-> FALSE, async |-> FALSE, freePremium |-> FALSE,
   max |-> 80000, confirm |-> 20000, maxIn |-> 4000, maxOut |-> 1800, longAt |-> 2400, minTier |-> "advanced"]

(* The catalogue, in the order its entries are tried. *)
Catalog ==
  LET model(id, modes, tasks, context, tier, safe, tools, long, in, out, rank) ==
        [id |-> id, modes |-> modes, tasks |-> tasks, context |-> context, tier |-> tier, safe |-> safe,
         tools |-> tools, long |-> long, in |-> in, out |-> out, rank |-> rank]
      simple == {"simple_classification", "extraction", "drafting", "creative", "routine"}
  IN  {model("economy_basic", {"economy", "balanced"}, simple, 3200, "basic", FALSE, FALSE, FALSE, 5, 8, 10),
       model("balanced_standard", {"economy", "balanced", "premium"}, TaskClasses \ {"long_context"}, 6000, "standard",
             TRUE, TRUE, FALSE, 11, 16, 20),
       model("advanced_reasoning", {"balanced", "premium"}, TaskClasses, 12000, "advanced", TRUE, TRUE, TRUE, 22, 31, 30),
       model("premium_strong", {"premium"}, TaskClasses, 16000, "premium", TRUE, TRUE, TRUE, 45, 65, 40),
       model("byok_placeholder", {"byok"}, TaskClasses, 12000, "advanced", TRUE, TRUE, TRUE, 30, 40, 50)}

Cost(model, request) == (InputTokens(request) * model.in + OutputTokens(request) * model.out + 5) \div 10

IsSensitive(request) == request.task = "sensitive_review" \/ request.sensitive

RequiredTier(request, budget) ==
  LET mode == CASE request.mode = "balanced" -> 2 [] request.mode = "byok" -> 3 [] OTHER -> 1
      care == IF IsSensitive(request) THEN Tier[budget.minTier] ELSE 1
  IN  Larger(Tier[TaskMinTier[request.task]], Larger(mode, care))

(* An entry of the catalogue that nothing rejects. *)
Adequate(model, request, budget) ==
  /\ request.mode \in model.modes /\ request.task \in model.tasks
  /\ InputTokens(request) + OutputTokens(request) <= model.context
  /\ request.long => model.long
  /\ request.tools => model.tools
  /\ Tier[model.tier] >= RequiredTier(request, budget)
  /\ IsSensitive(request) => model.safe

Eligible(request, budget) == {model \in Catalog : Adequate(model, request, budget)}

Cheapest(models, request) ==
  CHOOSE m \in models : \A n \in models :
    \/ Cost(m, request) < Cost(n, request)
    \/ Cost(m, request) = Cost(n, request) /\ m.rank <= n.rank

(* By tier first, the lowest or the highest, then the cheapest. *)
Lowest(models, request) ==
  Cheapest({m \in models : \A n \in models : Tier[m.tier] <= Tier[n.tier]}, request)

Strongest(models, request) ==
  Cheapest({m \in models : \A n \in models : Tier[m.tier] >= Tier[n.tier]}, request)

Affordable(models, request, budget) == {m \in models : Cost(m, request) <= budget.confirm}

(* A premium task goes to the strongest model, or without asking to the cheapest that needs no confirmation. *)
SelectedOf(models, request, budget) ==
  LET cheap == Affordable(models, request, budget)
  IN  IF request.mode \in {"economy", "byok"} THEN Cheapest(models, request)
      ELSE IF request.mode = "balanced" THEN Lowest(models, request)
      ELSE IF budget.freePremium \/ cheap = {} THEN Strongest(models, request)
      ELSE Cheapest(cheap, request)

Selected(request, budget) == SelectedOf(Eligible(request, budget), request, budget)

(* Another than the strongest, though premium was asked for. *)
Downgraded(model, models, request, budget) ==
  /\ request.mode = "premium" /\ ~budget.freePremium
  /\ model # Strongest(models, request)

(* What is refused before any model is looked at. *)
RefusedOutright(request, budget) ==
  \/ request.expands
  \/ request.task \notin budget.tasks \/ request.mode \notin budget.modes
  \/ request.mode = "byok" /\ ~budget.byok
  \/ request.task = "async_delegation" /\ ~budget.async
  \/ InputTokens(request) > budget.maxIn \/ OutputTokens(request) > budget.maxOut

(* What is held until the owner confirms it. *)
Confirmed(model, models, request, budget) ==
  \/ request.long /\ InputTokens(request) + OutputTokens(request) > budget.longAt
  \/ request.mode = "premium" /\ ~budget.freePremium /\ ~Downgraded(model, models, request, budget)
  \/ Cost(model, request) > budget.confirm
  \/ request.task = "async_delegation"

Verdict(model, models, request, budget) ==
  IF RefusedOutright(request, budget) \/ models = {} \/ Cost(model, request) > budget.max THEN "block"
  ELSE IF Confirmed(model, models, request, budget) THEN "require_confirmation"
  ELSE IF Downgraded(model, models, request, budget) THEN "downgrade"
  ELSE "allow"

Preflight(request, budget) ==
  Verdict(Selected(request, budget), Eligible(request, budget), request, budget)
=============================================================================
