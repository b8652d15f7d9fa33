-------------------------------- MODULE Care --------------------------------
(***************************************************************************)
(* Guided routines (69P), the relay to a human caregiver (68P) and the     *)
(* decision of the caregiver assistant (97P) on a text.  A request is the  *)
(* set of the flags raised in it, and a hint of the routine it asks for.   *)
(***************************************************************************)
EXTENDS Integers

MedicalWords   == {"dose", "treatment"}
EmergencyWords == {"fell"}
ConfusedWords  == {"lost"}
DoneWords      == {"done"}

GuidedDecision(flags, hint) ==
  IF "external" \in flags THEN "BLOCK_EXTERNAL_ACTION"
  ELSE IF "surveillance" \in flags THEN "BLOCK_SURVEILLANCE"
  ELSE IF "emergency" \in flags THEN "BLOCK_EMERGENCY"
  ELSE IF "medical" \in flags THEN "BLOCK_MEDICAL_DECISION"
  ELSE IF "medication" \in flags \/ hint = "pillbox" THEN "PREPARE_MEDICATION_ADJACENT_CHECKLIST"
  ELSE IF "caregiver" \in flags /\ "approved" \notin flags THEN "PREPARE_WITH_CAREGIVER_CONFIRMATION"
  ELSE "PREPARE_ROUTINE_PACKET"

Blocks == {"BLOCK_EXTERNAL_ACTION", "BLOCK_SURVEILLANCE", "BLOCK_EMERGENCY", "BLOCK_MEDICAL_DECISION"}

RoutineType(decision, hint) ==
  IF decision \in Blocks THEN "blocked"
  ELSE IF decision = "PREPARE_MEDICATION_ADJACENT_CHECKLIST" THEN "checklist"
  ELSE IF hint \in {"hearing_aid", "hygiene", "hydration"} THEN hint
  ELSE "custom"

(* How many steps it has; only the checklist's are the caregiver's to confirm. *)
StepsOf(type) == CASE type = "blocked" -> 0 [] type = "hearing_aid" -> 5 [] type = "custom" -> 3 [] OTHER -> 4

RelayDecision(flags) ==
  IF "external" \in flags THEN "BLOCK_EXTERNAL_ACTION"
  ELSE IF "surveillance" \in flags THEN "BLOCK_SURVEILLANCE"
  ELSE IF "medical" \in flags THEN "BLOCK_MEDICAL"
  ELSE IF "emergency" \in flags THEN "ESCALATE_TO_HUMAN_CAREGIVER"
  ELSE IF "routine" \in flags THEN "DEFER_TO_GUIDED_ROUTINE_PACKETS"
  ELSE IF "medication" \in flags THEN "ASK_CAREGIVER_CONFIRMATION"
  ELSE IF flags \cap {"sensitive", "unshared"} # {} THEN "REDACT_AND_PREPARE"
  ELSE "PREPARE_DRAFT"

RelayPacket(flags) ==
  LET decision == RelayDecision(flags)
  IN  [decision  |-> decision,
       redacted  |-> flags \cap {"sensitive", "unshared"} # {} \/ decision = "ESCALATE_TO_HUMAN_CAREGIVER",
       confirmed |-> \/ flags \cap {"medication", "sensitive", "unshared"} # {}
                     \/ decision \in {"ASK_CAREGIVER_CONFIRMATION", "REDACT_AND_PREPARE", "ESCALATE_TO_HUMAN_CAREGIVER"}]

HandedOver(flags, decision) ==
  \/ flags \cap {"medication", "sensitive", "emergency"} # {}
  \/ "caregiver" \in flags /\ "approved" \notin flags
  \/ decision = "PREPARE_MEDICATION_ADJACENT_CHECKLIST"

RelayFlags(flags, decision) ==
  (flags \cap {"caregiver", "sensitive"})
    \cup (CASE decision = "PREPARE_MEDICATION_ADJACENT_CHECKLIST" -> {"medication"}
            [] decision = "BLOCK_MEDICAL_DECISION" -> {"medical"}
            [] decision = "BLOCK_EMERGENCY"        -> {"emergency"}
            [] decision = "BLOCK_SURVEILLANCE"     -> {"surveillance"}
            [] decision = "BLOCK_EXTERNAL_ACTION"  -> {"external"}
            [] OTHER                               -> {})

NoRelay == [decision |-> "none", redacted |-> FALSE, confirmed |-> FALSE]

GuidedPacket(flags, hint) ==
  LET decision == GuidedDecision(flags, hint)
      type     == RoutineType(decision, hint)
  IN  [type      |-> type,
       steps     |-> StepsOf(type),
       confirmed |-> \/ decision \in {"PREPARE_MEDICATION_ADJACENT_CHECKLIST", "PREPARE_WITH_CAREGIVER_CONFIRMATION"}
                     \/ "sensitive" \in flags,
       relay     |-> IF HandedOver(flags, decision) THEN RelayPacket(RelayFlags(flags, decision)) ELSE NoRelay]

(* What the words of a text make of the routine. *)
RoutineHint(words) ==
  IF "water" \in words THEN "hydration"
  ELSE IF "pill" \in words THEN "pillbox"
  ELSE IF "wash" \in words THEN "hygiene"
  ELSE "hearing_aid"

CareDecision(words, refused) ==
  IF refused /\ words \cap MedicalWords # {} THEN "REFUSE_MEDICAL_DECISION"
  ELSE IF refused THEN "POLICY_BLOCKED"
  ELSE IF words \cap EmergencyWords # {} THEN "ESCALATION_DRAFT_REQUIRED"
  ELSE IF words \cap ConfusedWords # {} THEN "SAFE_REPEAT"
  ELSE IF words \cap DoneWords # {} THEN "CONFIRM_STEP"
  ELSE "GUIDE_STEP"
=============================================================================
