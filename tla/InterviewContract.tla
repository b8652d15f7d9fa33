-------------------------- MODULE InterviewContract --------------------------
(***************************************************************************)
(* What the discovery interview promises its user, whatever she types and   *)
(* however often an update is repeated: nothing she says is kept unless she *)
(* was asked for consent first and gave it, the interview ends after three  *)
(* to seven answers, and asking again, or closing, forgets all of them.     *)
(***************************************************************************)
EXTENDS Naturals

CONSTANTS Fewest, Most   \* answers an interview is summarised on

VARIABLES phase,   \* "closed", "asking", "open" or "review"
          heard    \* answers kept

contract == <<phase, heard>>

ContractInit == phase = "closed" /\ heard = 0

Ask == phase' = "asking" /\ heard' = 0

Agree == phase = "asking" /\ phase' = "open" /\ heard' = 0

Hear == /\ phase = "open" /\ heard + 1 < Most
        /\ phase' = "open" /\ heard' = heard + 1

Conclude == /\ phase = "open"
            /\ phase' = "review" /\ heard' = heard + 1
            /\ heard' \in Fewest .. Most

Close == phase' = "closed" /\ heard' = 0

ContractNext == Ask \/ Agree \/ Hear \/ Conclude \/ Close

ContractSpec == ContractInit /\ [][ContractNext]_contract
=============================================================================
