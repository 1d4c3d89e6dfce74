------------------------ MODULE ConversationStateMachine ------------------------
(***************************************************************************)
(* The funnel of a sales conversation as a function                        *)
(* (app/services/conversation_state_machine.py): from the current state,   *)
(* whether the intent of the message is known, whether the message is      *)
(* empty, the flags set in the collected data and the states before, the   *)
(* next state.                                                             *)
(***************************************************************************)
EXTENDS Naturals, Sequences

States == {"start", "qualification", "clarification", "offer",
           "objection_handling", "closing", "completed", "fallback"}

Flags == {"qualification_complete", "needs_clarification",
          "clarification_complete", "objection_raised", "accept_offer",
          "objection_resolved", "deal_finalized"}

AllowedTransitions ==
    [s \in States |->
        CASE s = "start"              -> {"qualification", "fallback"}
          [] s = "qualification"      -> {s, "clarification", "offer", "fallback"}
          [] s = "clarification"      -> {s, "offer", "fallback"}
          [] s = "offer"              -> {s, "objection_handling", "closing", "fallback"}
          [] s = "objection_handling" -> {s, "closing", "fallback"}
          [] s = "closing"            -> {s, "completed", "fallback"}
          [] s = "fallback"           -> {s, "qualification"}
          [] s = "completed"          -> {s}]

\* Where the flags take a conversation whose intent is known.
Progress(s, flags) ==
    CASE s \in {"start", "fallback"} -> "qualification"
      [] s = "qualification" ->
            IF "needs_clarification" \in flags THEN "clarification"
            ELSE IF "qualification_complete" \in flags THEN "offer" ELSE s
      [] s = "clarification" ->
            IF {"clarification_complete", "qualification_complete"} \cap flags # {}
            THEN "offer" ELSE s
      [] s = "offer" ->
            IF "objection_raised" \in flags THEN "objection_handling"
            ELSE IF "accept_offer" \in flags THEN "closing" ELSE s
      [] s = "objection_handling" -> IF "objection_resolved" \in flags THEN "closing" ELSE s
      [] s = "closing" -> IF "deal_finalized" \in flags THEN "completed" ELSE s
      [] s = "completed" -> s

\* An unknown intent sends the states that gather answers to the fallback.
FallsBack(s, known, flags) ==
    /\ ~ known
    /\ \/ s \in {"start", "qualification", "clarification", "fallback"}
       \/ s = "objection_handling" /\ "objection_resolved" \notin flags

\* An empty message moves none of these.
Holding == {"qualification", "clarification", "offer", "objection_handling", "closing"}

ComputeCandidate(s, known, empty, flags) ==
    IF empty /\ s \in Holding THEN s
    ELSE IF FallsBack(s, known, flags) THEN "fallback"
    ELSE Progress(s, flags)

\* The last two states, the current one and the next read A, B, A, B.
Oscillates(recent, s, next) ==
    /\ Len(recent) >= 2
    /\ recent[Len(recent) - 1] = s
    /\ recent[Len(recent)] = next
    /\ s # next

TransitionState(recent, s, known, empty, flags) ==
    LET next == ComputeCandidate(s, known, empty, flags)
    IN  IF Oscillates(recent, s, next) \/ next \notin AllowedTransitions[s]
        THEN "fallback" ELSE next
=============================================================================
