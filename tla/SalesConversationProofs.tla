------------------------ MODULE SalesConversationProofs ------------------------
(***************************************************************************)
(* Theorems of ConversationStateMachine, SalesConversation and             *)
(* SalesGuards, for any number of conversations, turns, phones, required   *)
(* fields and any limits: the rules of the funnel agree with its table,    *)
(* the safety of captured leads, alerts and collected answers under        *)
(* overlapping and dying turns, and the safeguards of a conversation over  *)
(* all its turns.                                                          *)
(***************************************************************************)
EXTENDS SalesConversation, SalesGuards, WellFoundedInduction, FiniteSetTheorems, TLAPS

Tasks == [at : {"idle", "read", "lookup", "phone", "insert", "commit", "deliver", "stamp"},
          conv : Convs \cup {NoConv}, row : Row, created : BOOLEAN]

-----------------------------------------------------------------------------
(* The state machine *)

\* The rules propose no move that the table refuses.
THEOREM RulesMatchTable ==
    ASSUME NEW s \in States, NEW known \in BOOLEAN, NEW empty \in BOOLEAN, NEW flags \in SUBSET Flags
    PROVE  ComputeCandidate(s, known, empty, flags) \in AllowedTransitions[s]
<1>1. CASE empty /\ s \in Holding  BY <1>1 DEF ComputeCandidate, Holding, AllowedTransitions, States
<1>2. CASE ~ (empty /\ s \in Holding) /\ FallsBack(s, known, flags)
  BY <1>2 DEF ComputeCandidate, FallsBack, AllowedTransitions, States
<1>3. CASE ~ (empty /\ s \in Holding) /\ ~ FallsBack(s, known, flags)
  <2>1. ComputeCandidate(s, known, empty, flags) = Progress(s, flags)  BY <1>3 DEF ComputeCandidate
  <2>2. CASE s \in {"start", "fallback", "completed"}
    BY <2>1, <2>2 DEF Progress, AllowedTransitions, States
  <2>3. CASE s \in {"qualification", "clarification"}
    BY <2>1, <2>3 DEF Progress, AllowedTransitions, States
  <2>4. CASE s \in {"offer", "objection_handling", "closing"}
    BY <2>1, <2>4 DEF Progress, AllowedTransitions, States
  <2> QED  BY <2>2, <2>3, <2>4 DEF States
<1> QED  BY <1>1, <1>2, <1>3

\* Whatever the flags and the states before, the next state is in the table.
THEOREM MovesAreAllowed ==
    ASSUME NEW recent, NEW s \in States, NEW known \in BOOLEAN, NEW empty \in BOOLEAN,
           NEW flags \in SUBSET Flags
    PROVE  TransitionState(recent, s, known, empty, flags) \in AllowedTransitions[s]
<1> DEFINE next == ComputeCandidate(s, known, empty, flags)
<1>1. next \in AllowedTransitions[s]  BY RulesMatchTable
<1>2. CASE Oscillates(recent, s, next)
  <2>1. s # next  BY <1>2 DEF Oscillates
  <2>2. s # "completed"  BY <1>1, <2>1 DEF AllowedTransitions, States
  <2>3. "fallback" \in AllowedTransitions[s]  BY <2>2 DEF AllowedTransitions, States
  <2> QED  BY <1>2, <2>3 DEF TransitionState
<1>3. CASE ~ Oscillates(recent, s, next)  BY <1>1, <1>3 DEF TransitionState
<1> QED  BY <1>2, <1>3

\* The table leads to states only.
LEMMA AllowedAreStates == \A s \in States : AllowedTransitions[s] \subseteq States
<1> SUFFICES ASSUME NEW s \in States PROVE AllowedTransitions[s] \subseteq States  OBVIOUS
<1>1. CASE s \in {"start", "qualification", "clarification", "fallback"}
  BY <1>1 DEF AllowedTransitions, States
<1>2. CASE s \in {"offer", "objection_handling", "closing", "completed"}
  BY <1>2 DEF AllowedTransitions, States
<1> QED  BY <1>1, <1>2 DEF States

-----------------------------------------------------------------------------
(* What a turn computes *)

\* A non-empty set of numbers has a least one.
LEMMA LeastElement ==
    ASSUME NEW T \in SUBSET Nat, T # {}
    PROVE  \E x \in T : \A y \in T : x <= y
<1> DEFINE Less == {p \in Nat \X Nat : p[1] < p[2]}
<1>1. IsWellFoundedOn(Less, Nat)  BY NatLessThanWellFounded DEF OpToRel
<1> HIDE DEF Less
<1>2. PICK x \in T : \A y \in T : ~ (<<y, x>> \in Less)  BY <1>1, WFMin
<1>3. ASSUME NEW y \in T PROVE x <= y
  <2>1. x \in Nat /\ y \in Nat  OBVIOUS
  <2>2. y < x => <<y, x>> \in Less  BY <2>1 DEF Less
  <2> QED  BY <1>2, <2>1, <2>2
<1> QED  BY <1>3

\* The question planner asks for a required field or for none.
LEMMA QuestionTyped ==
    ASSUME NEW state \in States, NEW filled \in SUBSET Fields
    PROVE  PlanNextQuestion(state, filled) \in Fields \cup {NoField}
<1>1. FirstMissing(filled) \in Fields \cup {NoField}
  <2>1. CASE filled = Fields  BY <2>1 DEF FirstMissing
  <2>2. CASE filled # Fields
    <3>0. Fields \subseteq Nat  BY DEF Fields
    <3>1. Fields \ filled # {} /\ Fields \ filled \in SUBSET Nat  BY <2>2, <3>0
    <3>2. \E f \in Fields \ filled : \A g \in Fields \ filled : f <= g  BY <3>1, LeastElement
    <3>3. FirstMissing(filled) = CHOOSE f \in Fields \ filled : \A g \in Fields \ filled : f <= g
      BY <2>2 DEF FirstMissing
    <3> QED  BY <3>2, <3>3
  <2> QED  BY <2>1, <2>2
<1> QED  BY <1>1 DEF PlanNextQuestion

\* Answers and a phone number are added to a row, and nothing is taken away.
LEMMA ReplyAdds ==
    ASSUME NEW row \in Row, NEW answers \in BOOLEAN, NEW phone \in Phones \cup {NoPhone}
    PROVE  LET new == ApplyUserReply(row, answers, phone)
           IN  /\ new \in Row
               /\ row.filled \subseteq new.filled
               /\ row.phone # NoPhone => new.phone = row.phone
               /\ new.state = row.state /\ new.flags = row.flags /\ new.captured = row.captured
<1> DEFINE filled == IF answers THEN row.filled \cup ({row.target} \ {NoField}) ELSE row.filled
           number == IF row.phone = NoPhone THEN phone ELSE row.phone
<1>1. ApplyUserReply(row, answers, phone) = [row EXCEPT !.filled = filled, !.phone = number]
  BY DEF ApplyUserReply, Row
<1>2. filled \in SUBSET Fields /\ number \in Phones \cup {NoPhone}  BY DEF Row
<1>3. row.filled \subseteq filled /\ (row.phone # NoPhone => number = row.phone)  OBVIOUS
<1> HIDE DEF filled, number
<1> QED  BY <1>1, <1>2, <1>3 DEF Row

\* One step of the funnel moves the state by the table, keeps what was collected
\* and sets no flag but the completion of the qualification.
LEMMA PipelineMoves ==
    ASSUME NEW row \in Row, NEW known \in BOOLEAN
    PROVE  LET new == RunPipeline(row, known)
           IN  /\ new \in Row
               /\ new.state \in AllowedTransitions[row.state]
               /\ new.state = TransitionState(<< >>, row.state, known, FALSE, new.flags)
               /\ new.flags \subseteq row.flags \cup {"qualification_complete"}
               /\ new.filled = row.filled /\ new.phone = row.phone
               /\ new.captured = row.captured
<1> DEFINE flags  == row.flags \cup IF row.filled = Fields THEN {"qualification_complete"} ELSE {}
           next   == TransitionState(<< >>, row.state, known, FALSE, flags)
           target == PlanNextQuestion(next, row.filled)
<1>1. row.state \in States /\ row.filled \in SUBSET Fields /\ row.flags \in SUBSET Flags  BY DEF Row
<1>2. flags \in SUBSET Flags /\ flags \subseteq row.flags \cup {"qualification_complete"}
  BY <1>1 DEF Flags
<1> HIDE DEF flags
<1>3. next \in AllowedTransitions[row.state]  BY <1>1, <1>2, MovesAreAllowed
<1>4. next \in States  BY <1>1, <1>3, AllowedAreStates
<1> HIDE DEF next
<1>5. target \in Fields \cup {NoField}  BY <1>1, <1>4, QuestionTyped
<1> HIDE DEF target
<1>6. RunPipeline(row, known) = [row EXCEPT !.state = next, !.flags = flags, !.target = target]
  BY DEF RunPipeline, flags, next, target
<1>7. RunPipeline(row, known) \in Row  BY <1>2, <1>4, <1>5, <1>6 DEF Row
<1>8. next = TransitionState(<< >>, row.state, known, FALSE, flags)  BY DEF next
<1> QED  BY <1>2, <1>3, <1>6, <1>7, <1>8 DEF Row

-----------------------------------------------------------------------------
(* Types *)

\* The records that the actions write out have their types.
LEMMA RecordsTyped ==
    /\ NewRow \in Row /\ Idle \in Tasks
    /\ \A c \in Convs : Delivering(c) \in Tasks
<1>1. NewRow \in Row  BY DEF NewRow, Row, States
<1> QED  BY <1>1 DEF Idle, Delivering, Tasks

\* A planned row is typed and goes to the look-up of a lead or to the commit.
LEMMA PlanTyped ==
    ASSUME TypeOK, NEW t \in Turns, turn[t].at # "idle", NEW row \in Row, Plan(t, row)
    PROVE  \E n \in Tasks :
              /\ turn' = [turn EXCEPT ![t] = n]
              /\ n.conv = turn[t].conv /\ n.created = turn[t].created /\ n.row = row
              /\ \/ n.at = "lookup" /\ row.captured = NoConv
                 \/ n.at = "commit"
<1> DEFINE at == IF row.captured = NoConv /\ Eligible(row) THEN "lookup" ELSE "commit"
           n == [turn[t] EXCEPT !.row = row, !.at = at]
<1>1. turn \in [Turns -> Tasks] /\ turn[t] \in Tasks  BY DEF TypeOK, Tasks
<1>2. at \in {"lookup", "commit"} /\ (at = "lookup" => row.captured = NoConv)  OBVIOUS
<1>3. turn' = [turn EXCEPT ![t].row = row, ![t].at = at]  BY DEF Plan
<1> HIDE DEF at
<1>4. turn' = [turn EXCEPT ![t] = n]  BY <1>1, <1>3
<1>5. n \in Tasks  BY <1>1, <1>2 DEF Tasks
<1>6. n.conv = turn[t].conv /\ n.created = turn[t].created /\ n.row = row /\ n.at = at
  BY <1>1 DEF Tasks
<1> HIDE DEF n
<1> QED  BY <1>2, <1>4, <1>5, <1>6

\* Taking a lead over writes the mark and goes to the commit.
LEMMA CaptureTyped ==
    ASSUME TypeOK, NEW t \in Turns, NEW c \in Convs, Capture(t, c)
    PROVE  \E n \in Tasks :
              /\ turn' = [turn EXCEPT ![t] = n]
              /\ n.conv = turn[t].conv /\ n.created = turn[t].created /\ n.at = "commit"
              /\ n.row = [turn[t].row EXCEPT !.captured = c]
<1> DEFINE new == [turn[t].row EXCEPT !.captured = c]
           n == [turn[t] EXCEPT !.row = new, !.at = "commit"]
<1>1. turn \in [Turns -> Tasks] /\ turn[t] \in Tasks /\ turn[t].row \in Row  BY DEF TypeOK, Tasks
<1>2. new \in Row  BY <1>1 DEF Row
<1>3. turn' = [turn EXCEPT ![t].row.captured = c, ![t].at = "commit"]  BY DEF Capture
<1>4. turn' = [turn EXCEPT ![t] = n]  BY <1>1, <1>3
<1> HIDE DEF new
<1>5. n \in Tasks  BY <1>1, <1>2 DEF Tasks
<1>6. n.conv = turn[t].conv /\ n.created = turn[t].created /\ n.row = new /\ n.at = "commit"
  BY <1>1 DEF Tasks
<1> HIDE DEF n
<1> QED  BY <1>4, <1>5, <1>6 DEF new

\* A turn that only moves on keeps its conversation, its row and its mark of
\* having inserted the lead.
LEMMA GoToTyped ==
    ASSUME TypeOK, NEW t \in Turns,
           NEW at \in {"phone", "insert", "commit", "stamp"}, GoTo(t, at)
    PROVE  \E n \in Tasks :
              /\ turn' = [turn EXCEPT ![t] = n]
              /\ n.conv = turn[t].conv /\ n.created = turn[t].created
              /\ n.row = turn[t].row /\ n.at = at
<1> DEFINE n == [turn[t] EXCEPT !.at = at]
<1>1. turn \in [Turns -> Tasks] /\ turn[t] \in Tasks  BY DEF TypeOK, Tasks
<1>2. turn' = [turn EXCEPT ![t] = n]  BY <1>1 DEF GoTo
<1>3. n \in Tasks /\ n.conv = turn[t].conv /\ n.created = turn[t].created
      /\ n.row = turn[t].row /\ n.at = at
  BY <1>1 DEF Tasks
<1> HIDE DEF n
<1> QED  BY <1>2, <1>3

\* Replacing one turn by a typed one keeps the turns typed.
LEMMA TurnsTyped ==
    ASSUME TypeOK, NEW t \in Turns, NEW n \in Tasks, n.at # "idle" => n.conv \in Convs,
           turn' = [turn EXCEPT ![t] = n]
    PROVE  /\ turn' \in [Turns -> Tasks]
           /\ turn'[t] = n /\ \A u \in Turns \ {t} : turn'[u] = turn[u]
           /\ \A u \in Turns : turn'[u].at # "idle" => turn'[u].conv \in Convs
<1>1. turn \in [Turns -> Tasks] /\ \A u \in Turns : turn[u].at # "idle" => turn[u].conv \in Convs
  BY DEF TypeOK, Tasks
<1>2. turn' \in [Turns -> Tasks] /\ turn'[t] = n /\ \A u \in Turns \ {t} : turn'[u] = turn[u]  BY <1>1
<1> QED  BY <1>1, <1>2

-----------------------------------------------------------------------------
(* The invariant *)

\* The invariant holds before any message has come.
LEMMA InitInv == Init => TypeOK /\ SalesInv
<1> SUFFICES ASSUME Init PROVE TypeOK /\ SalesInv  OBVIOUS
<1>1. /\ conv = [c \in Convs |-> NewRow]
      /\ lead = [c \in Convs |-> [status |-> "none", phone |-> NoPhone, routed |-> FALSE]]
      /\ turn = [t \in Turns |-> Idle] /\ alerts = [c \in Convs |-> 0]
      /\ faults = 0 /\ overlapped = {}
  BY DEF Init
<1>2. [status |-> "none", phone |-> NoPhone, routed |-> FALSE] \in Lead  BY DEF Lead
<1>3. TypeOK  BY <1>1, <1>2, RecordsTyped, BoundsAssumption DEF TypeOK, Idle, Tasks
<1>4. /\ OnTheWay(NewRow) /\ NewRow.captured = NoConv
      /\ Idle.at = "idle" /\ Idle.created = FALSE /\ Idle.row = NewRow /\ Idle.conv = NoConv
  BY DEF OnTheWay, NewRow, Idle
<1>5. \A c \in Convs : ~ Captured(c)  BY <1>1 DEF Captured
<1>6. \A t \in Turns : TurnSound(turn[t]) /\ ~ Delivers(turn[t])  BY <1>1, <1>4 DEF TurnSound, Delivers
<1>7. \A c \in Convs : Uncommitted(c) = {}  BY <1>1, <1>4, ConvsAssumption DEF Uncommitted
<1>8. CaptureIsReal /\ AlertedOnce /\ NoLeadForgotten /\ MarkedWhileApart
  BY <1>1, <1>4, <1>5 DEF CaptureIsReal, AlertedOnce, NoLeadForgotten, MarkedWhileApart
<1>9. \A c \in Convs : OnTheWay(conv[c])  BY <1>1, <1>4
<1> QED  BY <1>3, <1>6, <1>7, <1>8, <1>9 DEF SalesInv

\* A step of one turn that commits nothing.
LEMMA TurnStep ==
    ASSUME TypeOK, SalesInv, NEW t \in Turns, NEW n \in Tasks,
           turn' = [turn EXCEPT ![t] = n],
           UNCHANGED <<conv, lead, alerts, overlapped>>,
           faults' \in 0..MaxFaults, faults' >= faults,
           n.at # "idle" => n.conv \in Convs,
           TurnSound(n),
           \A u \in Turns \ {t} : Delivers(n) /\ Delivers(turn[u]) => turn[u].conv # n.conv,
           \A c \in Convs : n.conv = c /\ n.at \notin {"deliver", "stamp"} => t \in Uncommitted(c),
           faults' > 0 \/ turn[t].at \notin {"deliver", "stamp"}
    PROVE  TypeOK' /\ SalesInv'
<1>1. /\ turn' \in [Turns -> Tasks]
      /\ turn'[t] = n /\ \A u \in Turns \ {t} : turn'[u] = turn[u]
      /\ \A u \in Turns : turn'[u].at # "idle" => turn'[u].conv \in Convs
  BY TurnsTyped
<1>2. conv' = conv /\ lead' = lead /\ alerts' = alerts /\ overlapped' = overlapped  OBVIOUS
<1>3. TypeOK'  BY <1>1, <1>2 DEF TypeOK, Tasks
<1>4. \A c : Captured(c)' <=> Captured(c)  BY <1>2 DEF Captured
<1>6. \A u \in Turns : TurnSound(turn[u])'
  <2> SUFFICES ASSUME NEW u \in Turns PROVE TurnSound(turn[u])'  OBVIOUS
  <2>1. CASE u = t  BY <2>1, <1>1, <1>2, <1>4 DEF TurnSound
  <2>2. CASE u # t
    <3>1. TurnSound(turn[u]) /\ turn'[u] = turn[u]  BY <2>2, <1>1 DEF SalesInv
    <3> QED  BY <3>1, <1>2, <1>4 DEF TurnSound
  <2> QED  BY <2>1, <2>2
<1>7. \A u, v \in Turns :
         Delivers(turn'[u]) /\ Delivers(turn'[v]) /\ turn'[u].conv = turn'[v].conv => u = v
  BY <1>1 DEF SalesInv
<1>8. \A c \in Convs : Uncommitted(c)' \subseteq Uncommitted(c)  BY <1>1 DEF Uncommitted
<1>9. \A c \in Convs \ overlapped : \A u, v \in Uncommitted(c)' : u = v  BY <1>8 DEF SalesInv
<1>10. \A c \in Convs : OnTheWay(conv[c])  BY DEF SalesInv
<1>11. CaptureIsReal' /\ AlertedOnce' /\ MarkedWhileApart'
  BY <1>2, <1>4 DEF SalesInv, CaptureIsReal, AlertedOnce, MarkedWhileApart
<1>12. NoLeadForgotten'
  <2>1. CASE faults' > 0  BY <2>1 DEF NoLeadForgotten
  <2>2. CASE turn[t].at \notin {"deliver", "stamp"} /\ ~ (faults' > 0)
    <3>1. ~ (faults > 0)  BY <2>2 DEF TypeOK
    <3>2. \A c \in Convs, u \in Turns :
             turn[u].at \in {"deliver", "stamp"} /\ turn[u].conv = c =>
                turn'[u].at \in {"deliver", "stamp"} /\ turn'[u].conv = c
      BY <2>2, <1>1
    <3> QED  BY <3>1, <3>2, <1>2, <1>4 DEF SalesInv, NoLeadForgotten
  <2> QED  BY <2>1, <2>2
<1> QED  BY <1>2, <1>3, <1>6, <1>7, <1>9, <1>10, <1>11, <1>12 DEF SalesInv, Delivers

\* Without the flags that no turn sets, the funnel goes no further than the offer.
LEMMA PipelineOnTheWay ==
    ASSUME NEW row \in Row, OnTheWay(row), NEW known \in BOOLEAN
    PROVE  OnTheWay(RunPipeline(row, known))
<1> DEFINE new == RunPipeline(row, known)
           candidate == ComputeCandidate(row.state, known, FALSE, new.flags)
<1>1. /\ new.flags \subseteq {"qualification_complete"}
      /\ new.state = TransitionState(<< >>, row.state, known, FALSE, new.flags)
  BY PipelineMoves DEF OnTheWay
<1>2. row.state \in {"start", "qualification", "fallback", "offer"}  BY DEF OnTheWay
<1> HIDE DEF new
<1>3. candidate \in {"qualification", "fallback", "offer"}
  <2>1. candidate \in {"fallback", Progress(row.state, new.flags)}  BY DEF ComputeCandidate
  <2>2. Progress(row.state, new.flags) \in {"qualification", "offer"}  BY <1>1, <1>2 DEF Progress
  <2> QED  BY <2>1, <2>2
<1>4. new.state \in {candidate, "fallback"}  BY <1>1 DEF TransitionState
<1> QED  BY <1>1, <1>3, <1>4 DEF OnTheWay, new

\* A turn that has read its row plans what may follow it.
LEMMA PlanStep ==
    ASSUME TypeOK, SalesInv, NEW t \in Turns, turn[t].at = "read",
           NEW new \in Row, OnTheWay(new), Follows(turn[t].row, new),
           new.captured = turn[t].row.captured,
           Plan(t, new), UNCHANGED <<conv, lead, alerts, faults, overlapped>>
    PROVE  TypeOK' /\ SalesInv'
<1>1. TurnSound(turn[t])  BY DEF SalesInv
<1>2. PICK n \in Tasks :
         /\ turn' = [turn EXCEPT ![t] = n]
         /\ n.conv = turn[t].conv /\ n.created = turn[t].created /\ n.row = new
         /\ \/ n.at = "lookup" /\ new.captured = NoConv
            \/ n.at = "commit"
  BY PlanTyped
<1>3. turn[t].conv \in Convs /\ turn[t].created = FALSE /\ faults \in 0..MaxFaults
  BY <1>1 DEF TypeOK, TurnSound, Tasks
<1>4. TurnSound(n)  BY <1>1, <1>2, <1>3 DEF TurnSound
<1>5. ~ Delivers(n)  BY <1>2, <1>3 DEF Delivers
<1>6. t \in Uncommitted(n.conv)  BY <1>2 DEF Uncommitted
<1>7. faults' \in 0..MaxFaults /\ faults' >= faults  BY <1>3, BoundsAssumption
<1> QED  BY <1>2, <1>3, <1>4, <1>5, <1>6, <1>7, TurnStep

\* A canned reply moves the funnel.
LEMMA RunCannedTurnStep ==
    ASSUME TypeOK, SalesInv, NEW t \in Turns, RunCannedTurn(t)
    PROVE  TypeOK' /\ SalesInv'
<1> DEFINE row == turn[t].row
           new == RunPipeline(row, FALSE)
<1>1. row \in Row /\ OnTheWay(row)  BY DEF TypeOK, SalesInv, TurnSound
<1>2. /\ turn[t].at = "read" /\ Plan(t, new)
      /\ UNCHANGED <<conv, lead, alerts, faults, overlapped>>
  BY DEF RunCannedTurn
<1> HIDE DEF row
<1>3. new \in Row /\ Follows(row, new) /\ new.captured = row.captured
  BY <1>1, PipelineMoves DEF Follows
<1>4. OnTheWay(new)  BY <1>1, PipelineOnTheWay
<1> HIDE DEF new
<1> QED  BY <1>2, <1>3, <1>4, PlanStep DEF row

\* A reply adds answers and moves the funnel.
LEMMA RunTurnStep ==
    ASSUME TypeOK, SalesInv, NEW t \in Turns, NEW known \in BOOLEAN, NEW answers \in BOOLEAN,
           NEW phone \in Phones \cup {NoPhone}, RunTurn(t, known, answers, phone)
    PROVE  TypeOK' /\ SalesInv'
<1> DEFINE row == turn[t].row
           reply == ApplyUserReply(row, answers, phone)
           new == RunPipeline(reply, known)
<1>1. row \in Row /\ OnTheWay(row)  BY DEF TypeOK, SalesInv, TurnSound
<1>2. /\ turn[t].at = "read" /\ Plan(t, new)
      /\ UNCHANGED <<conv, lead, alerts, faults, overlapped>>
  BY DEF RunTurn
<1> HIDE DEF row
<1>3. /\ reply \in Row /\ row.filled \subseteq reply.filled
      /\ row.phone # NoPhone => reply.phone = row.phone
      /\ reply.state = row.state /\ reply.flags = row.flags /\ reply.captured = row.captured
  BY <1>1, ReplyAdds
<1> HIDE DEF reply
<1>4. OnTheWay(reply)  BY <1>1, <1>3 DEF OnTheWay
<1>5. OnTheWay(new)  BY <1>3, <1>4, PipelineOnTheWay
<1>6. /\ new \in Row /\ new.state \in AllowedTransitions[reply.state]
      /\ new.filled = reply.filled /\ new.phone = reply.phone /\ new.captured = reply.captured
  BY <1>3, PipelineMoves
<1> HIDE DEF new
<1>7. Follows(row, new) /\ new.captured = row.captured  BY <1>3, <1>6 DEF Follows
<1> QED  BY <1>2, <1>5, <1>6, <1>7, PlanStep DEF row

\* A committed lead is taken over.
LEMMA CaptureStep ==
    ASSUME TypeOK, SalesInv, NEW t \in Turns, turn[t].at \in {"lookup", "phone"},
           NEW c \in Convs, Captured(c), Capture(t, c),
           UNCHANGED <<conv, lead, alerts, faults, overlapped>>
    PROVE  TypeOK' /\ SalesInv'
<1>1. TurnSound(turn[t]) /\ turn[t].row \in Row  BY DEF SalesInv, TypeOK
<1>2. PICK n \in Tasks :
         /\ turn' = [turn EXCEPT ![t] = n]
         /\ n.conv = turn[t].conv /\ n.created = turn[t].created /\ n.at = "commit"
         /\ n.row = [turn[t].row EXCEPT !.captured = c]
  BY CaptureTyped
<1>3. turn[t].conv \in Convs /\ turn[t].created = FALSE /\ faults \in 0..MaxFaults
  BY <1>1 DEF TypeOK, TurnSound, Tasks
<1>4. /\ n.row.captured = c /\ n.row.state = turn[t].row.state /\ n.row.flags = turn[t].row.flags
      /\ n.row.filled = turn[t].row.filled /\ n.row.phone = turn[t].row.phone
  BY <1>1, <1>2 DEF Row
<1>5. turn[t].row.captured = NoConv  BY <1>1 DEF TurnSound
<1>6. n.conv \notin overlapped => Follows(conv[n.conv], n.row)
  BY <1>1, <1>2, <1>4, <1>5 DEF TurnSound, Follows
<1>7. TurnSound(n)  BY <1>1, <1>2, <1>3, <1>4, <1>6 DEF TurnSound, OnTheWay
<1>8. ~ Delivers(n)  BY <1>2, <1>3 DEF Delivers
<1>9. t \in Uncommitted(n.conv)  BY <1>2 DEF Uncommitted
<1>10. faults' \in 0..MaxFaults /\ faults' >= faults  BY <1>3, BoundsAssumption
<1> QED  BY <1>2, <1>3, <1>7, <1>8, <1>9, <1>10, TurnStep

\* A turn goes on without a lead to take over.
LEMMA GoToStep ==
    ASSUME TypeOK, SalesInv, NEW t \in Turns, turn[t].at \in {"lookup", "phone"},
           NEW at \in {"phone", "insert", "commit"}, GoTo(t, at),
           UNCHANGED <<conv, lead, alerts, faults, overlapped>>
    PROVE  TypeOK' /\ SalesInv'
<1>1. TurnSound(turn[t])  BY DEF SalesInv
<1>2. PICK n \in Tasks :
         /\ turn' = [turn EXCEPT ![t] = n]
         /\ n.conv = turn[t].conv /\ n.created = turn[t].created
         /\ n.row = turn[t].row /\ n.at = at
  BY GoToTyped
<1>3. turn[t].conv \in Convs /\ turn[t].created = FALSE /\ faults \in 0..MaxFaults
  BY <1>1 DEF TypeOK, TurnSound, Tasks
<1>4. TurnSound(n)  BY <1>1, <1>2, <1>3 DEF TurnSound
<1>5. ~ Delivers(n)  BY <1>2, <1>3 DEF Delivers
<1>6. t \in Uncommitted(n.conv)  BY <1>2 DEF Uncommitted
<1>7. faults' \in 0..MaxFaults /\ faults' >= faults  BY <1>3, BoundsAssumption
<1> QED  BY <1>2, <1>3, <1>4, <1>5, <1>6, <1>7, TurnStep

\* The look-up of the conversation's own lead: what it finds is committed.
LEMMA LookUpLeadStep ==
    ASSUME TypeOK, SalesInv, NEW t \in Turns, LookUpLead(t)
    PROVE  TypeOK' /\ SalesInv'
<1> DEFINE c == turn[t].conv
<1>1. turn[t].at = "lookup" /\ c \in Convs /\ UNCHANGED <<conv, lead, alerts, faults, overlapped>>
  BY DEF LookUpLead, TypeOK
<1>2. CASE lead[c].status # "none"
  <2>1. Capture(t, c) /\ Captured(c)  BY <1>2 DEF LookUpLead, Captured
  <2> QED  BY <1>1, <2>1, CaptureStep
<1>3. CASE lead[c].status = "none"
  <2>1. GoTo(t, "phone") \/ GoTo(t, "commit")  BY <1>3 DEF LookUpLead
  <2> QED  BY <1>1, <2>1, GoToStep
<1> QED  BY <1>2, <1>3

\* The look-up by phone: what it finds is committed.
LEMMA CheckPhoneStep ==
    ASSUME TypeOK, SalesInv, NEW t \in Turns, CheckPhone(t)
    PROVE  TypeOK' /\ SalesInv'
<1> DEFINE same == OpenWithPhone(turn[t].row.phone)
<1>1. turn[t].at = "phone" /\ UNCHANGED <<conv, lead, alerts, faults, overlapped>>  BY DEF CheckPhone
<1>2. CASE same # {}
  <2>1. PICK c \in same : Capture(t, c)  BY <1>2 DEF CheckPhone
  <2>2. c \in Convs /\ Captured(c)  BY <2>1 DEF OpenWithPhone, Captured
  <2> QED  BY <1>1, <2>1, <2>2, CaptureStep
<1>3. CASE same = {}
  <2>1. GoTo(t, "insert")  BY <1>3 DEF CheckPhone
  <2> QED  BY <1>1, <2>1, GoToStep
<1> QED  BY <1>2, <1>3

\* A lead is inserted by the one turn that found none committed and none under way.
LEMMA InsertLeadStep ==
    ASSUME TypeOK, SalesInv, NEW t \in Turns, InsertLead(t)
    PROVE  TypeOK' /\ SalesInv'
<1> DEFINE c == turn[t].conv
           new == [turn[t].row EXCEPT !.captured = c]
           n == [turn[t] EXCEPT !.row = new, !.at = "commit", !.created = (lead[c].status = "none")]
<1>1. /\ turn[t].at = "insert" /\ c \in Convs /\ turn[t] \in Tasks /\ turn[t].row \in Row
      /\ turn \in [Turns -> Tasks] /\ faults \in 0..MaxFaults
  BY DEF InsertLead, TypeOK, Tasks
<1>2. TurnSound(turn[t])  BY DEF SalesInv
<1>3. /\ UNCHANGED <<conv, lead, alerts, faults, overlapped>>
      /\ turn' = [turn EXCEPT ![t].row.captured = c, ![t].at = "commit",
                              ![t].created = (lead[c].status = "none")]
      /\ \A u \in Turns : turn[u].conv = c => ~ (turn[u].created /\ turn[u].at = "commit")
  BY DEF InsertLead
<1>4. turn' = [turn EXCEPT ![t] = n]  BY <1>1, <1>3
<1>5. /\ new \in Row /\ new.captured = c /\ new.state = turn[t].row.state
      /\ new.flags = turn[t].row.flags /\ new.filled = turn[t].row.filled
      /\ new.phone = turn[t].row.phone
  BY <1>1 DEF Row
<1> HIDE DEF new
<1>6. n \in Tasks  BY <1>1, <1>5 DEF Tasks
<1>7. n.at = "commit" /\ n.conv = c /\ n.row = new /\ (n.created <=> lead[c].status = "none")
  BY <1>1 DEF Tasks
<1> HIDE DEF n
<1>8. n.created <=> ~ Captured(c)  BY <1>7 DEF Captured
<1>9. turn[t].row.captured = NoConv  BY <1>1, <1>2 DEF TurnSound
<1>10. c \notin overlapped => Follows(conv[c], new)  BY <1>1, <1>2, <1>5, <1>9 DEF TurnSound, Follows
<1>11. TurnSound(n)  BY <1>2, <1>5, <1>7, <1>8, <1>10 DEF TurnSound, OnTheWay
<1>12. \A u \in Turns \ {t} : Delivers(n) /\ Delivers(turn[u]) => turn[u].conv # c
  <2> SUFFICES ASSUME NEW u \in Turns \ {t}, Delivers(n), Delivers(turn[u]), turn[u].conv = c
               PROVE  FALSE
    OBVIOUS
  <2>1. TurnSound(turn[u])  BY DEF SalesInv
  <2>2. ~ Captured(c)  BY <1>7, <1>8 DEF Delivers
  <2>3. turn[u].at # "deliver"  BY <2>1, <2>2 DEF TurnSound
  <2>4. turn[u].created /\ turn[u].at = "commit"  BY <2>1, <2>3 DEF Delivers, TurnSound
  <2> QED  BY <1>3, <2>4
<1>13. t \in Uncommitted(c)  BY <1>1 DEF Uncommitted
<1>14. faults' \in 0..MaxFaults /\ faults' >= faults  BY <1>1, <1>3, BoundsAssumption
<1> HIDE DEF c
<1> QED  BY <1>1, <1>3, <1>4, <1>6, <1>7, <1>11, <1>12, <1>13, <1>14, TurnStep, ZenonT(60) DEF c

\* An idle turn is sound, and delivers nothing.
LEMMA IdleSound == TurnSound(Idle) /\ TurnSound(Idle)' /\ ~ Delivers(Idle)
BY DEF TurnSound, Idle, NewRow, OnTheWay, Delivers

\* A turn dies: nothing of it is left, and the fault is counted.
LEMMA FaultStep ==
    ASSUME TypeOK, SalesInv, NEW t \in Turns, Fault(t)
    PROVE  TypeOK' /\ SalesInv'
<1>1. /\ turn' = [turn EXCEPT ![t] = Idle] /\ UNCHANGED <<conv, lead, alerts, overlapped>>
      /\ faults < MaxFaults /\ faults' = faults + 1
  BY DEF Fault
<1>2. faults' \in 0..MaxFaults /\ faults' >= faults /\ faults' > 0  BY <1>1, BoundsAssumption DEF TypeOK
<1>3. Idle \in Tasks /\ Idle.at = "idle" /\ Idle.conv \notin Convs
  BY RecordsTyped, ConvsAssumption DEF Idle
<1>4. TurnSound(Idle) /\ ~ Delivers(Idle)  BY IdleSound
<1> HIDE DEF Idle
<1> QED  BY <1>1, <1>2, <1>3, <1>4, TurnStep

\* A turn begins: it has read the committed row, and if another one of the
\* conversation is under way, the two overlap.
LEMMA BeginStep ==
    ASSUME TypeOK, SalesInv, NEW t \in Turns, NEW c \in Convs, Begin(t, c)
    PROVE  TypeOK' /\ SalesInv'
<1> DEFINE n == [at |-> "read", conv |-> c, row |-> conv[c], created |-> FALSE]
<1>1. /\ turn[t].at = "idle" /\ turn' = [turn EXCEPT ![t] = n]
      /\ overlapped' = IF Uncommitted(c) = {} THEN overlapped ELSE overlapped \cup {c}
      /\ UNCHANGED <<conv, lead, alerts, faults>>
  BY DEF Begin, Start
<1>2. n \in Tasks /\ n.conv = c /\ n.at = "read" /\ n.row = conv[c] /\ n.created = FALSE
  BY DEF TypeOK, Tasks
<1> HIDE DEF n
<1>3. /\ turn' \in [Turns -> Tasks]
      /\ turn'[t] = n /\ \A u \in Turns \ {t} : turn'[u] = turn[u]
      /\ \A u \in Turns : turn'[u].at # "idle" => turn'[u].conv \in Convs
  BY <1>1, <1>2, TurnsTyped
<1>4. overlapped \subseteq overlapped' /\ overlapped' \subseteq Convs  BY <1>1 DEF TypeOK
<1>5. TypeOK'  BY <1>1, <1>3, <1>4 DEF TypeOK, Tasks
<1>6. \A d : Captured(d)' <=> Captured(d)  BY <1>1 DEF Captured
<1>8. \A u \in Turns : TurnSound(turn[u])'
  <2> SUFFICES ASSUME NEW u \in Turns PROVE TurnSound(turn[u])'  OBVIOUS
  <2>1. CASE u = t
    <3>1. OnTheWay(conv[c]) /\ (conv[c].captured # NoConv => Captured(conv[c].captured))
      BY DEF SalesInv, CaptureIsReal
    <3> QED  BY <2>1, <3>1, <1>1, <1>2, <1>3, <1>6 DEF TurnSound
  <2>2. CASE u # t
    <3>1. TurnSound(turn[u]) /\ turn'[u] = turn[u]  BY <2>2, <1>3 DEF SalesInv
    <3> QED  BY <3>1, <1>1, <1>4, <1>6 DEF TurnSound
  <2> QED  BY <2>1, <2>2
<1>9. \A u, v \in Turns :
         Delivers(turn'[u]) /\ Delivers(turn'[v]) /\ turn'[u].conv = turn'[v].conv => u = v
  <2>1. ~ Delivers(turn'[t])  BY <1>2, <1>3 DEF Delivers
  <2> QED  BY <2>1, <1>3 DEF SalesInv
<1>10. ASSUME NEW d \in Convs \ overlapped', NEW u \in Uncommitted(d)', NEW v \in Uncommitted(d)'
       PROVE  u = v
  <2>1. CASE d = c
    <3>1. Uncommitted(c) = {}  BY <2>1, <1>1, <1>10
    <3>2. \A w \in Turns \ {t} : w \notin Uncommitted(c)'  BY <3>1, <1>3 DEF Uncommitted
    <3>3. Uncommitted(d)' \subseteq Turns  BY DEF Uncommitted
    <3>4. u \in Turns /\ v \in Turns /\ u \in Uncommitted(c)' /\ v \in Uncommitted(c)'
      BY <2>1, <3>3, <1>10
    <3> QED  BY <3>2, <3>4
  <2>2. CASE d # c
    <3>1. Uncommitted(d)' \subseteq Uncommitted(d)  BY <2>2, <1>2, <1>3 DEF Uncommitted
    <3>2. d \in Convs \ overlapped  BY <1>4
    <3> QED  BY <3>1, <3>2, <1>10 DEF SalesInv
  <2> QED  BY <2>1, <2>2
<1>11. /\ \A d \in Convs : OnTheWay(conv'[d])
       /\ CaptureIsReal' /\ AlertedOnce' /\ MarkedWhileApart'
  BY <1>1, <1>4, <1>6 DEF SalesInv, CaptureIsReal, AlertedOnce, MarkedWhileApart
<1>12. NoLeadForgotten'
  <2>1. \A d \in Convs, u \in Turns :
           turn[u].at \in {"deliver", "stamp"} /\ turn[u].conv = d =>
              turn'[u].at \in {"deliver", "stamp"} /\ turn'[u].conv = d
    BY <1>1, <1>3
  <2> QED  BY <2>1, <1>1, <1>6 DEF SalesInv, NoLeadForgotten
<1> QED  BY <1>5, <1>8, <1>9, <1>10, <1>11, <1>12 DEF SalesInv, Delivers

\* The lead that a commit makes visible, and what the turn does next.
LEMMA CommitEffect ==
    ASSUME TypeOK, SalesInv, NEW t \in Turns, CommitTurn(t)
    PROVE  LET c == turn[t].conv
               r == turn[t].row
           IN  \E n \in {Delivering(c), Idle} :
                 /\ turn[t].at = "commit" /\ c \in Convs /\ r \in Row
                 /\ n \in Tasks /\ turn' = [turn EXCEPT ![t] = n]
                 /\ conv' = [conv EXCEPT ![c] = r]
                 /\ lead' \in [Convs -> Lead]
                 /\ \A d \in Convs : lead'[d] = lead[d] \/ (d = c /\ turn[t].created)
                 /\ turn[t].created => lead'[c].status # "none" /\ n = Delivering(c)
                 /\ ~ turn[t].created => lead' = lead /\ n = Idle
                 /\ UNCHANGED <<alerts, faults, overlapped>>
<1> DEFINE c == turn[t].conv
           l == [status |-> "open", phone |-> turn[t].row.phone, routed |-> FALSE]
<1>1. /\ turn[t].at = "commit"
      /\ conv' = [conv EXCEPT ![c] = turn[t].row]
      /\ lead' = IF turn[t].created THEN [lead EXCEPT ![c] = l] ELSE lead
      /\ turn' = [turn EXCEPT ![t] = IF turn[t].created THEN Delivering(c) ELSE Idle]
      /\ UNCHANGED <<alerts, faults, overlapped>>
  BY DEF CommitTurn
<1>2. c \in Convs /\ turn[t].row \in Row /\ lead \in [Convs -> Lead] /\ turn[t].created \in BOOLEAN
  BY <1>1 DEF TypeOK
<1>3. l \in Lead /\ l.status = "open"  BY <1>2 DEF Lead, Row
<1> HIDE DEF l
<1>4. Idle \in Tasks /\ Delivering(c) \in Tasks  BY <1>2, RecordsTyped
<1>5. CASE turn[t].created
  <2>1. lead' = [lead EXCEPT ![c] = l] /\ turn' = [turn EXCEPT ![t] = Delivering(c)]  BY <1>1, <1>5
  <2>2. lead' \in [Convs -> Lead] /\ \A d \in Convs : d # c => lead'[d] = lead[d]  BY <2>1, <1>2, <1>3
  <2>3. lead'[c].status = "open"  BY <2>1, <1>2, <1>3
  <2> QED  BY <1>1, <1>2, <1>4, <1>5, <2>1, <2>2, <2>3
<1>6. CASE ~ turn[t].created  BY <1>1, <1>2, <1>4, <1>6
<1> QED  BY <1>5, <1>6

\* The commit of a turn: the row is what may follow the row before, unless
\* another turn was under way, and a lead appears together with its mark.
LEMMA CommitTurnStep ==
    ASSUME TypeOK, SalesInv, NEW t \in Turns, CommitTurn(t)
    PROVE  TypeOK' /\ SalesInv'
<1> DEFINE c == turn[t].conv
           r == turn[t].row
<1>1. PICK n \in {Delivering(c), Idle} :
         /\ turn[t].at = "commit" /\ c \in Convs /\ r \in Row
         /\ n \in Tasks /\ turn' = [turn EXCEPT ![t] = n]
         /\ conv' = [conv EXCEPT ![c] = r]
         /\ lead' \in [Convs -> Lead]
         /\ \A d \in Convs : lead'[d] = lead[d] \/ (d = c /\ turn[t].created)
         /\ turn[t].created => lead'[c].status # "none" /\ n = Delivering(c)
         /\ ~ turn[t].created => lead' = lead /\ n = Idle
         /\ UNCHANGED <<alerts, faults, overlapped>>
  BY CommitEffect
<1>2. /\ n.created = FALSE /\ n.row = NewRow
      /\ turn[t].created => n.at = "deliver" /\ n.conv = c
      /\ ~ turn[t].created => n.at = "idle" /\ n.conv = NoConv /\ n = Idle
  BY <1>1 DEF Delivering, Idle
<1>3. /\ turn' \in [Turns -> Tasks]
      /\ turn'[t] = n /\ \A u \in Turns \ {t} : turn'[u] = turn[u]
      /\ \A u \in Turns : turn'[u].at # "idle" => turn'[u].conv \in Convs
  <2>1. n.at # "idle" => n.conv \in Convs  BY <1>1, <1>2
  <2> QED  BY <2>1, <1>1, TurnsTyped
<1>4. conv' \in [Convs -> Row] /\ conv'[c] = r /\ \A d \in Convs \ {c} : conv'[d] = conv[d]
  BY <1>1 DEF TypeOK
<1>5. TypeOK'  BY <1>1, <1>3, <1>4 DEF TypeOK, Tasks
<1>6. TurnSound(turn[t]) /\ turn[t].created \in BOOLEAN  BY <1>1 DEF SalesInv, TypeOK
<1>7. /\ \A d \in Convs : Captured(d) => Captured(d)'
      /\ \A d \in Convs : Captured(d)' => Captured(d) \/ (d = c /\ turn[t].created)
  BY <1>1 DEF Captured
<1>8. \A u \in Turns : TurnSound(turn[u])'
  <2> SUFFICES ASSUME NEW u \in Turns PROVE TurnSound(turn[u])'  OBVIOUS
  <2>1. CASE u = t
    <3>1. turn[t].created => alerts[c] = 0
      <4> SUFFICES ASSUME turn[t].created PROVE alerts[c] = 0  OBVIOUS
      <4>1. ~ Captured(c)  BY <1>6 DEF TurnSound
      <4>2. alerts[c] \in Nat /\ alerts[c] <= 1 /\ alerts[c] # 1
        BY <4>1, <1>1 DEF SalesInv, AlertedOnce, TypeOK
      <4> QED  BY <4>2
    <3>2. OnTheWay(NewRow) /\ NewRow.captured = NoConv  BY DEF OnTheWay, NewRow
    <3>3. CASE turn[t].created
      <4>1. /\ turn'[u].at = "deliver" /\ turn'[u].conv = c /\ turn'[u].created = FALSE
            /\ turn'[u].row = NewRow
        BY <2>1, <3>3, <1>2, <1>3
      <4>2. lead'[c].status # "none" /\ alerts'[c] = 0  BY <3>1, <3>3, <1>1
      <4>3. Captured(turn[u].conv)' = (lead'[turn'[u].conv].status # "none")  BY DEF Captured
      <4> HIDE DEF c
      <4> QED  BY <4>1, <4>2, <4>3, <3>2 DEF TurnSound
    <3>4. CASE ~ turn[t].created  BY <2>1, <3>2, <3>4, <1>2, <1>3 DEF TurnSound
    <3> QED  BY <3>3, <3>4, <1>6
  <2>2. CASE u # t
    <3>1. TurnSound(turn[u]) /\ turn'[u] = turn[u] /\ turn[u] \in Tasks  BY <2>2, <1>3 DEF SalesInv
    <3>2. turn[u].at # "idle" => turn[u].conv \in Convs  BY DEF TypeOK
    <3>3. turn[u].created => ~ Captured(turn[u].conv)'
      <4> SUFFICES ASSUME turn[u].created PROVE ~ Captured(turn[u].conv)'  OBVIOUS
      <4>1. turn[u].at = "commit" /\ ~ Captured(turn[u].conv) /\ turn[u].conv \in Convs
        BY <3>1, <3>2 DEF TurnSound
      <4>2. ~ (turn[u].conv = c /\ turn[t].created)  BY <2>2 DEF SalesInv, Delivers
      <4>3. ~ (lead'[turn[u].conv].status # "none")  BY <4>1, <4>2, <1>1 DEF Captured
      <4> QED  BY <4>3, <3>1 DEF Captured
    <3>4. turn[u].at \in {"deliver", "stamp"} => Captured(turn[u].conv)'
      <4>1. turn[u].at \in {"deliver", "stamp"} => turn[u].conv \in Convs /\ Captured(turn[u].conv)
        BY <3>1, <3>2 DEF TurnSound
      <4>2. turn'[u].conv = turn[u].conv  BY <3>1
      <4> QED  BY <4>1, <4>2, <1>7 DEF Captured
    <3>5. turn[u].conv \notin overlapped
             /\ turn[u].at \in {"read", "lookup", "phone", "insert", "commit"}
          => conv'[turn[u].conv] = conv[turn[u].conv]
      <4> SUFFICES ASSUME turn[u].conv \notin overlapped,
                          turn[u].at \in {"read", "lookup", "phone", "insert", "commit"}
                   PROVE  conv'[turn[u].conv] = conv[turn[u].conv]
        OBVIOUS
      <4>1. turn[u].conv \in Convs  BY <3>2
      <4>2. CASE turn[u].conv = c
        <5>1. u \in Uncommitted(c) /\ t \in Uncommitted(c)  BY <4>2, <1>1 DEF Uncommitted
        <5>2. c \in Convs \ overlapped  BY <4>2, <1>1
        <5>3. u = t  BY <5>1, <5>2 DEF SalesInv
        <5> QED  BY <5>3, <2>2
      <4>3. CASE turn[u].conv # c  BY <4>1, <4>3, <1>4
      <4> QED  BY <4>2, <4>3
    <3>6. turn[u].row.captured # NoConv => turn[u].created \/ Captured(turn[u].row.captured)'
      <4>1. turn[u].row.captured \in Convs \cup {NoConv}  BY <3>1 DEF Tasks, Row
      <4>2. turn[u].row.captured # NoConv => turn[u].created \/ Captured(turn[u].row.captured)
        BY <3>1 DEF TurnSound
      <4>3. turn'[u].row.captured = turn[u].row.captured  BY <3>1
      <4> QED  BY <4>1, <4>2, <4>3, <1>7 DEF Captured
    <3> QED  BY <3>1, <3>3, <3>4, <3>5, <3>6, <1>1 DEF TurnSound
  <2> QED  BY <2>1, <2>2
<1>9. \A u, v \in Turns :
         Delivers(turn'[u]) /\ Delivers(turn'[v]) /\ turn'[u].conv = turn'[v].conv => u = v
  <2>1. Delivers(turn'[t]) => Delivers(turn[t]) /\ turn'[t].conv = turn[t].conv
    BY <1>2, <1>3, <1>6 DEF Delivers
  <2> QED  BY <2>1, <1>3 DEF SalesInv
<1>10. \A d \in Convs : Uncommitted(d)' \subseteq Uncommitted(d)
  BY <1>2, <1>3, <1>6, ConvsAssumption DEF Uncommitted
<1>11. \A d \in Convs \ overlapped' : \A u, v \in Uncommitted(d)' : u = v  BY <1>1, <1>10 DEF SalesInv
<1>12. \A d \in Convs : OnTheWay(conv'[d])  BY <1>4, <1>6 DEF SalesInv, TurnSound
<1>13. CaptureIsReal'
  <2> SUFFICES ASSUME NEW d \in Convs, conv'[d].captured # NoConv
               PROVE  Captured(conv[d].captured)'
    BY DEF CaptureIsReal
  <2>0. conv'[d].captured \in Convs  BY <1>4 DEF Row
  <2>1. CASE d = c
    <3>1. turn[t].created \/ Captured(r.captured)  BY <2>1, <1>4, <1>6 DEF TurnSound
    <3>2. CASE turn[t].created
      <4>1. r.captured = c  BY <3>2, <1>6 DEF TurnSound
      <4>2. lead'[c].status # "none"  BY <3>2, <1>1
      <4> QED  BY <4>1, <4>2, <2>1, <1>4 DEF Captured
    <3>3. CASE Captured(r.captured)  BY <3>3, <2>0, <2>1, <1>4, <1>7 DEF Captured
    <3> QED  BY <3>1, <3>2, <3>3
  <2>2. CASE d # c
    <3>1. conv'[d] = conv[d] /\ Captured(conv[d].captured)  BY <2>2, <1>4 DEF SalesInv, CaptureIsReal
    <3> QED  BY <3>1, <2>0, <1>7 DEF Captured
  <2> QED  BY <2>1, <2>2
<1>14. AlertedOnce'  BY <1>1, <1>7 DEF SalesInv, AlertedOnce
<1>15. NoLeadForgotten'
  <2> SUFFICES ASSUME NEW d \in Convs, Captured(d)', ~ lead'[d].routed,
                      \A u \in Turns : ~ (turn'[u].at \in {"deliver", "stamp"} /\ turn'[u].conv = d)
               PROVE  faults' > 0
    BY DEF NoLeadForgotten
  <2>1. ~ (d = c /\ turn[t].created)  BY <1>2, <1>3
  <2>2. lead'[d] = lead[d] /\ Captured(d)  BY <2>1, <1>1, <1>7
  <2>3. \A u \in Turns : ~ (turn[u].at \in {"deliver", "stamp"} /\ turn[u].conv = d)  BY <1>1, <1>3
  <2> QED  BY <2>2, <2>3, <1>1 DEF SalesInv, NoLeadForgotten
<1>16. MarkedWhileApart'
  <2> SUFFICES ASSUME NEW d \in Convs \ overlapped, Captured(d)'
               PROVE  conv'[d].captured # NoConv
    BY <1>1 DEF MarkedWhileApart
  <2>1. CASE d = c /\ turn[t].created  BY <2>1, <1>1, <1>4, <1>6, ConvsAssumption DEF TurnSound
  <2>2. CASE ~ (d = c /\ turn[t].created)
    <3>1. conv[d].captured # NoConv  BY <2>2, <1>7 DEF SalesInv, MarkedWhileApart
    <3>2. CASE d = c
      <4>1. Follows(conv[c], r)  BY <3>2, <1>1, <1>6 DEF TurnSound
      <4> QED  BY <3>1, <3>2, <4>1, <1>4 DEF Follows
    <3>3. CASE d # c  BY <3>1, <3>3, <1>4
    <3> QED  BY <3>2, <3>3
  <2> QED  BY <2>1, <2>2
<1> QED  BY <1>5, <1>8, <1>9, <1>11, <1>12, <1>13, <1>14, <1>15, <1>16 DEF SalesInv, Delivers

\* A change of turns, leads and alerts that leaves conversations and overlaps as
\* they are, captures the same leads, and ends no delivery unstamped.
LEMMA DeliveryStep ==
    ASSUME TypeOK, SalesInv, NEW t \in Turns, NEW n \in Tasks,
           turn' = [turn EXCEPT ![t] = n], turn[t].at \in {"deliver", "stamp"},
           n = Idle \/ (n.at = "stamp" /\ n.conv = turn[t].conv /\ n.row = turn[t].row
                         /\ n.created = FALSE),
           UNCHANGED <<conv, faults, overlapped>>,
           lead' \in [Convs -> Lead], alerts' \in [Convs -> Nat],
           \A d \in Convs : lead'[d].status = lead[d].status,
           \A d \in Convs : d # turn[t].conv => lead'[d] = lead[d] /\ alerts'[d] = alerts[d],
           n = Idle => lead'[turn[t].conv].routed /\ alerts' = alerts,
           turn[t].at = "stamp" => n = Idle,
           alerts'[turn[t].conv] <= 1
    PROVE  TypeOK' /\ SalesInv'
<1> DEFINE c == turn[t].conv
<1>1. Idle.at = "idle" /\ Idle.conv = NoConv /\ Idle.created = FALSE /\ Idle.row = NewRow
      /\ OnTheWay(NewRow) /\ NewRow.captured = NoConv
  BY DEF Idle, NewRow, OnTheWay
<1>2. c \in Convs /\ TurnSound(turn[t]) /\ turn[t].created = FALSE /\ Captured(c)
  BY DEF TypeOK, SalesInv, TurnSound
<1>3. /\ turn' \in [Turns -> Tasks]
      /\ turn'[t] = n /\ \A u \in Turns \ {t} : turn'[u] = turn[u]
      /\ \A u \in Turns : turn'[u].at # "idle" => turn'[u].conv \in Convs
  <2>1. n.at # "idle" => n.conv \in Convs  BY <1>1, <1>2
  <2> QED  BY <2>1, TurnsTyped
<1>4. TypeOK'  BY <1>3 DEF TypeOK, Tasks
<1>5. \A d \in Convs : lead'[d].status # "none" <=> Captured(d)  BY DEF Captured
<1>6. \A u \in Turns : TurnSound(turn[u])'
  <2> SUFFICES ASSUME NEW u \in Turns PROVE TurnSound(turn[u])'  OBVIOUS
  <2>0. Captured(turn[u].conv)' = (lead'[turn'[u].conv].status # "none")
        /\ Captured(turn[u].row.captured)' = (lead'[turn'[u].row.captured].status # "none")
    BY DEF Captured
  <2>1. CASE u = t /\ n = Idle  BY <2>1, <1>1, <1>3 DEF TurnSound
  <2>2. CASE u = t /\ n # Idle
    <3>1. /\ turn'[u].at = "stamp" /\ turn'[u].conv = c /\ turn'[u].created = FALSE
          /\ turn'[u].row = turn[t].row
      BY <2>2, <1>3
    <3>2. turn[t].row.captured # NoConv => turn[t].row.captured \in Convs /\ Captured(turn[t].row.captured)
      BY <1>2 DEF TurnSound, TypeOK, Row
    <3>3. lead'[c].status # "none" /\ OnTheWay(turn[t].row)  BY <1>2, <1>5 DEF TurnSound
    <3> HIDE DEF c
    <3> QED  BY <3>1, <3>2, <3>3, <2>0, <1>5 DEF TurnSound
  <2>3. CASE u # t
    <3>1. TurnSound(turn[u]) /\ turn'[u] = turn[u] /\ turn[u].row \in Row
      BY <2>3, <1>3 DEF SalesInv, TypeOK
    <3>2. turn[u].at # "idle" => turn[u].conv \in Convs  BY DEF TypeOK
    <3>3. turn[u].row.captured \in Convs \cup {NoConv}  BY <3>1 DEF Row
    <3>4. turn[u].at = "deliver" => alerts'[turn[u].conv] = 0
      <4> SUFFICES ASSUME turn[u].at = "deliver" PROVE alerts'[turn[u].conv] = 0  OBVIOUS
      <4>1. alerts[turn[u].conv] = 0 /\ turn[u].conv \in Convs  BY <3>1, <3>2 DEF TurnSound
      <4>2. CASE turn[u].conv # c  BY <4>1, <4>2
      <4>3. CASE turn[u].conv = c
        <5>1. turn[t].at # "deliver"  BY <4>3, <2>3 DEF SalesInv, Delivers
        <5> QED  BY <5>1, <4>1
      <4> QED  BY <4>2, <4>3
    <3>5. turn[u].created => turn[u].conv \in Convs  BY <3>1, <3>2 DEF TurnSound
    <3>6. turn[u].at \in {"deliver", "stamp"} => lead'[turn[u].conv].status # "none"
      BY <3>1, <3>2, <1>5 DEF TurnSound
    <3>7. turn[u].created => ~ (lead'[turn[u].conv].status # "none")  BY <3>1, <3>5, <1>5 DEF TurnSound
    <3>8. turn[u].row.captured # NoConv =>
             turn[u].created \/ lead'[turn[u].row.captured].status # "none"
      BY <3>1, <3>3, <1>5 DEF TurnSound
    <3>9. /\ Captured(turn[u].conv)' = (lead'[turn[u].conv].status # "none")
          /\ Captured(turn[u].row.captured)' = (lead'[turn[u].row.captured].status # "none")
      BY <2>0, <3>1
    <3>10. /\ conv' = conv /\ overlapped' = overlapped /\ turn'[u] = turn[u]
      BY <3>1
    <3> HIDE DEF c
    <3> QED  BY <3>1, <3>4, <3>6, <3>7, <3>8, <3>9, <3>10 DEF TurnSound
  <2> QED  BY <2>1, <2>2, <2>3
<1>7. \A u, v \in Turns :
         Delivers(turn'[u]) /\ Delivers(turn'[v]) /\ turn'[u].conv = turn'[v].conv => u = v
  <2>1. ~ Delivers(turn'[t])  BY <1>1, <1>3 DEF Delivers
  <2> QED  BY <2>1, <1>3 DEF SalesInv
<1>8. \A d \in Convs : Uncommitted(d)' \subseteq Uncommitted(d)
  BY <1>1, <1>3, ConvsAssumption DEF Uncommitted
<1>9. \A d \in Convs \ overlapped' : \A u, v \in Uncommitted(d)' : u = v  BY <1>8 DEF SalesInv
<1>10. \A d \in Convs : OnTheWay(conv'[d])  BY DEF SalesInv
<1>11. CaptureIsReal' /\ MarkedWhileApart'
  <2>1. \A d \in Convs : conv[d].captured \in Convs \cup {NoConv}  BY DEF TypeOK, Row
  <2> QED  BY <2>1, <1>5 DEF SalesInv, CaptureIsReal, MarkedWhileApart, Captured
<1>12. AlertedOnce'
  <2> SUFFICES ASSUME NEW d \in Convs
               PROVE  alerts'[d] <= 1 /\ (alerts'[d] = 1 => lead'[d].status # "none")
    BY DEF AlertedOnce, Captured
  <2>1. CASE d = c  BY <2>1, <1>2, <1>5
  <2>2. CASE d # c  BY <2>2, <1>5 DEF SalesInv, AlertedOnce
  <2> QED  BY <2>1, <2>2
<1>13. NoLeadForgotten'
  <2> SUFFICES ASSUME NEW d \in Convs, lead'[d].status # "none", ~ lead'[d].routed,
                      \A u \in Turns : ~ (turn'[u].at \in {"deliver", "stamp"} /\ turn'[u].conv = d)
               PROVE  faults' > 0
    BY DEF NoLeadForgotten, Captured
  <2>1. d # c
    <3> SUFFICES ASSUME d = c PROVE FALSE  OBVIOUS
    <3>1. n # Idle  BY <1>2
    <3> QED  BY <3>1, <1>3
  <2>2. lead'[d] = lead[d] /\ Captured(d)  BY <2>1, <1>5
  <2>3. \A u \in Turns : ~ (turn[u].at \in {"deliver", "stamp"} /\ turn[u].conv = d)  BY <2>1, <1>3
  <2> QED  BY <2>2, <2>3 DEF SalesInv, NoLeadForgotten
<1> QED  BY <1>4, <1>6, <1>7, <1>9, <1>10, <1>11, <1>12, <1>13 DEF SalesInv, Delivers

\* The owner is told, once: nobody else delivers this lead.
LEMMA SendAlertStep ==
    ASSUME TypeOK, SalesInv, NEW t \in Turns, SendAlert(t)
    PROVE  TypeOK' /\ SalesInv'
<1> DEFINE c == turn[t].conv
<1>1. /\ turn[t].at = "deliver" /\ GoTo(t, "stamp")
      /\ alerts' = [alerts EXCEPT ![c] = @ + 1]
      /\ UNCHANGED <<conv, lead, faults, overlapped>>
  BY DEF SendAlert
<1>2. /\ c \in Convs /\ alerts \in [Convs -> Nat] /\ lead \in [Convs -> Lead]
      /\ alerts[c] = 0 /\ turn[t].created = FALSE
  BY <1>1 DEF TypeOK, SalesInv, TurnSound
<1>3. PICK n \in Tasks :
         /\ turn' = [turn EXCEPT ![t] = n]
         /\ n.conv = turn[t].conv /\ n.created = turn[t].created
         /\ n.row = turn[t].row /\ n.at = "stamp"
  BY <1>1, GoToTyped
<1>4. /\ alerts' \in [Convs -> Nat] /\ alerts'[c] = 1
      /\ \A d \in Convs : d # c => alerts'[d] = alerts[d]
  BY <1>1, <1>2
<1>5. n # Idle  BY <1>3 DEF Idle
<1>6. /\ n.at = "stamp" /\ n.conv = turn[t].conv /\ n.row = turn[t].row
      /\ n.created = FALSE
  BY <1>2, <1>3
<1>7. /\ lead' \in [Convs -> Lead]
      /\ \A d \in Convs : lead'[d].status = lead[d].status
      /\ \A d \in Convs : d # turn[t].conv => lead'[d] = lead[d] /\ alerts'[d] = alerts[d]
      /\ alerts'[turn[t].conv] <= 1
  BY <1>1, <1>2, <1>4
<1>8. /\ turn[t].at \in {"deliver", "stamp"} /\ turn[t].at # "stamp"
      /\ UNCHANGED <<conv, faults, overlapped>>
  BY <1>1
<1> HIDE DEF c
<1> QED  BY <1>3, <1>4, <1>5, <1>6, <1>7, <1>8, DeliveryStep

\* The delivery is stamped.
LEMMA StampDeliveryStep ==
    ASSUME TypeOK, SalesInv, NEW t \in Turns, StampDelivery(t)
    PROVE  TypeOK' /\ SalesInv'
<1> DEFINE c == turn[t].conv
<1>1. /\ turn[t].at = "stamp" /\ turn' = [turn EXCEPT ![t] = Idle]
      /\ lead' = [lead EXCEPT ![c].routed = TRUE]
      /\ UNCHANGED <<conv, alerts, faults, overlapped>>
  BY DEF StampDelivery
<1>2. /\ c \in Convs /\ alerts \in [Convs -> Nat] /\ lead \in [Convs -> Lead]
      /\ alerts[c] <= 1 /\ lead[c] \in Lead
  BY <1>1 DEF TypeOK, SalesInv, AlertedOnce
<1>3. [lead[c] EXCEPT !.routed = TRUE] \in Lead  BY <1>2 DEF Lead
<1>4. /\ lead' \in [Convs -> Lead] /\ lead'[c] = [lead[c] EXCEPT !.routed = TRUE]
      /\ \A d \in Convs : d # c => lead'[d] = lead[d]
  BY <1>1, <1>2, <1>3
<1>5. lead'[c].routed /\ lead'[c].status = lead[c].status  BY <1>2, <1>4 DEF Lead
<1>6. \A d \in Convs : lead'[d].status = lead[d].status  BY <1>4, <1>5
<1> QED  BY <1>1, <1>2, <1>4, <1>5, <1>6, RecordsTyped, DeliveryStep

\* The owner closes a lead: it stays captured, and its delivery goes on.
LEMMA CloseLeadStep ==
    ASSUME TypeOK, SalesInv, NEW c \in Convs, CloseLead(c)
    PROVE  TypeOK' /\ SalesInv'
<1>1. /\ lead[c].status = "open" /\ lead' = [lead EXCEPT ![c].status = "closed"]
      /\ UNCHANGED <<conv, turn, alerts, faults, overlapped>>
  BY DEF CloseLead
<1>2. lead \in [Convs -> Lead] /\ lead[c] \in Lead  BY DEF TypeOK
<1>3. [lead[c] EXCEPT !.status = "closed"] \in Lead  BY <1>2 DEF Lead
<1>4. /\ lead' \in [Convs -> Lead] /\ lead'[c] = [lead[c] EXCEPT !.status = "closed"]
      /\ \A d \in Convs : d # c => lead'[d] = lead[d]
  BY <1>1, <1>2, <1>3
<1>5. lead'[c].status = "closed" /\ lead'[c].routed = lead[c].routed  BY <1>2, <1>4 DEF Lead
<1>6. \A d \in Convs : /\ lead'[d].status # "none" <=> Captured(d)
                       /\ lead'[d].routed = lead[d].routed
  BY <1>1, <1>4, <1>5 DEF Captured
<1>7. TypeOK'  BY <1>1, <1>4 DEF TypeOK
<1>8. \A u \in Turns : TurnSound(turn[u])'
  <2> SUFFICES ASSUME NEW u \in Turns PROVE TurnSound(turn[u])'  OBVIOUS
  <2>1. TurnSound(turn[u]) /\ turn'[u] = turn[u] /\ turn[u].row \in Row  BY <1>1 DEF SalesInv, TypeOK
  <2>2. turn[u].row.captured \in Convs \cup {NoConv}  BY <2>1 DEF Row
  <2>3. turn[u].created \/ turn[u].at \in {"deliver", "stamp"} => turn[u].conv \in Convs
    BY <2>1 DEF TurnSound, TypeOK
  <2>4. /\ Captured(turn[u].conv)' = (lead'[turn[u].conv].status # "none")
        /\ Captured(turn[u].row.captured)' = (lead'[turn[u].row.captured].status # "none")
    BY <2>1 DEF Captured
  <2> QED  BY <2>1, <2>2, <2>3, <2>4, <1>1, <1>6 DEF TurnSound
<1>9. \A d \in Convs : conv[d].captured \in Convs \cup {NoConv}  BY DEF TypeOK, Row
<1>10. CaptureIsReal' /\ MarkedWhileApart'
  BY <1>1, <1>6, <1>9 DEF SalesInv, CaptureIsReal, MarkedWhileApart, Captured
<1>11. AlertedOnce' /\ NoLeadForgotten'
  BY <1>1, <1>6 DEF SalesInv, AlertedOnce, NoLeadForgotten, Captured
<1>12. \A d \in Convs : Uncommitted(d)' = Uncommitted(d)  BY <1>1 DEF Uncommitted
<1> QED  BY <1>1, <1>7, <1>8, <1>10, <1>11, <1>12 DEF SalesInv

\* Every step keeps the invariant, one lemma for each action.
LEMMA StepKeepsInv == TypeOK /\ SalesInv /\ [Next]_vars => TypeOK' /\ SalesInv'
<1> SUFFICES ASSUME TypeOK, SalesInv, [Next]_vars PROVE TypeOK' /\ SalesInv'  OBVIOUS
<1>1. ASSUME NEW t \in Turns, Step(t) PROVE TypeOK' /\ SalesInv'
  <2>1. CASE RunCannedTurn(t)  BY <2>1, RunCannedTurnStep
  <2>2. ASSUME NEW known \in BOOLEAN, NEW answers \in BOOLEAN, NEW phone \in Phones \cup {NoPhone},
               RunTurn(t, known, answers, phone)
        PROVE  TypeOK' /\ SalesInv'
    BY <2>2, RunTurnStep
  <2>3. CASE LookUpLead(t) \/ CheckPhone(t) \/ InsertLead(t)
    BY <2>3, LookUpLeadStep, CheckPhoneStep, InsertLeadStep
  <2>4. CASE CommitTurn(t) \/ SendAlert(t) \/ StampDelivery(t)
    BY <2>4, CommitTurnStep, SendAlertStep, StampDeliveryStep
  <2> QED  BY <1>1, <2>1, <2>2, <2>3, <2>4 DEF Step
<1>2. CASE UNCHANGED vars
  <2>1. /\ conv' = conv /\ lead' = lead /\ turn' = turn /\ alerts' = alerts /\ faults' = faults
        /\ overlapped' = overlapped
    BY <1>2 DEF vars
  <2>2. TypeOK'  BY <2>1 DEF TypeOK
  <2>4. \A u \in Turns : TurnSound(turn[u])'  BY <2>1 DEF SalesInv, TurnSound, Captured
  <2>5. \A d \in Convs : Uncommitted(d)' = Uncommitted(d)  BY <2>1 DEF Uncommitted
  <2>6. CaptureIsReal' /\ AlertedOnce' /\ NoLeadForgotten' /\ MarkedWhileApart'
    BY <2>1 DEF SalesInv, CaptureIsReal, AlertedOnce, NoLeadForgotten, MarkedWhileApart, Captured
  <2> QED  BY <2>1, <2>2, <2>4, <2>5, <2>6 DEF SalesInv
<1> QED  BY <1>1, <1>2, BeginStep, FaultStep, CloseLeadStep DEF Next

-----------------------------------------------------------------------------
(* Theorems *)

\* Types, and everything that the invariant says of rows, turns and leads.
THEOREM SalesCorrect == Spec => [](TypeOK /\ SalesInv)
BY InitInv, StepKeepsInv, PTL DEF Spec

\* The rows, the turns, the leads and the counters keep their types.
THEOREM SalesTypeCorrect == Spec => []TypeOK
BY SalesCorrect, PTL

\* The mark of a captured lead always names a committed one.
THEOREM MarksAreReal == Spec => []CaptureIsReal
<1>1. SalesInv => CaptureIsReal  BY DEF SalesInv
<1> QED  BY <1>1, SalesCorrect, PTL

\* The owner is told of a lead at most once.
THEOREM OwnerAlertedOnce == Spec => []AlertedOnce
<1>1. SalesInv => AlertedOnce  BY DEF SalesInv
<1> QED  BY <1>1, SalesCorrect, PTL

\* Without a fault, every committed lead is routed or on its way to be.
THEOREM LeadsAreRouted == Spec => []NoLeadForgotten
<1>1. SalesInv => NoLeadForgotten  BY DEF SalesInv
<1> QED  BY <1>1, SalesCorrect, PTL

\* No conversation gets past the offer.
THEOREM OfferIsTheEnd == Spec => []FunnelStopsAtOffer
<1>1. SalesInv => FunnelStopsAtOffer  BY DEF SalesInv, OnTheWay, FunnelStopsAtOffer
<1> QED  BY <1>1, SalesCorrect, PTL

\* Without overlaps, a conversation with a lead carries the mark.
THEOREM MarkedUnlessOverlapped == Spec => []MarkedWhileApart
<1>1. SalesInv => MarkedWhileApart  BY DEF SalesInv
<1> QED  BY <1>1, SalesCorrect, PTL

\* Only a commit changes a conversation, and without overlaps to what may follow.
LEMMA ConversationFollows ==
    ASSUME TypeOK, SalesInv, [Next]_vars, NEW c \in Convs \ overlapped, conv'[c] # conv[c]
    PROVE  Follows(conv[c], conv'[c])
<1>1. PICK t \in Turns : CommitTurn(t)
  BY DEF Next, Step, vars, Begin, Start, RunCannedTurn, RunTurn, LookUpLead, CheckPhone,
         InsertLead, SendAlert, StampDelivery, Fault, CloseLead
<1>2. conv' = [conv EXCEPT ![turn[t].conv] = turn[t].row] /\ turn[t].at = "commit"
  BY <1>1 DEF CommitTurn
<1>3. turn[t].conv = c /\ conv'[c] = turn[t].row  BY <1>2 DEF TypeOK
<1>4. TurnSound(turn[t])  BY DEF SalesInv
<1> QED  BY <1>2, <1>3, <1>4, SMTT(30) DEF TurnSound

\* Without overlaps, the committed states follow the table.
THEOREM FunnelFollowsTable == Spec => FunnelMoves
<1> DEFINE Moves == \A c \in Convs \ overlapped : conv'[c] # conv[c] =>
                       conv'[c].state \in AllowedTransitions[conv[c].state]
<1>1. TypeOK /\ SalesInv /\ [Next]_vars => Moves  BY ConversationFollows DEF Follows
<1> QED  BY <1>1, SalesCorrect, PTL DEF Spec, FunnelMoves

\* Without overlaps, no turn loses what an earlier one collected.
THEOREM NoAnswerIsLost == Spec => AnswersKept
<1> DEFINE Kept == \A c \in Convs \ overlapped :
                     /\ conv[c].filled \subseteq conv'[c].filled
                     /\ conv[c].phone # NoPhone => conv'[c].phone = conv[c].phone
                     /\ conv[c].captured # NoConv => conv'[c].captured = conv[c].captured
<1>1. TypeOK /\ SalesInv /\ [Next]_vars => Kept
  <2> SUFFICES ASSUME TypeOK, SalesInv, [Next]_vars, NEW c \in Convs \ overlapped
               PROVE  /\ conv[c].filled \subseteq conv'[c].filled
                      /\ conv[c].phone # NoPhone => conv'[c].phone = conv[c].phone
                      /\ conv[c].captured # NoConv => conv'[c].captured = conv[c].captured
    OBVIOUS
  <2>1. CASE conv'[c] = conv[c]  BY <2>1
  <2>2. CASE conv'[c] # conv[c]  BY <2>2, ConversationFollows DEF Follows
  <2> QED  BY <2>1, <2>2
<1> QED  BY <1>1, SalesCorrect, PTL DEF Spec, AnswersKept

-----------------------------------------------------------------------------
(* SalesGuards: the safeguards of a turn *)

TalkRecord == [at : {"idle", "answer", "commit"}, msg : Message \cup {NoMessage},
               read : GuardRow, row : GuardRow, time : 0 .. MaxTime,
               by : {"turn", "safeguard", "filter"}, reply : Reply, wrote : BOOLEAN]

GuardTypes ==
    /\ saved \in GuardRow
    /\ talk \in TalkRecord
    /\ burst \in 0 .. BurstCap /\ now \in 0 .. MaxTime /\ messages \in Nat
    /\ unshown \subseteq Slots /\ asked \subseteq Slots
    /\ misses \in Nat /\ openings \in Nat
    /\ answered \in Seq(0 .. MaxTime)

\* Times as they are kept: they grow, and none is later than the last.
Grows(s, last) ==
    /\ \A i, j \in 1 .. Len(s) : i <= j => s[i] <= s[j]
    /\ \A i \in 1 .. Len(s) : s[i] <= last

\* Counted from the end, the list of times has an entry for each of the last turns that
\* were answered inside the window that ends at a time.
Remembers(times, turns, at) ==
    \A k \in 0 .. RateMax - 1 :
        (k < Len(turns) /\ at - turns[Len(turns) - k] <= RateWindow)
            => k < Len(times) /\ turns[Len(turns) - k] <= times[Len(times) - k]

\* A turn and the one RateMax turns before it are not in one window.
Spaced(turns) ==
    \A i \in 1 .. Len(turns) : i > RateMax => turns[i] - turns[i - RateMax] > RateWindow

\* The field a row has as asked is the first one missing, while the funnel gathers.
Opened(r) ==
    /\ r.complete => r.filled = Slots
    /\ r.target # NoSlot => r.state \in Gathers /\ r.target = FirstMissingSlot(r.filled)

\* The misses that follow each other are on the row's counter, under the row's field.
MissesCounted ==
    /\ misses < MissMax
    /\ misses = 0 \/ (misses <= saved.misses /\ saved.missed = saved.target /\ saved.target # NoSlot)

KnownAsAsked ==
    /\ saved.filled \subseteq asked \cup unshown
    /\ saved.target \in asked \cup unshown \cup {NoSlot}

SavedInv ==
    /\ Grows(saved.times, now) /\ Grows(answered, now)
    /\ Remembers(saved.times, answered, now)
    /\ Spaced(answered)
    /\ Opened(saved)
    /\ MissesCounted
    /\ KnownAsAsked
    /\ openings <= burst

\* What only the answer of a turn changes is as the row had it.
SameCounters(r, s) ==
    /\ r.state = s.state /\ r.filled = s.filled /\ r.target = s.target /\ r.complete = s.complete
    /\ r.missed = s.missed /\ r.misses = s.misses

\* The turn's list of times once more, with the turn as answered and without.
Underway ==
    /\ talk.read = saved /\ talk.time <= now
    /\ Grows(talk.row.times, talk.time) /\ Grows(answered, talk.time)
    /\ Remembers(talk.row.times, answered, talk.time)
    /\ Remembers(talk.row.times, Append(answered, talk.time), talk.time)
    /\ talk.by = "turn" => Spaced(Append(answered, talk.time))

TimesInv == talk.at # "idle" => Underway

AnswerInv == talk.at = "answer" => talk.by = "turn" /\ SameCounters(talk.row, saved)

CommitInv ==
    talk.at = "commit" =>
        /\ Opened(talk.row)
        /\ talk.row.filled \subseteq saved.filled \cup ({saved.target} \ {NoSlot})
        /\ talk.reply.from = "model" => talk.row.target \in {talk.reply.asks, NoSlot}
        /\ (talk.by # "turn" /\ saved.target # NoSlot) => talk.row.target = saved.target
        /\ talk.by = "filter" => talk.row.missed = saved.missed /\ talk.row.misses = saved.misses
        /\ (talk.by = "turn" /\ ~ talk.wrote /\ saved.target # NoSlot) =>
              /\ talk.row.missed = saved.target /\ talk.row.misses < MissMax
              /\ talk.row.misses = IF saved.target = saved.missed THEN saved.misses + 1 ELSE 1

GuardsInv == GuardTypes /\ SavedInv /\ TimesInv /\ AnswerInv /\ CommitInv

(* Sequences *)

LastOnes(s, c) == SubSeq(s, Len(s) - c + 1, Len(s))

\* The last entries of a sequence, by their places in it.
LEMMA LastOnesFacts ==
    ASSUME NEW T, NEW s \in Seq(T), NEW c \in 0 .. Len(s)
    PROVE  /\ LastOnes(s, c) \in Seq(T)
           /\ Len(LastOnes(s, c)) = c
           /\ \A i \in 1 .. c : LastOnes(s, c)[i] = s[Len(s) - c + i]
<1> DEFINE n == Len(s)
<1>1. n \in Nat /\ c \in Nat /\ c <= n  OBVIOUS
<1>2. Len(LastOnes(s, c)) = c  BY <1>1 DEF LastOnes
<1>3. ASSUME NEW i \in 1 .. c PROVE LastOnes(s, c)[i] = s[n - c + i] /\ LastOnes(s, c)[i] \in T
  <2>1. n - c + i \in 1 .. n /\ i \in 1 .. n - (n - c + 1) + 1  BY <1>1
  <2>2. LastOnes(s, c)[i] = s[(n - c + 1) + i - 1]  BY <1>1, <2>1 DEF LastOnes
  <2>3. (n - c + 1) + i - 1 = n - c + i  BY <1>1
  <2> QED  BY <2>1, <2>2, <2>3
<1>4. LastOnes(s, c) \in Seq(T)  BY <1>1 DEF LastOnes
<1> QED  BY <1>2, <1>3, <1>4

LEMMA FromTheEnd ==
    ASSUME NEW n \in Nat, NEW k \in Nat, k < n
    PROVE  n - k \in 1 .. n
  OBVIOUS

LEMMA OneLonger ==
    ASSUME NEW n \in Nat, NEW k \in Nat, k < n
    PROVE  n - k \in 1 .. n + 1 /\ n + 1 - k \in 1 .. n + 1 /\ n - k <= n + 1 - k
  OBVIOUS

LEMMA PlaceBefore ==
    ASSUME NEW n \in Nat, NEW i \in 1 .. n, NEW j \in 1 .. i
    PROVE  j \in 1 .. n
  OBVIOUS

\* What is later than something inside the window is inside it; what is inside the
\* window that ends later is inside the one that ends earlier.
LEMMA InsideWindow ==
    ASSUME NEW w \in Nat, NEW x \in Nat, NEW y \in Nat, NEW a \in Nat, NEW b \in Nat,
           x <= y, a <= b, b - x <= w
    PROVE  a - y <= w
  OBVIOUS

LEMMA EntryOf ==
    ASSUME NEW T, NEW s \in Seq(T), NEW i \in 1 .. Len(s)
    PROVE  s[i] \in T
  OBVIOUS

\* Appending to a sequence, by places.
LEMMA AppendFacts ==
    ASSUME NEW T, NEW s \in Seq(T), NEW x \in T
    PROVE  /\ Append(s, x) \in Seq(T) /\ Len(Append(s, x)) = Len(s) + 1
           /\ Append(s, x)[Len(s) + 1] = x
           /\ \A i \in 1 .. Len(s) : Append(s, x)[i] = s[i]
  OBVIOUS

\* The numbers up to n are n.
LEMMA CardinalityUpTo ==
    ASSUME NEW n \in Nat
    PROVE  IsFiniteSet(1 .. n) /\ Cardinality(1 .. n) = n
<1>1. CASE n = 0
  <2>1. 1 .. n = {}  BY <1>1
  <2> QED  BY <1>1, <2>1, FS_EmptySet
<1>2. CASE n # 0
  <2>1. 1 \in Int /\ n \in Int /\ ~ (1 > n)  BY <1>2
  <2>2. IsFiniteSet(1 .. n) /\ Cardinality(1 .. n) = IF 1 > n THEN 0 ELSE n - 1 + 1
    BY <2>1, FS_Interval
  <2> QED  BY <2>1, <2>2
<1> QED  BY <1>1, <1>2

\* The times that stay are the last of the list; a time inside the window among the
\* last TimesKept stays, with all that come after it.
LEMMA PrunedTail ==
    ASSUME NEW times \in Seq(0 .. MaxTime), now \in 0 .. MaxTime, MaxTime \in Nat
    PROVE  /\ Cardinality(Young(times)) \in 0 .. Len(times)
           /\ PruneTimes(times) = LastOnes(times, Cardinality(Young(times)))
<1>1. Young(times) \subseteq 1 .. Len(times)  BY DEF Young
<1>2. Len(times) \in Nat  OBVIOUS
<1>3. IsFiniteSet(1 .. Len(times)) /\ Cardinality(1 .. Len(times)) = Len(times)
  BY <1>2, CardinalityUpTo
<1>4. Cardinality(Young(times)) <= Len(times) /\ IsFiniteSet(Young(times))  BY <1>1, <1>3, FS_Subset
<1>5. Cardinality(Young(times)) \in Nat  BY <1>4, FS_CardinalityType
<1> QED  BY <1>2, <1>4, <1>5 DEF PruneTimes, LastOnes

LEMMA YoungStay ==
    ASSUME NEW times \in Seq(0 .. MaxTime), now \in 0 .. MaxTime, MaxTime \in Nat, RateWindow \in Nat,
           TimesKept \in Nat, Grows(times, now), NEW k \in Nat, k < Len(times), k < TimesKept,
           now - times[Len(times) - k] <= RateWindow
    PROVE  k < Cardinality(Young(times))
<1> DEFINE n == Len(times)
<1>0. n \in Nat  OBVIOUS
<1>1. n \in Nat /\ n - k \in 1 .. n  BY <1>0
<1>2. ASSUME NEW i \in n - k .. n PROVE i \in Young(times)
  <2>1. i \in 1 .. n /\ n - i < TimesKept  BY <1>1
  <2>2. times[n - k] <= times[i]
    <3>1. n - k \in 1 .. n /\ i \in 1 .. n /\ n - k <= i  BY <1>0, <1>1, <2>1
    <3> QED  BY <3>1 DEF Grows
  <2>3. times[n - k] \in 0 .. MaxTime /\ times[i] \in 0 .. MaxTime
    <3>1. n - k \in 1 .. n  BY <1>1
    <3> QED  BY <3>1, <2>1, EntryOf
  <2>4. now - times[i] <= RateWindow  BY <2>2, <2>3, SMTT(30)
  <2> QED  BY <2>1, <2>4 DEF Young
<1>3. n - k .. n \subseteq Young(times)  BY <1>2
<1>4. Young(times) \subseteq 1 .. n  BY DEF Young
<1>5. IsFiniteSet(Young(times))
  <2>1. IsFiniteSet(1 .. n)  BY <1>1, FS_Interval
  <2> QED  BY <1>4, <2>1, FS_Subset
<1>6. Cardinality(n - k .. n) = k + 1
  <2>1. n - k \in Int /\ n \in Int /\ n - k <= n /\ n - (n - k) + 1 = k + 1  BY <1>1
  <2>2. PICK a \in Int : a = n - k  BY <2>1
  <2>3. Cardinality(a .. n) = IF a > n THEN 0 ELSE n - a + 1  BY <2>1, FS_Interval
  <2>4. Cardinality(a .. n) = k + 1  BY <2>1, <2>2, <2>3
  <2> QED  BY <2>2, <2>4
<1>7. Cardinality(n - k .. n) <= Cardinality(Young(times))  BY <1>3, <1>5, FS_Subset
<1>8. Cardinality(Young(times)) \in Nat  BY <1>5, FS_CardinalityType
<1> QED  BY <1>6, <1>7, <1>8

\* The list after a look at it still grows and holds times of the row only.
LEMMA PrunedFacts ==
    ASSUME NEW times \in Seq(0 .. MaxTime), now \in 0 .. MaxTime, MaxTime \in Nat, Grows(times, now)
    PROVE  PruneTimes(times) \in Seq(0 .. MaxTime) /\ Grows(PruneTimes(times), now)
<1> DEFINE n == Len(times)
           c == Cardinality(Young(times))
           p == LastOnes(times, c)
<1>1. c \in 0 .. n /\ PruneTimes(times) = p  BY PrunedTail
<1> HIDE DEF c
<1>0. n \in Nat  OBVIOUS
<1>2. p \in Seq(0 .. MaxTime) /\ Len(p) = c /\ (\A i \in 1 .. c : p[i] = times[n - c + i])
  BY <1>1, LastOnesFacts
<1> HIDE DEF p
<1>3. ASSUME NEW i \in 1 .. c PROVE p[i] <= now
  <2>1. n - c + i \in 1 .. n  BY <1>0, <1>1
  <2>2. times[n - c + i] <= now  BY <2>1 DEF Grows
  <2> QED  BY <1>2, <2>2
<1>4. ASSUME NEW i \in 1 .. c, NEW j \in 1 .. c, i <= j PROVE p[i] <= p[j]
  <2>1. n - c + i \in 1 .. n /\ n - c + j \in 1 .. n /\ n - c + i <= n - c + j  BY <1>0, <1>1, <1>4
  <2>2. times[n - c + i] <= times[n - c + j]  BY <2>1 DEF Grows
  <2> QED  BY <1>2, <2>2
<1>5. Grows(p, now)  BY <1>2, <1>3, <1>4 DEF Grows
<1> QED  BY <1>1, <1>2, <1>5

\* Looking at the list forgets no turn that still counts.
LEMMA PrunedRemembers ==
    ASSUME NEW times \in Seq(0 .. MaxTime), NEW turns \in Seq(0 .. MaxTime),
           now \in 0 .. MaxTime, MaxTime \in Nat, RateWindow \in Nat, RateMax \in Nat,
           TimesKept \in Nat, RateMax <= TimesKept,
           Grows(times, now), Remembers(times, turns, now)
    PROVE  Remembers(PruneTimes(times), turns, now)
<1> DEFINE n == Len(times)
           m == Len(turns)
           c == Cardinality(Young(times))
           p == LastOnes(times, c)
<1>1. c \in 0 .. n /\ PruneTimes(times) = p  BY PrunedTail
<1>0. n \in Nat /\ m \in Nat  OBVIOUS
<1>2. p \in Seq(0 .. MaxTime) /\ Len(p) = c /\ (\A i \in 1 .. c : p[i] = times[n - c + i])
  BY <1>1, LastOnesFacts
<1> HIDE DEF p
<1>3. ASSUME NEW k \in 0 .. RateMax - 1, k < m, now - turns[m - k] <= RateWindow
      PROVE  k < c /\ turns[m - k] <= p[c - k]
  <2>1. k < n /\ turns[m - k] <= times[n - k]  BY <1>3 DEF Remembers
  <2>a. k \in Nat /\ k < TimesKept  OBVIOUS
  <2>2. k \in Nat /\ m - k \in 1 .. m /\ n - k \in 1 .. n /\ k < TimesKept
    BY <1>0, <1>3, <2>1, <2>a, FromTheEnd
  <2>3. turns[m - k] \in 0 .. MaxTime /\ times[n - k] \in 0 .. MaxTime  BY <2>2, EntryOf
  <2>4. now - times[n - k] <= RateWindow
    <3>1. PICK x \in 0 .. MaxTime : x = turns[m - k]  BY <2>3
    <3>2. PICK y \in 0 .. MaxTime : y = times[n - k]  BY <2>3
    <3>3. PICK z \in 0 .. MaxTime : z = now  OBVIOUS
    <3>4. z - x <= RateWindow /\ x <= y  BY <1>3, <2>1, <3>1, <3>2, <3>3
    <3>5. x \in Nat /\ y \in Nat /\ z \in Nat /\ z <= z  OBVIOUS
    <3>6. z - y <= RateWindow  BY <3>4, <3>5, InsideWindow
    <3> QED  BY <3>2, <3>3, <3>6
  <2>5. k < c  BY <2>1, <2>2, <2>4, YoungStay
  <2> HIDE DEF c
  <2>6. c - k \in 1 .. c /\ n - c + (c - k) = n - k  BY <1>0, <1>1, <2>2, <2>5
  <2>7. p[c - k] = times[n - k]  BY <1>2, <2>6
  <2> QED  BY <2>1, <2>5, <2>7
<1>4. Remembers(p, turns, now)  BY <1>2, <1>3 DEF Remembers
<1> QED  BY <1>1, <1>4

\* As time goes by fewer turns count.
LEMMA RemembersLater ==
    ASSUME NEW times \in Seq(0 .. MaxTime), NEW turns \in Seq(0 .. MaxTime), MaxTime \in Nat,
           RateWindow \in Nat, RateMax \in Nat, NEW at \in Nat, NEW later \in Nat, at <= later,
           Remembers(times, turns, at)
    PROVE  Remembers(times, turns, later)
<1> DEFINE n == Len(times)
           m == Len(turns)
<1>0. n \in Nat /\ m \in Nat  OBVIOUS
<1>1. ASSUME NEW k \in 0 .. RateMax - 1, k < m, later - turns[m - k] <= RateWindow
      PROVE  k < n /\ turns[m - k] <= times[n - k]
  <2>a. k \in Nat  OBVIOUS
  <2>1. m - k \in 1 .. m  BY <1>0, <1>1, <2>a, FromTheEnd
  <2>2. turns[m - k] \in 0 .. MaxTime  BY <2>1, EntryOf
  <2>3. at - turns[m - k] <= RateWindow
    <3>1. turns[m - k] \in Nat /\ turns[m - k] <= turns[m - k]  BY <2>2
    <3> QED  BY <1>1, <3>1, InsideWindow, SMTT(30)
  <2> QED  BY <1>1, <2>3 DEF Remembers
<1> QED  BY <1>1 DEF Remembers

\* The list grows when its last entry is the latest.
LEMMA GrowsAppend ==
    ASSUME NEW s \in Seq(0 .. MaxTime), MaxTime \in Nat, NEW at \in 0 .. MaxTime, Grows(s, at)
    PROVE  Append(s, at) \in Seq(0 .. MaxTime) /\ Grows(Append(s, at), at)
<1> DEFINE n == Len(s)
           a == Append(s, at)
<1>1. n \in Nat /\ a \in Seq(0 .. MaxTime) /\ Len(a) = n + 1 /\ a[n + 1] = at
      /\ (\A i \in 1 .. n : a[i] = s[i])
  BY AppendFacts
<1> HIDE DEF a
<1>2. ASSUME NEW i \in 1 .. n + 1 PROVE a[i] <= at
  <2>1. CASE i = n + 1  BY <1>1, <2>1
  <2>2. CASE i # n + 1
    <3>1. i \in 1 .. n  BY <1>1, <2>2
    <3> QED  BY <1>1, <3>1 DEF Grows
  <2> QED  BY <2>1, <2>2
<1>3. ASSUME NEW i \in 1 .. n + 1, NEW j \in 1 .. n + 1, i <= j PROVE a[i] <= a[j]
  <2>1. CASE j = n + 1  BY <1>1, <1>2, <2>1
  <2>2. CASE j # n + 1
    <3>0. n \in Nat  BY <1>1
    <3>1. i \in 1 .. n /\ j \in 1 .. n  BY <3>0, <1>3, <2>2
    <3> QED  BY <1>1, <1>3, <3>1 DEF Grows
  <2> QED  BY <2>1, <2>2
<1>4. Grows(a, at)  BY <1>1, <1>2, <1>3 DEF Grows
<1> QED  BY <1>1, <1>4 DEF a

\* The list with the time of a turn at its end remembers the turns, that one included.
LEMMA AppendRemembers ==
    ASSUME NEW times \in Seq(0 .. MaxTime), NEW turns \in Seq(0 .. MaxTime), MaxTime \in Nat,
           RateWindow \in Nat, RateMax \in Nat, NEW at \in 0 .. MaxTime,
           Grows(times, at), Grows(turns, at), Remembers(times, turns, at)
    PROVE  /\ Remembers(Append(times, at), Append(turns, at), at)
           /\ Remembers(Append(times, at), turns, at)
<1> DEFINE n == Len(times)
           m == Len(turns)
           a == Append(times, at)
           b == Append(turns, at)
<1>1. n \in Nat /\ a \in Seq(0 .. MaxTime) /\ Len(a) = n + 1 /\ a[n + 1] = at
      /\ (\A i \in 1 .. n : a[i] = times[i])
  BY AppendFacts
<1>2. m \in Nat /\ b \in Seq(0 .. MaxTime) /\ Len(b) = m + 1 /\ b[m + 1] = at
      /\ (\A i \in 1 .. m : b[i] = turns[i])
  BY AppendFacts
<1>3. Grows(a, at)  BY GrowsAppend
<1> HIDE DEF a, b
<1>4. ASSUME NEW k \in 0 .. RateMax - 1, k < m + 1, at - b[m + 1 - k] <= RateWindow
      PROVE  k < n + 1 /\ b[m + 1 - k] <= a[n + 1 - k]
  <2>1. CASE k = 0  BY <1>1, <1>2, <2>1
  <2>2. CASE k # 0
    <3>1. PICK h \in 0 .. RateMax - 1 : h = k - 1  BY <2>2
    <3>2. h \in Nat /\ h < m /\ m + 1 - k = m - h /\ n + 1 - k = n - h  BY <1>1, <1>2, <1>4, <3>1
    <3>3. m - h \in 1 .. m  BY <1>2, <3>2, FromTheEnd
    <3>4. b[m + 1 - k] = turns[m - h]  BY <1>2, <3>2, <3>3
    <3>5. at - turns[m - h] <= RateWindow  BY <1>4, <3>4
    <3>6. h < n /\ turns[m - h] <= times[n - h]  BY <3>2, <3>5 DEF Remembers
    <3>7. n - h \in 1 .. n  BY <1>1, <3>2, <3>6, FromTheEnd
    <3>8. a[n + 1 - k] = times[n - h]  BY <1>1, <3>2, <3>7
    <3> QED  BY <1>1, <3>1, <3>2, <3>4, <3>6, <3>8
  <2> QED  BY <2>1, <2>2
<1>5. ASSUME NEW k \in 0 .. RateMax - 1, k < m, at - turns[m - k] <= RateWindow
      PROVE  k < n + 1 /\ turns[m - k] <= a[n + 1 - k]
  <2>1. k \in Nat  OBVIOUS
  <2>2. k < n /\ turns[m - k] <= times[n - k]  BY <1>5 DEF Remembers
  <2>3. n - k \in 1 .. n /\ m - k \in 1 .. m  BY <1>1, <1>2, <1>5, <2>1, <2>2, FromTheEnd
  <2>4. a[n - k] = times[n - k]  BY <1>1, <2>3
  <2>5. n - k \in 1 .. n + 1 /\ n + 1 - k \in 1 .. n + 1 /\ n - k <= n + 1 - k
    <3>1. n \in Nat  BY <1>1
    <3> QED  BY <2>1, <2>2, <3>1, OneLonger
  <2>6. a[n - k] <= a[n + 1 - k]  BY <1>1, <1>3, <2>5 DEF Grows
  <2>7. turns[m - k] \in 0 .. MaxTime /\ a[n - k] \in 0 .. MaxTime /\ a[n + 1 - k] \in 0 .. MaxTime
    BY <1>1, <2>3, <2>5, EntryOf
  <2>8. PICK x \in 0 .. MaxTime : x = turns[m - k]  BY <2>7
  <2>9. PICK y \in 0 .. MaxTime : y = a[n - k]  BY <2>7
  <2>10. PICK z \in 0 .. MaxTime : z = a[n + 1 - k]  BY <2>7
  <2>11. x <= y /\ y <= z  BY <2>2, <2>4, <2>6, <2>8, <2>9, <2>10
  <2>12. x <= z  BY <2>11
  <2> QED  BY <1>1, <2>1, <2>2, <2>8, <2>10, <2>12
<1>6. Remembers(a, b, at)  BY <1>1, <1>2, <1>4, SMTT(30) DEF Remembers
<1>7. Remembers(a, turns, at)
  <2>1. SUFFICES ASSUME NEW k \in 0 .. RateMax - 1, k < m, at - turns[m - k] <= RateWindow
                 PROVE  k < Len(a) /\ turns[m - k] <= a[Len(a) - k]
    BY DEF Remembers
  <2>2. k < n + 1 /\ turns[m - k] <= a[n + 1 - k]  BY <1>5, <2>1
  <2> QED  BY <1>1, <2>2
<1> QED  BY <1>6, <1>7 DEF a, b

\* A turn that the limit lets pass is not in one window with the one RateMax before it.
LEMMA PassesSpaced ==
    ASSUME NEW times \in Seq(0 .. MaxTime), NEW turns \in Seq(0 .. MaxTime), MaxTime \in Nat,
           RateWindow \in Nat, RateMax \in Nat \ {0}, NEW at \in 0 .. MaxTime,
           Remembers(times, turns, at), Len(times) + 1 <= RateMax, Spaced(turns)
    PROVE  Spaced(Append(turns, at))
<1> DEFINE n == Len(times)
           m == Len(turns)
           b == Append(turns, at)
<1>0. n \in Nat  OBVIOUS
<1>1. m \in Nat /\ b \in Seq(0 .. MaxTime) /\ Len(b) = m + 1 /\ b[m + 1] = at
      /\ (\A i \in 1 .. m : b[i] = turns[i])
  BY AppendFacts
<1> HIDE DEF b
<1>2. ASSUME NEW i \in 1 .. m + 1, i > RateMax PROVE b[i] - b[i - RateMax] > RateWindow
  <2>0. i \in Nat /\ i - RateMax \in 1 .. m  BY <1>1, <1>2
  <2>1. CASE i = m + 1
    <3>0. RateMax \in Nat /\ RateMax >= 1  OBVIOUS
    <3>1. PICK k \in 0 .. RateMax - 1 : k = RateMax - 1  BY <3>0
    <3>2. k < m /\ m - k = i - RateMax  BY <1>1, <1>2, <2>1, <3>0, <3>1
    <3>a. ~ (k < n)
      <4>1. n + 1 <= RateMax  OBVIOUS
      <4> QED  BY <1>0, <3>0, <3>1, <4>1
    <3>3. ~ (at - turns[m - k] <= RateWindow)  BY <3>2, <3>a DEF Remembers
    <3>4. b[i - RateMax] = turns[m - k]  BY <1>1, <2>0, <3>2
    <3>5. turns[m - k] \in 0 .. MaxTime  BY <2>0, <3>2, EntryOf
    <3>6. at - turns[m - k] > RateWindow
      <4>1. PICK x \in 0 .. MaxTime : x = turns[m - k]  BY <3>5
      <4>2. ~ (at - x <= RateWindow)  BY <3>3, <4>1
      <4>3. at - x > RateWindow  BY <4>2
      <4> QED  BY <4>1, <4>3
    <3> QED  BY <1>1, <2>1, <3>4, <3>6
  <2>2. CASE i # m + 1
    <3>1. i \in 1 .. m  BY <1>1, <2>2
    <3>2. turns[i] - turns[i - RateMax] > RateWindow  BY <1>2, <3>1 DEF Spaced
    <3> QED  BY <1>1, <2>0, <3>1, <3>2
  <2> QED  BY <2>1, <2>2
<1>3. Spaced(b)  BY <1>1, <1>2 DEF Spaced
<1> QED  BY <1>3 DEF b

\* In a growing list whose turns are spaced, no window holds more turns than the limit:
\* they are all among the last RateMax before its end.
LEMMA SpacedWindow ==
    ASSUME NEW turns \in Seq(0 .. MaxTime), MaxTime \in Nat, RateWindow \in Nat, RateMax \in Nat \ {0},
           NEW last, Grows(turns, last), Spaced(turns), NEW i \in 1 .. Len(turns)
    PROVE  Cardinality({j \in 1 .. i : turns[i] - turns[j] <= RateWindow}) <= RateMax
<1> DEFINE T == {j \in 1 .. i : turns[i] - turns[j] <= RateWindow}
<1>0. i \in Nat /\ Len(turns) \in Nat /\ i <= Len(turns) /\ RateMax \in Nat /\ RateMax >= 1  OBVIOUS
<1>1. IsFiniteSet(1 .. i) /\ Cardinality(1 .. i) = i  BY <1>0, CardinalityUpTo
<1>2. T \subseteq 1 .. i  OBVIOUS
<1>3. CASE i <= RateMax
  <2>1. Cardinality(T) <= i /\ IsFiniteSet(T)  BY <1>1, <1>2, FS_Subset
  <2>2. Cardinality(T) \in Nat  BY <2>1, FS_CardinalityType
  <2> QED  BY <1>0, <1>3, <2>1, <2>2
<1>4. CASE i > RateMax
  <2>1. PICK a \in Nat : a = i - RateMax  BY <1>0, <1>4
  <2>2. ASSUME NEW j \in T, j <= a PROVE FALSE
    <3>a. j \in 1 .. i /\ a \in 1 .. i  BY <1>0, <1>2, <1>4, <2>1, <2>2
    <3>1. j \in 1 .. Len(turns) /\ a \in 1 .. Len(turns) /\ i \in 1 .. Len(turns)
      BY <1>0, <3>a, PlaceBefore
    <3>2. turns[j] <= turns[a]  BY <2>2, <3>1 DEF Grows
    <3>3. turns[i] - turns[a] > RateWindow  BY <1>4, <2>1 DEF Spaced
    <3>4. turns[i] \in 0 .. MaxTime /\ turns[j] \in 0 .. MaxTime /\ turns[a] \in 0 .. MaxTime
      BY <3>1, EntryOf
    <3>5. PICK x \in 0 .. MaxTime : x = turns[i]  BY <3>4
    <3>6. PICK y \in 0 .. MaxTime : y = turns[j]  BY <3>4
    <3>7. PICK z \in 0 .. MaxTime : z = turns[a]  BY <3>4
    <3>8. x - y <= RateWindow  BY <3>5, <3>6
    <3>9. y <= z /\ x - z > RateWindow  BY <3>2, <3>3, <3>5, <3>6, <3>7
    <3> QED  BY <3>8, <3>9
  <2>3. T \subseteq a + 1 .. i
    <3>1. ASSUME NEW j \in T PROVE j \in a + 1 .. i
      <4>1. j \in 1 .. i /\ ~ (j <= a)  BY <1>2, <2>2
      <4> QED  BY <1>0, <2>1, <4>1
    <3> QED  BY <3>1
  <2>4. PICK b \in Int : b = a + 1  BY <2>1
  <2>5. IsFiniteSet(b .. i) /\ Cardinality(b .. i) = IF b > i THEN 0 ELSE i - b + 1
    <3>1. i \in Int  BY <1>0
    <3> QED  BY <3>1, FS_Interval
  <2>6. Cardinality(b .. i) = RateMax
    <3>1. ~ (b > i) /\ i - b + 1 = RateMax  BY <1>0, <1>4, <2>1, <2>4
    <3> QED  BY <2>5, <3>1
  <2>7. T \subseteq b .. i  BY <2>3, <2>4
  <2>8. Cardinality(T) <= Cardinality(b .. i)  BY <2>5, <2>7, FS_Subset
  <2> QED  BY <2>6, <2>8
<1> QED  BY <1>0, <1>3, <1>4

\* What the limit lets pass keeps the rate.
LEMMA SpacedKeepsRate ==
    ASSUME GuardTypes, SavedInv, GuardsAssumption
    PROVE  RateKept
<1>1. answered \in Seq(0 .. MaxTime) /\ MaxTime \in Nat /\ RateWindow \in Nat /\ RateMax \in Nat \ {0}
  BY DEF GuardTypes, GuardsAssumption
<1>2. Grows(answered, now) /\ Spaced(answered)  BY DEF SavedInv
<1>3. ASSUME NEW i \in 1 .. Len(answered)
      PROVE  Cardinality({j \in 1 .. i : answered[i] - answered[j] <= RateWindow}) <= RateMax
  BY <1>1, <1>2, SpacedWindow
<1> QED  BY <1>3 DEF RateKept

(* What a turn of the safeguards computes *)

\* The first missing field is missing.
LEMMA FirstMissingSlotIsMissing ==
    ASSUME NEW filled \in SUBSET Slots, Asked \in Nat
    PROVE  IF filled = Slots THEN FirstMissingSlot(filled) = NoSlot
           ELSE FirstMissingSlot(filled) \in Slots \ filled /\ FirstMissingSlot(filled) # NoSlot
<1>1. CASE filled = Slots  BY <1>1 DEF FirstMissingSlot
<1>2. CASE filled # Slots
  <2>0. Slots \in SUBSET Nat /\ NoSlot \notin Slots  BY DEF Slots, NoSlot
  <2>1. Slots \ filled # {} /\ Slots \ filled \in SUBSET Nat  BY <1>2, <2>0
  <2>2. \E f \in Slots \ filled : \A g \in Slots \ filled : f <= g  BY <2>1, LeastElement
  <2>3. FirstMissingSlot(filled) = CHOOSE f \in Slots \ filled : \A g \in Slots \ filled : f <= g
    BY <1>2 DEF FirstMissingSlot
  <2>4. FirstMissingSlot(filled) \in Slots \ filled  BY <2>2, <2>3
  <2> QED  BY <1>2, <2>0, <2>4
<1> QED  BY <1>1, <1>2

LEMMA GatheringStays ==
    ASSUME NEW s \in Gathers, NEW known \in BOOLEAN
    PROVE  TransitionState(<< >>, s, known, FALSE, {}) \in Gathers
<1> DEFINE next == ComputeCandidate(s, known, FALSE, {})
<1>1. CASE FallsBack(s, known, {})
  <2>1. next = "fallback"  BY <1>1 DEF ComputeCandidate
  <2> QED  BY <2>1 DEF TransitionState, Gathers
<1>2. CASE ~ FallsBack(s, known, {})
  <2>1. next = Progress(s, {})  BY <1>2 DEF ComputeCandidate
  <2>2. Progress(s, {}) \in Gathers  BY DEF Progress, Gathers
  <2> QED  BY <2>1, <2>2 DEF TransitionState, Gathers
<1> QED  BY <1>1, <1>2

\* While a field is missing a conversation that gathers goes on gathering.
LEMMA FunnelStepFacts ==
    ASSUME NEW r \in GuardRow, NEW intent \in Intents
    PROVE  /\ FunnelStep(r, intent) \in States
           /\ (r.state \in Gathers /\ ~ Completed(r)) => FunnelStep(r, intent) \in Gathers
<1> DEFINE flags == IF Completed(r) THEN {"qualification_complete"} ELSE {}
           known == intent # "unknown"
<1>1. r.state \in States /\ flags \in SUBSET Flags /\ known \in BOOLEAN  BY DEF GuardRow, Flags
<1>2. FunnelStep(r, intent) = TransitionState(<< >>, r.state, known, FALSE, flags)  BY DEF FunnelStep
<1>3. FunnelStep(r, intent) \in States
  <2>1. TransitionState(<< >>, r.state, known, FALSE, flags) \in AllowedTransitions[r.state]
    BY <1>1, MovesAreAllowed
  <2>2. AllowedTransitions[r.state] \subseteq States  BY <1>1, AllowedAreStates
  <2> QED  BY <1>2, <2>1, <2>2
<1>4. ASSUME r.state \in Gathers, ~ Completed(r) PROVE FunnelStep(r, intent) \in Gathers
  <2>1. flags = {}  BY <1>4
  <2>2. TransitionState(<< >>, r.state, known, FALSE, {}) \in Gathers  BY <1>1, <1>4, GatheringStays
  <2> QED  BY <1>2, <2>1, <2>2
<1> QED  BY <1>3, <1>4

\* The planner asks for the first missing field, or for none.
LEMMA PlanFacts ==
    ASSUME NEW state \in States, NEW filled \in SUBSET Slots, NEW intent, Asked \in Nat
    PROVE  /\ PlanNextSlot(state, filled, intent).target \in Slots \cup {NoSlot}
           /\ PlanNextSlot(state, filled, intent).target # NoSlot =>
                 state \in Gathers /\ PlanNextSlot(state, filled, intent).target = FirstMissingSlot(filled)
           /\ state \in Gathers => PlanNextSlot(state, filled, intent).target = FirstMissingSlot(filled)
<1> DEFINE missing == IF state \in Gathers THEN FirstMissingSlot(filled) ELSE NoSlot
<1>1. PlanNextSlot(state, filled, intent).target = missing  BY DEF PlanNextSlot
<1>2. FirstMissingSlot(filled) \in Slots \cup {NoSlot}  BY FirstMissingSlotIsMissing
<1> QED  BY <1>1, <1>2

\* The reply asks what the planner chose, in the states in which it chooses.
LEMMA StrategyFacts ==
    ASSUME NEW state \in States, NEW intent, NEW plan, plan.target \in Slots \cup {NoSlot},
           plan.target # NoSlot => state \in Gathers
    PROVE  /\ PlanResponseStrategy(state, intent, plan).mode \in Modes
           /\ PlanResponseStrategy(state, intent, plan).asks \in Slots \cup {NoSlot}
           /\ plan.target \in {PlanResponseStrategy(state, intent, plan).asks, NoSlot}
<1>1. CASE state \in {"completed", "offer", "objection_handling", "closing"}
  <2>1. plan.target = NoSlot  BY <1>1 DEF Gathers
  <2>2. CASE state = "completed"  BY <2>1, <2>2 DEF PlanResponseStrategy, Modes
  <2>3. CASE state = "offer"  BY <2>1, <2>3 DEF PlanResponseStrategy, Modes
  <2>4. CASE state = "objection_handling"  BY <2>1, <2>4 DEF PlanResponseStrategy, Modes
  <2>5. CASE state = "closing"  BY <2>1, <2>5 DEF PlanResponseStrategy, Modes
  <2> QED  BY <1>1, <2>2, <2>3, <2>4, <2>5
<1>2. CASE state = "fallback"  BY <1>2 DEF PlanResponseStrategy, Modes
<1>3. CASE state = "start"  BY <1>3 DEF PlanResponseStrategy, Modes
<1>4. CASE state = "qualification"  BY <1>4 DEF PlanResponseStrategy, Modes
<1>5. CASE state = "clarification"  BY <1>5 DEF PlanResponseStrategy, Modes
<1> QED  BY <1>1, <1>2, <1>3, <1>4, <1>5 DEF States

\* A step of the funnel leaves the counters alone, keeps the open question open, and the
\* field the row has as asked is the one its reply asks for.
StepKeeps(r, t) ==
    /\ t.filled = r.filled /\ t.times = r.times /\ t.missed = r.missed /\ t.misses = r.misses
    /\ (Opened(r) /\ r.target # NoSlot) => t.target = r.target

LEMMA PipelineFacts ==
    ASSUME NEW r \in GuardRow, NEW intent \in Intents, Asked \in Nat,
           r.complete => r.filled = Slots
    PROVE  /\ PlannerTransitionPipeline(r, intent).row \in GuardRow
           /\ StepKeeps(r, PlannerTransitionPipeline(r, intent).row)
           /\ Opened(PlannerTransitionPipeline(r, intent).row)
           /\ PlannerTransitionPipeline(r, intent).strategy.mode \in Modes
           /\ PlannerTransitionPipeline(r, intent).strategy.asks \in Slots \cup {NoSlot}
           /\ PlannerTransitionPipeline(r, intent).row.target
                 \in {PlannerTransitionPipeline(r, intent).strategy.asks, NoSlot}
<1>1. PICK next \in States : next = FunnelStep(r, intent)
                             /\ (r.state \in Gathers /\ ~ Completed(r) => next \in Gathers)
  BY FunnelStepFacts
<1>2. PICK plan : plan = PlanNextSlot(next, r.filled, intent)  OBVIOUS
<1>3. r.filled \in SUBSET Slots  BY DEF GuardRow
<1>4. /\ plan.target \in Slots \cup {NoSlot}
      /\ plan.target # NoSlot => next \in Gathers /\ plan.target = FirstMissingSlot(r.filled)
      /\ next \in Gathers => plan.target = FirstMissingSlot(r.filled)
  BY <1>2, <1>3, PlanFacts
<1>5. PICK done \in BOOLEAN : done = Completed(r)  BY DEF Completed, GuardRow
<1> DEFINE t == [r EXCEPT !.state = next, !.complete = done, !.target = plan.target]
<1>6. PlannerTransitionPipeline(r, intent) = [row |-> t, strategy |-> PlanResponseStrategy(next, intent, plan)]
  BY <1>1, <1>2, <1>5 DEF PlannerTransitionPipeline
<1>7. t \in GuardRow  BY <1>1, <1>4, <1>5 DEF GuardRow
<1>8. /\ t.filled = r.filled /\ t.times = r.times /\ t.missed = r.missed /\ t.misses = r.misses
      /\ t.state = next /\ t.complete = done /\ t.target = plan.target
  BY DEF GuardRow
<1> HIDE DEF t
<1>9. Opened(t)
  <2>1. t.complete => t.filled = Slots  BY <1>5, <1>8 DEF Completed
  <2> QED  BY <1>4, <1>8, <2>1 DEF Opened
<1>10. ASSUME Opened(r), r.target # NoSlot PROVE t.target = r.target
  <2>1. r.state \in Gathers /\ r.target = FirstMissingSlot(r.filled)  BY <1>10 DEF Opened
  <2>2. r.filled # Slots  BY <1>3, <1>10, <2>1, FirstMissingSlotIsMissing
  <2>3. ~ Completed(r)  BY <2>2 DEF Completed
  <2> QED  BY <1>1, <1>4, <1>8, <2>1, <2>3
<1>11. StepKeeps(r, t)  BY <1>8, <1>10 DEF StepKeeps
<1>12. /\ PlanResponseStrategy(next, intent, plan).mode \in Modes
       /\ PlanResponseStrategy(next, intent, plan).asks \in Slots \cup {NoSlot}
       /\ plan.target \in {PlanResponseStrategy(next, intent, plan).asks, NoSlot}
  <2>1. plan.target # NoSlot => next \in Gathers  BY <1>4
  <2> QED  BY <1>1, <1>4, <2>1, StrategyFacts
<1> QED  BY <1>6, <1>7, <1>8, <1>9, <1>11, <1>12

\* The early safeguards touch the times and the last text only; what they let pass is
\* within the rate.
LEMMA EarlyFacts ==
    ASSUME NEW r \in GuardRow, NEW msg \in Message, now \in 0 .. MaxTime, MaxTime \in Nat,
           Grows(r.times, now), RateMax \in Nat
    PROVE  /\ EvaluateEarlyTurnGuards(r, msg).row \in GuardRow
           /\ EvaluateEarlyTurnGuards(r, msg).row.times = Append(PruneTimes(r.times), now)
           /\ SameCounters(EvaluateEarlyTurnGuards(r, msg).row, r)
           /\ ~ EvaluateEarlyTurnGuards(r, msg).stops =>
                 Len(EvaluateEarlyTurnGuards(r, msg).row.times) <= RateMax
<1> DEFINE timed == WithTime(r)
           full == WithStreak(timed, msg)
<1>1. r.times \in Seq(0 .. MaxTime)  BY DEF GuardRow
<1>2. PICK p \in Seq(0 .. MaxTime) : p = PruneTimes(r.times)  BY <1>1, PrunedFacts
<1>a. Append(p, now) \in Seq(0 .. MaxTime)  BY AppendFacts
<1>3. PICK a \in Seq(0 .. MaxTime) : a = Append(p, now)  BY <1>a
<1>4. timed = [r EXCEPT !.times = a]  BY <1>2, <1>3 DEF WithTime
<1>5. timed \in GuardRow /\ timed.times = a /\ SameCounters(timed, r)
  BY <1>4 DEF GuardRow, SameCounters
<1> HIDE DEF timed
<1>6. PICK n \in Nat : n = (IF Comparable(msg) /\ msg = timed.last THEN timed.streak + 1 ELSE 1)
  BY <1>5 DEF GuardRow
<1>7. full = [timed EXCEPT !.streak = n, !.last = msg]  BY <1>6 DEF WithStreak
<1>8. full \in GuardRow /\ full.times = a /\ SameCounters(full, timed)
  BY <1>5, <1>7 DEF GuardRow, SameCounters
<1> HIDE DEF full
<1>9. CASE TooFast(timed)
  <2>1. EvaluateEarlyTurnGuards(r, msg) = [row |-> timed, stops |-> TRUE]
    BY <1>9 DEF EvaluateEarlyTurnGuards, timed
  <2> QED  BY <1>2, <1>3, <1>5, <2>1
<1>10. CASE ~ TooFast(timed)
  <2>1. EvaluateEarlyTurnGuards(r, msg).row = full  BY <1>10 DEF EvaluateEarlyTurnGuards, timed, full
  <2>2. SameCounters(full, r)  BY <1>5, <1>8 DEF SameCounters
  <2>3. ~ (Len(a) > RateMax)  BY <1>5, <1>10 DEF TooFast
  <2>4. Len(a) \in Nat  OBVIOUS
  <2>5. Len(a) <= RateMax  BY <2>3, <2>4
  <2> QED  BY <1>2, <1>3, <1>8, <2>1, <2>2, <2>5
<1> QED  BY <1>9, <1>10

\* The safeguards after the search for answers count a miss under the field that was
\* asked for, and stop the turn that reaches the limit.
PostLeaves(r, wrote, p) ==
    /\ p.row \in GuardRow
    /\ p.row.state = r.state /\ p.row.filled = r.filled /\ p.row.target = r.target
    /\ p.row.complete = r.complete /\ p.row.times = r.times
    /\ p.stops \in BOOLEAN /\ (p.stops => ~ wrote)
    /\ (~ p.stops /\ ~ wrote /\ r.target # NoSlot) =>
          /\ p.row.missed = r.target /\ p.row.misses < MissMax
          /\ p.row.misses = IF r.target = r.missed THEN r.misses + 1 ELSE 1

LEMMA PostFacts ==
    ASSUME NEW r \in GuardRow, NEW msg, NEW wrote \in BOOLEAN, MissMax \in Nat \ {0}
    PROVE  PostLeaves(r, wrote, EvaluatePostExtractionGuards(r, msg, wrote))
<1>p. PICK p : p = EvaluatePostExtractionGuards(r, msg, wrote)  OBVIOUS
<1>q. SUFFICES PostLeaves(r, wrote, p)  BY <1>p
<1>0. r.target \in Slots \cup {NoSlot} /\ r.misses \in Nat /\ r.vague \in Nat /\ NoSlot \in Slots \cup {NoSlot}
  BY DEF GuardRow
<1>1. PICK vague \in Nat : vague = (IF IsVague(msg) THEN r.vague + 1 ELSE 0)  BY <1>0
<1>2. PICK missed_ \in Nat : missed_ = (IF r.target = r.missed THEN r.misses + 1 ELSE 1)  BY <1>0
<1> DEFINE counted == [r EXCEPT !.vague = vague, !.misses = missed_, !.missed = r.target]
           met == [r EXCEPT !.vague = 0, !.misses = 0, !.missed = NoSlot]
           taken == [counted EXCEPT !.misses = 0, !.missed = NoSlot]
<1>3. /\ counted \in GuardRow /\ counted.state = r.state /\ counted.filled = r.filled
      /\ counted.target = r.target /\ counted.complete = r.complete /\ counted.times = r.times
      /\ counted.missed = r.target /\ counted.misses = missed_
  BY <1>0 DEF GuardRow
<1>4. /\ met \in GuardRow /\ met.state = r.state /\ met.filled = r.filled
      /\ met.target = r.target /\ met.complete = r.complete /\ met.times = r.times
  BY <1>0 DEF GuardRow
<1> HIDE DEF counted
<1>5. /\ taken \in GuardRow /\ taken.state = r.state /\ taken.filled = r.filled
      /\ taken.target = r.target /\ taken.complete = r.complete /\ taken.times = r.times
  BY <1>0, <1>3 DEF GuardRow
<1> HIDE DEF met, taken
<1>6. p = IF wrote THEN [row |-> met, stops |-> FALSE]
          ELSE IF r.target = NoSlot THEN [row |-> r, stops |-> FALSE]
          ELSE IF vague >= MissMax THEN [row |-> counted, stops |-> TRUE]
          ELSE IF missed_ >= MissMax THEN [row |-> taken, stops |-> TRUE]
          ELSE [row |-> counted, stops |-> FALSE]
  BY <1>p, <1>1, <1>2 DEF EvaluatePostExtractionGuards, met, counted, taken
<1>7. CASE wrote  BY <1>4, <1>6, <1>7 DEF PostLeaves
<1>8. CASE ~ wrote /\ r.target = NoSlot  BY <1>6, <1>8 DEF PostLeaves
<1>9. CASE ~ wrote /\ r.target # NoSlot /\ vague >= MissMax  BY <1>3, <1>6, <1>9 DEF PostLeaves
<1>10. CASE ~ wrote /\ r.target # NoSlot /\ ~ (vague >= MissMax) /\ missed_ >= MissMax
  BY <1>5, <1>6, <1>10 DEF PostLeaves
<1>11. CASE ~ wrote /\ r.target # NoSlot /\ ~ (vague >= MissMax) /\ ~ (missed_ >= MissMax)
  <2>1. missed_ < MissMax  BY <1>11
  <2> QED  BY <1>2, <1>3, <1>6, <1>11, <2>1 DEF PostLeaves
<1> QED  BY <1>7, <1>8, <1>9, <1>10, <1>11

-----------------------------------------------------------------------------
(* The steps of the safeguards *)

LEMMA FirstRowTyped == GuardsAssumption => FirstRow \in GuardRow /\ TurnIdle \in TalkRecord
<1> SUFFICES ASSUME GuardsAssumption PROVE FirstRow \in GuardRow /\ TurnIdle \in TalkRecord  OBVIOUS
<1>1. "start" \in States /\ << >> \in Seq(0 .. MaxTime)  BY DEF States
<1>2. FirstRow \in GuardRow  BY <1>1 DEF FirstRow, GuardRow
<1>3. NoReply \in Reply  BY DEF NoReply, Reply, Modes, Origins
<1>4. 0 \in 0 .. MaxTime  BY DEF GuardsAssumption
<1>5. TurnIdle \in TalkRecord  BY <1>2, <1>3, <1>4 DEF TurnIdle, TalkRecord
<1> QED  BY <1>2, <1>5

LEMMA GuardsInitInv == GuardsAssumption /\ GuardsInit => GuardsInv
<1> SUFFICES ASSUME GuardsAssumption, GuardsInit PROVE GuardsInv  OBVIOUS
<1>0. saved = FirstRow /\ talk = TurnIdle /\ burst = 0 /\ now = 0 /\ messages = 0 /\ unshown = {}
      /\ asked = {} /\ misses = 0 /\ answered = << >> /\ openings = 0
  BY DEF GuardsInit
<1>1. GuardTypes
  <2>1. saved \in GuardRow /\ talk \in TalkRecord  BY <1>0, FirstRowTyped
  <2>2. burst \in 0 .. BurstCap /\ now \in 0 .. MaxTime  BY <1>0 DEF GuardsAssumption
  <2>3. answered \in Seq(0 .. MaxTime)  BY <1>0
  <2> QED  BY <1>0, <2>1, <2>2, <2>3 DEF GuardTypes
<1>2. saved.times = << >> /\ saved.target = NoSlot /\ ~ saved.complete /\ saved.filled = {}
  BY <1>0 DEF FirstRow
<1>3. \A last : Grows(<< >>, last)  BY DEF Grows
<1>4. Remembers(<< >>, << >>, 0) /\ Spaced(<< >>)
  <2>1. Len(<< >>) = 0  OBVIOUS
  <2>2. ASSUME NEW k \in 0 .. RateMax - 1 PROVE ~ (k < Len(<< >>))  BY <2>1
  <2> QED  BY <2>1, <2>2 DEF Remembers, Spaced
<1>5. Opened(saved) /\ KnownAsAsked  BY <1>2 DEF Opened, KnownAsAsked
<1>6. MissesCounted  BY <1>0 DEF MissesCounted, GuardsAssumption
<1>7. SavedInv  BY <1>0, <1>2, <1>3, <1>4, <1>5, <1>6 DEF SavedInv
<1>8. talk.at = "idle"  BY <1>0 DEF TurnIdle
<1> QED  BY <1>1, <1>7, <1>8 DEF GuardsInv, TimesInv, AnswerInv, CommitInv

\* As time goes by a list that grows still does.
LEMMA GrowsLater ==
    ASSUME NEW s \in Seq(0 .. MaxTime), MaxTime \in Nat, NEW at \in Nat, NEW later \in Nat,
           at <= later, Grows(s, at)
    PROVE  Grows(s, later)
<1>1. ASSUME NEW i \in 1 .. Len(s) PROVE s[i] <= later
  <2>1. s[i] \in 0 .. MaxTime /\ s[i] <= at  BY EntryOf DEF Grows
  <2>2. PICK x \in 0 .. MaxTime : x = s[i]  BY <2>1
  <2>3. x <= at  BY <2>1, <2>2
  <2>4. x <= later  BY <2>3
  <2> QED  BY <2>2, <2>4
<1> QED  BY <1>1 DEF Grows

LEMMA TickInv ==
    ASSUME GuardsAssumption, GuardsInv, Tick
    PROVE  GuardsInv'
<1>0. GuardTypes /\ SavedInv /\ TimesInv /\ AnswerInv /\ CommitInv  BY DEF GuardsInv
<1>1. UNCHANGED <<saved, talk, messages, unshown, asked, misses, answered>>  BY DEF Tick
<1>2. now < MaxTime /\ now' = now + 1 /\ burst' = 0 /\ openings' = 0  BY DEF Tick
<1>3. MaxTime \in Nat /\ RateWindow \in Nat /\ RateMax \in Nat /\ BurstCap \in Nat
  BY DEF GuardsAssumption
<1>4. now \in 0 .. MaxTime /\ answered \in Seq(0 .. MaxTime) /\ saved \in GuardRow /\ talk \in TalkRecord
  BY <1>0 DEF GuardTypes
<1>5. now \in Nat /\ now' \in 0 .. MaxTime /\ now' \in Nat /\ now <= now' /\ 0 \in 0 .. BurstCap
  BY <1>2, <1>3, <1>4
<1>6. GuardTypes'  BY <1>0, <1>1, <1>2, <1>5 DEF GuardTypes
<1>7. saved.times \in Seq(0 .. MaxTime)  BY <1>4 DEF GuardRow
<1>8. PICK n \in Nat : n = now'  BY <1>5
<1>9. Grows(saved.times, n) /\ Grows(answered, n) /\ Remembers(saved.times, answered, n)
  <2>1. Grows(saved.times, now) /\ Grows(answered, now) /\ Remembers(saved.times, answered, now)
    BY <1>0 DEF SavedInv
  <2>2. PICK o \in Nat : o = now  BY <1>5
  <2>3. o <= n /\ Grows(saved.times, o) /\ Grows(answered, o) /\ Remembers(saved.times, answered, o)
    BY <1>5, <1>8, <2>1, <2>2
  <2>4. PICK s \in Seq(0 .. MaxTime) : s = saved.times  BY <1>7
  <2>5. PICK a \in Seq(0 .. MaxTime) : a = answered  BY <1>4
  <2>6. Grows(s, n) /\ Grows(a, n)  BY <1>3, <2>3, <2>4, <2>5, GrowsLater
  <2>7. Remembers(s, a, n)  BY <1>3, <2>3, <2>4, <2>5, RemembersLater
  <2> QED  BY <2>4, <2>5, <2>6, <2>7
<1>10. (Opened(saved) /\ MissesCounted /\ KnownAsAsked)'
  BY <1>0, <1>1 DEF SavedInv, Opened, MissesCounted, KnownAsAsked
<1>11. SavedInv'
  <2>1. Spaced(answered)' /\ (openings <= burst)'  BY <1>0, <1>1, <1>2 DEF SavedInv
  <2>2. (Grows(saved.times, now) /\ Grows(answered, now) /\ Remembers(saved.times, answered, now))'
    BY <1>1, <1>8, <1>9
  <2> QED  BY <1>10, <2>1, <2>2 DEF SavedInv
<1>12. TimesInv'
  <2>1. SUFFICES ASSUME talk.at # "idle" PROVE Underway'  BY <1>1 DEF TimesInv
  <2>2. talk.time <= now'
    <3>1. talk.time \in 0 .. MaxTime /\ talk.time <= now
      BY <1>0, <1>4, <2>1 DEF TimesInv, Underway, TalkRecord
    <3> QED  BY <1>2, <1>3, <1>4, <3>1
  <2> QED  BY <1>0, <1>1, <2>1, <2>2 DEF TimesInv, Underway
<1>13. AnswerInv' /\ CommitInv'  BY <1>0, <1>1 DEF AnswerInv, CommitInv, SameCounters, Opened
<1> QED  BY <1>6, <1>11, <1>12, <1>13 DEF GuardsInv

LEMMA LoseTurnInv ==
    ASSUME GuardsAssumption, GuardsInv, LoseTurn
    PROVE  GuardsInv'
<1>0. GuardTypes /\ SavedInv  BY DEF GuardsInv
<1>1. UNCHANGED <<saved, burst, now, messages, unshown, asked, misses, answered, openings>>
  BY DEF LoseTurn
<1>2. talk' = TurnIdle /\ TurnIdle \in TalkRecord /\ TurnIdle.at = "idle"
  BY FirstRowTyped DEF LoseTurn, TurnIdle
<1>3. GuardTypes'  BY <1>0, <1>1, <1>2 DEF GuardTypes
<1>4. SavedInv'  BY <1>0, <1>1 DEF SavedInv, MissesCounted, KnownAsAsked
<1>5. TimesInv' /\ AnswerInv' /\ CommitInv'  BY <1>2 DEF TimesInv, AnswerInv, CommitInv
<1> QED  BY <1>3, <1>4, <1>5 DEF GuardsInv

\* The list of times of a turn that begins.
LEMMA BeginTimes ==
    ASSUME GuardsAssumption, GuardTypes, SavedInv, NEW a, a = Append(PruneTimes(saved.times), now)
    PROVE  /\ a \in Seq(0 .. MaxTime) /\ Grows(a, now) /\ Grows(answered, now)
           /\ Remembers(a, answered, now) /\ Remembers(a, Append(answered, now), now)
           /\ Len(a) <= RateMax => Spaced(Append(answered, now))
<1>1. /\ MaxTime \in Nat /\ RateWindow \in Nat /\ RateMax \in Nat \ {0}
      /\ TimesKept \in Nat /\ RateMax <= TimesKept
  BY DEF GuardsAssumption
<1>2. saved.times \in Seq(0 .. MaxTime) /\ answered \in Seq(0 .. MaxTime) /\ now \in 0 .. MaxTime
  BY DEF GuardTypes, GuardRow
<1>3. Grows(saved.times, now) /\ Grows(answered, now) /\ Remembers(saved.times, answered, now)
      /\ Spaced(answered)
  BY DEF SavedInv
<1>4. PICK p \in Seq(0 .. MaxTime) : p = PruneTimes(saved.times) /\ Grows(p, now)
  BY <1>1, <1>2, <1>3, PrunedFacts
<1>5. PICK s \in Seq(0 .. MaxTime) : s = saved.times  BY <1>2
<1>6. PICK u \in Seq(0 .. MaxTime) : u = answered  BY <1>2
<1>7. Remembers(p, u, now)
  <2>1. Grows(s, now) /\ Remembers(s, u, now)  BY <1>3, <1>5, <1>6
  <2>2. Remembers(PruneTimes(s), u, now)  BY <1>1, <1>2, <2>1, PrunedRemembers
  <2> QED  BY <1>4, <1>5, <2>2
<1>8. PICK t \in 0 .. MaxTime : t = now  BY <1>2
<1>9. Grows(p, t) /\ Grows(u, t) /\ Remembers(p, u, t) /\ Spaced(u) /\ a = Append(p, t)
  BY <1>3, <1>4, <1>6, <1>7, <1>8
<1>10. a \in Seq(0 .. MaxTime) /\ Grows(a, t)  BY <1>1, <1>9, GrowsAppend
<1>11. Remembers(a, Append(u, t), t) /\ Remembers(a, u, t)  BY <1>1, <1>9, AppendRemembers
<1>12. Len(a) = Len(p) + 1  BY <1>9, AppendFacts
<1>13. Len(a) <= RateMax => Spaced(Append(u, t))  BY <1>1, <1>9, <1>12, PassesSpaced
<1> QED  BY <1>3, <1>6, <1>8, <1>10, <1>11, <1>13

\* A turn that begins has the times of the row, and its own.
LEMMA BegunTurn ==
    ASSUME GuardsAssumption, GuardTypes, SavedInv, NEW msg \in Message,
           NEW e, e = EvaluateEarlyTurnGuards(saved, msg)
    PROVE  /\ e.row \in GuardRow /\ SameCounters(e.row, saved)
           /\ Grows(e.row.times, now) /\ Grows(answered, now)
           /\ Remembers(e.row.times, answered, now)
           /\ Remembers(e.row.times, Append(answered, now), now)
           /\ ~ e.stops => Spaced(Append(answered, now))
<1>1. saved \in GuardRow /\ now \in 0 .. MaxTime /\ MaxTime \in Nat /\ RateMax \in Nat
      /\ Grows(saved.times, now)
  BY DEF GuardTypes, SavedInv, GuardsAssumption
<1>2. /\ e.row \in GuardRow /\ e.row.times = Append(PruneTimes(saved.times), now)
      /\ SameCounters(e.row, saved) /\ (~ e.stops => Len(e.row.times) <= RateMax)
  BY <1>1, EarlyFacts
<1> QED  BY <1>2, BeginTimes

\* The turn that is answered before the model is asked.
LEMMA BeginTurnInv ==
    ASSUME GuardsAssumption, GuardsInv, NEW msg \in Message, BeginTurn(msg)
    PROVE  GuardsInv'
<1>0. GuardTypes /\ SavedInv  BY DEF GuardsInv
<1>1. UNCHANGED <<saved, burst, now, unshown, asked, misses, answered, openings>> /\ messages' = messages + 1
  BY Zenon DEF BeginTurn
<1>2. SavedInv'  BY <1>0, <1>1 DEF SavedInv, MissesCounted, KnownAsAsked
<1>3. PICK e : e = EvaluateEarlyTurnGuards(saved, msg)  OBVIOUS
<1>4. /\ e.row \in GuardRow /\ SameCounters(e.row, saved)
      /\ Grows(e.row.times, now) /\ Grows(answered, now)
      /\ Remembers(e.row.times, answered, now)
      /\ Remembers(e.row.times, Append(answered, now), now)
      /\ ~ e.stops => Spaced(Append(answered, now))
  BY <1>0, <1>3, BegunTurn
<1>5. PICK r \in GuardRow : r = e.row  BY <1>4
<1>6. PICK s \in GuardRow : s = saved  BY <1>0 DEF GuardTypes
<1>7. PICK n \in 0 .. MaxTime : n = now  BY <1>0 DEF GuardTypes
<1>8. Opened(s) /\ Opened(r)
  <2>1. Opened(s)  BY <1>0, <1>6 DEF SavedInv
  <2> QED  BY <1>4, <1>5, <1>6, <2>1 DEF Opened, SameCounters
<1>9. PICK step : step = PlannerTransitionPipeline(r, "unknown")  OBVIOUS
<1>10. /\ step.row \in GuardRow /\ StepKeeps(r, step.row) /\ Opened(step.row)
       /\ step.strategy.mode \in Modes
  <2>1. r.complete => r.filled = Slots  BY <1>8 DEF Opened
  <2>2. "unknown" \in Intents /\ Asked \in Nat  BY DEF Intents, GuardsAssumption
  <2> QED  BY <1>9, <2>1, <2>2, PipelineFacts
<1> DEFINE base == [TurnIdle EXCEPT !.msg = msg, !.read = s, !.row = r, !.time = n]
           canned(by, from) == [base EXCEPT !.at = "commit", !.by = by, !.row = step.row,
                                            !.reply = Canned(step.strategy, from)]
<1>12. TurnIdle \in TalkRecord  BY FirstRowTyped
<1>11. PICK b \in TalkRecord :
          /\ b = base /\ b.msg = msg /\ b.read = s /\ b.row = r /\ b.time = n
          /\ b.by = "turn" /\ b.wrote = FALSE
  <2>1. base \in TalkRecord  BY <1>12 DEF TalkRecord
  <2>2. base.msg = msg /\ base.read = s /\ base.row = r /\ base.time = n  BY <1>12 DEF TalkRecord
  <2>3. base.by = "turn" /\ base.wrote = FALSE  BY DEF TurnIdle
  <2> QED  BY <2>1, <2>2, <2>3
<1> HIDE DEF base
<1>13. GuardTypes' <=> talk' \in TalkRecord /\ messages' \in Nat  BY <1>0, <1>1 DEF GuardTypes
<1>14. messages' \in Nat  BY <1>0, <1>1 DEF GuardTypes
<1>15. CASE ~ (e.stops \/ msg.kind \in Filtered)
  <2>1. talk' = [b EXCEPT !.at = "answer"]
    BY <1>3, <1>5, <1>6, <1>7, <1>11, <1>15, Zenon DEF BeginTurn, base
  <2>2. /\ talk'.at = "answer" /\ talk'.msg = msg /\ talk'.read = s /\ talk'.row = r /\ talk'.time = n
        /\ talk'.by = "turn" /\ talk'.wrote = FALSE
    BY <1>11, <2>1 DEF TalkRecord
  <2>3. talk' \in TalkRecord  BY <1>11, <2>1 DEF TalkRecord
  <2>4. Underway'  BY <1>1, <1>4, <1>5, <1>6, <1>7, <1>15, <2>2 DEF Underway
  <2>5. AnswerInv' /\ CommitInv'  BY <1>1, <1>4, <1>5, <1>6, <2>2 DEF AnswerInv, CommitInv, SameCounters
  <2> QED  BY <1>2, <1>13, <1>14, <2>3, <2>4, <2>5 DEF GuardsInv, TimesInv
<1>16. CASE e.stops \/ msg.kind \in Filtered
  <2>1. PICK by \in {"safeguard", "filter"}, from \in {"safeguard", "filter", "closing"} :
           talk' = canned(by, from)
    <3>1. \E from \in {IF e.stops THEN "safeguard" ELSE "filter"} \cup Closings(step.row) :
             talk' = canned(IF e.stops THEN "safeguard" ELSE "filter", from)
      BY <1>3, <1>5, <1>6, <1>7, <1>9, <1>16, Zenon DEF BeginTurn, base
    <3>2. Closings(step.row) \subseteq {"closing"}  BY DEF Closings
    <3>3. (IF e.stops THEN "safeguard" ELSE "filter") \in {"safeguard", "filter"}  OBVIOUS
    <3>4. PICK by \in {"safeguard", "filter"} : by = IF e.stops THEN "safeguard" ELSE "filter"  BY <3>3
    <3>5. PICK from \in {by} \cup Closings(step.row) : talk' = canned(by, from)  BY <3>1, <3>4, Zenon
    <3>6. from \in {"safeguard", "filter", "closing"}  BY <3>2
    <3> QED  BY <3>5, <3>6
  <2>2. PICK reply \in Reply : reply = Canned(step.strategy, from) /\ reply.from = from
    <3>1. from \in Origins /\ NoSlot \in Slots \cup {NoSlot}  BY DEF Origins
    <3>2. PICK m \in Modes : m = step.strategy.mode  BY <1>10
    <3>3. [mode |-> m, asks |-> NoSlot, from |-> from] \in Reply  BY <3>1 DEF Reply
    <3> QED  BY <3>2, <3>3 DEF Canned
  <2>3. talk' = [b EXCEPT !.at = "commit", !.by = by, !.row = step.row, !.reply = reply]
    BY <1>11, <2>1, <2>2, Zenon
  <2>4. talk' \in TalkRecord  BY <1>10, <1>11, <2>1, <2>3 DEF TalkRecord
  <2>9. /\ talk'.at = "commit" /\ talk'.read = s /\ talk'.row = step.row /\ talk'.time = n
        /\ talk'.by = by /\ talk'.wrote = FALSE /\ talk'.reply = reply
    BY <1>11, <2>3 DEF TalkRecord
  <2>5. step.row.times = r.times  BY <1>10 DEF StepKeeps
  <2>6. Underway'  BY <1>1, <1>4, <1>5, <1>6, <1>7, <2>1, <2>9, <2>5 DEF Underway
  <2>7. CommitInv'
    <3>1. /\ step.row.filled = s.filled /\ step.row.missed = s.missed /\ step.row.misses = s.misses
          /\ s.target # NoSlot => step.row.target = s.target
      BY <1>4, <1>5, <1>6, <1>8, <1>10 DEF StepKeeps, SameCounters
    <3>2. saved' = s  BY <1>1, <1>6
    <3> QED  BY <1>10, <2>1, <2>2, <2>9, <3>1, <3>2 DEF CommitInv
  <2>8. AnswerInv'  BY <2>9 DEF AnswerInv
  <2> QED  BY <1>2, <1>13, <1>14, <2>4, <2>6, <2>7, <2>8 DEF GuardsInv, TimesInv
<1> QED  BY <1>15, <1>16

\* Every classification routes to an intent.
LEMMA RoutedIntent ==
    ASSUME NEW msg, NEW ic \in Classifications(msg)
    PROVE  EffectiveRoutingIntent(ic) \in Intents /\ ic.called \in BOOLEAN
<1>1. ic \in {Ruled("greeting"), Ruled("substantive")} \cup ClassifyByModel
  BY DEF Classifications, ClassifyByRules
<1>2. ASSUME ic \in {Ruled("greeting"), Ruled("substantive")}
      PROVE  ic.intent \in Intents /\ ic.called \in BOOLEAN
  <2>1. CASE ic = Ruled("greeting")  BY <2>1 DEF Ruled, Intents
  <2>2. CASE ic = Ruled("substantive")  BY <2>2 DEF Ruled, Intents
  <2> QED  BY <1>2, <2>1, <2>2
<1>3. ASSUME ic \in ClassifyByModel PROVE ic.intent \in Intents /\ ic.called \in BOOLEAN
  <2>1. CASE ic = [source |-> "sales_default", intent |-> "substantive", sure |-> TRUE, called |-> FALSE]
    BY <2>1 DEF Intents
  <2>2. CASE ic \in {Fallback(called) : called \in BOOLEAN}  BY <2>2 DEF Fallback, Intents
  <2>3. CASE ic \in [source : {"gemini"}, intent : Intents, sure : BOOLEAN, called : {TRUE}]  BY <2>3
  <2> QED  BY <1>3, <2>1, <2>2, <2>3 DEF ClassifyByModel
<1>4. ic.intent \in Intents /\ ic.called \in BOOLEAN  BY <1>1, <1>2, <1>3
<1>5. "unknown" \in Intents  BY DEF Intents
<1> QED  BY <1>4, <1>5 DEF EffectiveRoutingIntent

\* The calls of a reply stay below the cap, and count the opening lines.
LEMMA CallsCounted ==
    ASSUME NEW b \in 0 .. BurstCap, BurstCap \in Nat, NEW o \in Nat, o <= b,
           NEW c \in Nat, NEW one \in {0, 1}, one = 1 => b < BurstCap /\ c >= 1
    PROVE  AtMostCap(b + c) \in 0 .. BurstCap /\ o + one <= AtMostCap(b + c)
<1>1. b \in Nat /\ b <= BurstCap /\ b + c \in Nat  OBVIOUS
<1>2. CASE b + c < BurstCap
  <2>1. AtMostCap(b + c) = b + c  BY <1>2 DEF AtMostCap
  <2>2. o + one <= b + c  BY <1>1
  <2> QED  BY <1>1, <1>2, <2>1, <2>2
<1>3. CASE ~ (b + c < BurstCap)
  <2>1. AtMostCap(b + c) = BurstCap  BY <1>3 DEF AtMostCap
  <2>2. o + one <= BurstCap  BY <1>1
  <2> QED  BY <2>1, <2>2
<1> QED  BY <1>2, <1>3

\* The burst limit of a turn that is answered.
LEMMA AnswerCounts ==
    ASSUME GuardsAssumption, GuardTypes, openings <= burst, NEW msg, NEW ic,
           ic.called \in BOOLEAN, NEW from \in Origins,
           from \in {"model", "failed"} => ~ (msg.kind = "opening" /\ burst >= BurstCap)
    PROVE  /\ CountsCall(ic, from) \in 0 .. BurstCap
           /\ openings + (IF from \in {"model", "failed"} /\ msg.kind = "opening" THEN 1 ELSE 0)
                 <= CountsCall(ic, from)
           /\ openings + (IF from \in {"model", "failed"} /\ msg.kind = "opening" THEN 1 ELSE 0) \in Nat
<1>1. BurstCap \in Nat /\ burst \in 0 .. BurstCap /\ openings \in Nat
  BY DEF GuardsAssumption, GuardTypes
<1>2. PICK x \in {0, 1} : x = IF ic.called THEN 1 ELSE 0  OBVIOUS
<1>3. PICK y \in {0, 1} : y = IF from \in {"model", "failed"} THEN 1 ELSE 0  OBVIOUS
<1>4. PICK z \in {0, 1} : z = IF from \in {"model", "failed"} /\ msg.kind = "opening" THEN 1 ELSE 0
  OBVIOUS
<1>5. CountsCall(ic, from) = AtMostCap(burst + x + y)  BY <1>2, <1>3 DEF CountsCall
<1>6. PICK b \in 0 .. BurstCap : b = burst  BY <1>1
<1>7. PICK o \in Nat : o = openings  BY <1>1
<1>8. PICK c \in Nat : c = x + y  OBVIOUS
<1>9. b + x + y = b + c  BY <1>8
<1>10. z = 1 => b < BurstCap /\ c >= 1
  <2>1. SUFFICES ASSUME z = 1 PROVE b < BurstCap /\ c >= 1  OBVIOUS
  <2>2. from \in {"model", "failed"} /\ msg.kind = "opening"  BY <1>4, <2>1
  <2>3. y = 1  BY <1>3, <2>2
  <2>4. ~ (b >= BurstCap)  BY <1>6, <2>2
  <2> QED  BY <1>1, <1>8, <2>3, <2>4
<1>11. o <= b  BY <1>6, <1>7
<1>12. AtMostCap(b + c) \in 0 .. BurstCap /\ o + z <= AtMostCap(b + c)
  BY <1>1, <1>10, <1>11, CallsCounted
<1>13. CountsCall(ic, from) = AtMostCap(b + c)  BY <1>5, <1>6, <1>9
<1>14. o + z \in Nat  OBVIOUS
<1> QED  BY <1>4, <1>7, <1>12, <1>13, <1>14

\* The row with the answer of the visitor, before the safeguards look at it.
LEMMA AnsweredRow ==
    ASSUME NEW r0 \in GuardRow, NEW wrote \in BOOLEAN, wrote => MayWrite(r0), Opened(r0),
           NEW r, r = WithAnswer(r0, wrote)
    PROVE  /\ r \in GuardRow
           /\ r.state = r0.state /\ r.target = r0.target /\ r.complete = r0.complete
           /\ r.times = r0.times /\ r.missed = r0.missed /\ r.misses = r0.misses
           /\ r.filled \subseteq r0.filled \cup ({r0.target} \ {NoSlot})
           /\ r.complete => r.filled = Slots
           /\ ~ wrote => r = r0
<1>1. CASE ~ wrote  BY <1>1 DEF WithAnswer, Opened
<1>2. CASE wrote
  <2>1. r0.target \in Slots \cup {NoSlot} /\ r0.filled \in SUBSET Slots /\ r0.target # NoSlot
    BY <1>2 DEF MayWrite, GuardRow
  <2>2. PICK f \in SUBSET Slots : f = r0.filled \cup {r0.target}  BY <2>1
  <2>3. r = [r0 EXCEPT !.filled = f]  BY <1>2, <2>2 DEF WithAnswer
  <2>4. r \in GuardRow  BY <2>3 DEF GuardRow
  <2>5. /\ r.state = r0.state /\ r.target = r0.target /\ r.complete = r0.complete
        /\ r.times = r0.times /\ r.missed = r0.missed /\ r.misses = r0.misses /\ r.filled = f
    BY <2>3 DEF GuardRow
  <2>6. r0.complete => r0.filled = Slots  BY DEF Opened
  <2>7. f \subseteq r0.filled \cup ({r0.target} \ {NoSlot})  BY <2>1, <2>2
  <2>8. r0.complete => f = Slots  BY <2>1, <2>2, <2>6
  <2> QED  BY <1>2, <2>4, <2>5, <2>7, <2>8
<1> QED  BY <1>1, <1>2

\* What the turn leaves for the commit.
AnswerLeaves(wrote, stops, row, strategy) ==
    /\ row \in GuardRow /\ Opened(row) /\ row.times = talk.row.times
    /\ row.filled \subseteq saved.filled \cup ({saved.target} \ {NoSlot})
    /\ strategy.mode \in Modes /\ strategy.asks \in Slots \cup {NoSlot}
    /\ row.target \in {strategy.asks, NoSlot}
    /\ stops \in BOOLEAN
    /\ (stops /\ saved.target # NoSlot) => row.target = saved.target
    /\ (~ stops /\ ~ wrote /\ saved.target # NoSlot) =>
          /\ row.missed = saved.target /\ row.misses < MissMax
          /\ row.misses = IF saved.target = saved.missed THEN saved.misses + 1 ELSE 1

LEMMA AnswerComputes ==
    ASSUME GuardsAssumption, GuardTypes, SavedInv, SameCounters(talk.row, saved),
           NEW wrote \in BOOLEAN, wrote => MayWrite(talk.row), NEW msg, NEW intent \in Intents,
           NEW post, post = EvaluatePostExtractionGuards(WithAnswer(talk.row, wrote), msg, wrote),
           NEW step, step = PlannerTransitionPipeline(post.row, intent)
    PROVE  AnswerLeaves(wrote, post.stops, step.row, step.strategy)
<1>0. Asked \in Nat /\ MissMax \in Nat \ {0}  BY DEF GuardsAssumption
<1>1. PICK s \in GuardRow : s = saved  BY DEF GuardTypes
<1>2. PICK r0 \in GuardRow : r0 = talk.row  BY DEF GuardTypes, TalkRecord
<1>3. SameCounters(r0, s) /\ Opened(s)  BY <1>1, <1>2 DEF SavedInv
<1>4. Opened(r0)  BY <1>3 DEF SameCounters, Opened
<1>5. PICK r : r = WithAnswer(r0, wrote)  OBVIOUS
<1>6. /\ r \in GuardRow
      /\ r.state = r0.state /\ r.target = r0.target /\ r.complete = r0.complete
      /\ r.times = r0.times /\ r.missed = r0.missed /\ r.misses = r0.misses
      /\ r.filled \subseteq r0.filled \cup ({r0.target} \ {NoSlot})
      /\ r.complete => r.filled = Slots
      /\ ~ wrote => r = r0
  BY <1>2, <1>4, <1>5, AnsweredRow
<1>7. post = EvaluatePostExtractionGuards(r, msg, wrote)  BY <1>2, <1>5
<1>a. PostLeaves(r, wrote, post)  BY <1>0, <1>6, <1>7, PostFacts
<1>8. /\ post.row \in GuardRow
      /\ post.row.state = r.state /\ post.row.filled = r.filled /\ post.row.target = r.target
      /\ post.row.complete = r.complete /\ post.row.times = r.times
      /\ post.stops \in BOOLEAN /\ (post.stops => ~ wrote)
      /\ (~ post.stops /\ ~ wrote /\ r.target # NoSlot) =>
            /\ post.row.missed = r.target /\ post.row.misses < MissMax
            /\ post.row.misses = IF r.target = r.missed THEN r.misses + 1 ELSE 1
  BY <1>a DEF PostLeaves
<1>9. PICK q \in GuardRow : q = post.row  BY <1>8
<1>10. q.complete => q.filled = Slots  BY <1>6, <1>8, <1>9
<1>11. /\ step.row \in GuardRow /\ StepKeeps(q, step.row) /\ Opened(step.row)
       /\ step.strategy.mode \in Modes /\ step.strategy.asks \in Slots \cup {NoSlot}
       /\ step.row.target \in {step.strategy.asks, NoSlot}
  BY <1>0, <1>9, <1>10, PipelineFacts
<1>12. /\ step.row.filled = q.filled /\ step.row.times = q.times
       /\ step.row.missed = q.missed /\ step.row.misses = q.misses
       /\ (Opened(q) /\ q.target # NoSlot) => step.row.target = q.target
  BY <1>11 DEF StepKeeps
<1>13. r0.filled = s.filled /\ r0.target = s.target /\ r0.missed = s.missed /\ r0.misses = s.misses
  BY <1>3 DEF SameCounters
<1>14. step.row.filled \subseteq saved.filled \cup ({saved.target} \ {NoSlot})
  BY <1>1, <1>6, <1>8, <1>9, <1>12, <1>13
<1>15. ASSUME post.stops, saved.target # NoSlot PROVE step.row.target = saved.target
  <2>1. r = r0  BY <1>6, <1>8, <1>15
  <2>2. Opened(q)  BY <1>4, <1>8, <1>9, <2>1 DEF Opened
  <2> QED  BY <1>1, <1>8, <1>9, <1>12, <1>13, <1>15, <2>1, <2>2
<1>16. ASSUME ~ post.stops, ~ wrote, saved.target # NoSlot
       PROVE  /\ step.row.missed = saved.target /\ step.row.misses < MissMax
              /\ step.row.misses = IF saved.target = saved.missed THEN saved.misses + 1 ELSE 1
  BY <1>1, <1>6, <1>8, <1>9, <1>12, <1>13, <1>16
<1> QED  BY <1>2, <1>6, <1>8, <1>9, <1>11, <1>12, <1>14, <1>15, <1>16 DEF AnswerLeaves

LEMMA AnswerTurnInv ==
    ASSUME GuardsAssumption, GuardsInv, NEW ic \in Classifications(talk.msg), NEW wrote \in BOOLEAN,
           AnswerTurn(ic, wrote)
    PROVE  GuardsInv'
<1>0. GuardTypes /\ SavedInv /\ TimesInv /\ AnswerInv  BY DEF GuardsInv
<1>1. talk.at = "answer" /\ (wrote => MayWrite(talk.row))
      /\ UNCHANGED <<saved, now, messages, unshown, asked, misses, answered>>
  BY Zenon DEF AnswerTurn
<1>2. talk \in TalkRecord /\ openings <= burst  BY <1>0 DEF GuardTypes, SavedInv
<1>3. talk.by = "turn" /\ SameCounters(talk.row, saved) /\ Underway
  BY <1>0, <1>1 DEF AnswerInv, TimesInv
<1>4. PICK intent \in Intents : intent = EffectiveRoutingIntent(ic)  BY RoutedIntent
<1>5. PICK post : post = EvaluatePostExtractionGuards(WithAnswer(talk.row, wrote), talk.msg, wrote)
  OBVIOUS
<1>6. PICK step : step = PlannerTransitionPipeline(post.row, intent)  OBVIOUS
<1>7. AnswerLeaves(wrote, post.stops, step.row, step.strategy)
  BY <1>0, <1>1, <1>3, <1>5, <1>6, AnswerComputes
<1>8. PICK from \in (IF post.stops THEN {"safeguard"} \cup Closings(step.row) ELSE Sources(talk.msg, step.row)) :
         /\ talk' = [talk EXCEPT !.at = "commit", !.by = IF post.stops THEN "safeguard" ELSE "turn",
                      !.row = step.row, !.wrote = wrote,
                      !.reply = IF from = "model" THEN ReplyOf(step.strategy, from)
                                ELSE Canned(step.strategy, from)]
         /\ burst' = CountsCall(ic, from)
         /\ openings' = openings + (IF from \in {"model", "failed"} /\ talk.msg.kind = "opening" THEN 1 ELSE 0)
  BY <1>4, <1>5, <1>6, Zenon DEF AnswerTurn
<1>9. from \in Origins /\ (from \in {"model", "failed"} => ~ (talk.msg.kind = "opening" /\ burst >= BurstCap))
  <2>1. Closings(step.row) \subseteq {"closing"}  BY DEF Closings
  <2>2. CASE post.stops
    <3>1. from \in {"safeguard", "closing"}  BY <2>1, <2>2
    <3> QED  BY <3>1 DEF Origins
  <2>3. CASE ~ post.stops
    <3>1. from \in Sources(talk.msg, step.row)  BY <2>3
    <3>2. CASE talk.msg.kind = "opening" /\ burst >= BurstCap
      <4>1. from \in {"closing", "cached", "blocked", "busy"}  BY <2>1, <3>1, <3>2 DEF Sources
      <4> QED  BY <4>1 DEF Origins
    <3>3. CASE ~ (talk.msg.kind = "opening" /\ burst >= BurstCap)
      <4>1. from \in {"closing", "cached", "blocked", "failed", "model"}
        BY <2>1, <3>1, <3>3 DEF Sources
      <4> QED  BY <3>3, <4>1 DEF Origins
    <3> QED  BY <3>2, <3>3
  <2> QED  BY <2>2, <2>3
<1>10. burst' \in 0 .. BurstCap /\ openings' <= burst' /\ openings' \in Nat
  <2>1. ic.called \in BOOLEAN  BY RoutedIntent
  <2> QED  BY <1>0, <1>2, <1>8, <1>9, <2>1, AnswerCounts
<1>11. PICK reply \in Reply :
          /\ reply = (IF from = "model" THEN ReplyOf(step.strategy, from) ELSE Canned(step.strategy, from))
          /\ reply.from = from /\ (from = "model" => reply.asks = step.strategy.asks)
  <2>1. PICK m \in Modes : m = step.strategy.mode  BY <1>7 DEF AnswerLeaves
  <2>2. PICK f \in Slots \cup {NoSlot} : f = step.strategy.asks  BY <1>7 DEF AnswerLeaves
  <2>3. [mode |-> m, asks |-> f, from |-> from] \in Reply /\ [mode |-> m, asks |-> NoSlot, from |-> from] \in Reply
    BY <1>9 DEF Reply
  <2> QED  BY <2>1, <2>2, <2>3 DEF ReplyOf, Canned
<1>12. PICK by \in {"turn", "safeguard"} : by = IF post.stops THEN "safeguard" ELSE "turn"  OBVIOUS
<1>13. talk' = [talk EXCEPT !.at = "commit", !.by = by, !.row = step.row, !.wrote = wrote, !.reply = reply]
  BY <1>8, <1>11, <1>12, Zenon
<1>14. step.row \in GuardRow /\ step.row.times = talk.row.times /\ Opened(step.row) /\ post.stops \in BOOLEAN
  BY <1>7 DEF AnswerLeaves
<1>15. talk' \in TalkRecord  BY <1>2, <1>13, <1>14 DEF TalkRecord
<1>16. /\ talk'.at = "commit" /\ talk'.by = by /\ talk'.row = step.row /\ talk'.wrote = wrote
       /\ talk'.reply = reply /\ talk'.read = talk.read /\ talk'.time = talk.time
  BY <1>2, <1>13 DEF TalkRecord
<1>17. GuardTypes'  BY <1>0, <1>1, <1>10, <1>15 DEF GuardTypes
<1>18. SavedInv'
  <2>1. (Opened(saved) /\ MissesCounted /\ KnownAsAsked)'
    BY <1>0, <1>1 DEF SavedInv, Opened, MissesCounted, KnownAsAsked
  <2> QED  BY <1>0, <1>1, <1>10, <2>1 DEF SavedInv
<1>19. Underway'  BY <1>1, <1>3, <1>14, <1>16 DEF Underway
<1>20. CommitInv'
  <2>1. /\ step.row.filled \subseteq saved.filled \cup ({saved.target} \ {NoSlot})
        /\ step.row.target \in {step.strategy.asks, NoSlot}
        /\ (post.stops /\ saved.target # NoSlot) => step.row.target = saved.target
        /\ (~ post.stops /\ ~ wrote /\ saved.target # NoSlot) =>
              /\ step.row.missed = saved.target /\ step.row.misses < MissMax
              /\ step.row.misses = IF saved.target = saved.missed THEN saved.misses + 1 ELSE 1
    BY <1>7 DEF AnswerLeaves
  <2>2. saved' = saved  BY <1>1
  <2>3. by # "filter" /\ (by # "turn" <=> post.stops)  BY <1>12, <1>14
  <2>4. reply.from = "model" => step.row.target \in {reply.asks, NoSlot}  BY <1>11, <2>1
  <2> QED  BY <1>14, <1>16, <2>1, <2>2, <2>3, <2>4 DEF CommitInv
<1>21. AnswerInv'  BY <1>16 DEF AnswerInv
<1> QED  BY <1>17, <1>18, <1>19, <1>20, <1>21 DEF GuardsInv, TimesInv

\* The misses of the visitor stay on the counter of the row that is committed.
LEMMA CommitMisses ==
    ASSUME GuardsAssumption, GuardTypes, SavedInv, CommitInv, Underway, CommitReply
    PROVE  MissesCounted' /\ misses' \in Nat
<1>1. MissMax \in Nat \ {0} /\ misses \in Nat  BY DEF GuardsAssumption, GuardTypes
<1>2. talk.at = "commit" /\ saved' = talk.row /\ talk.read = saved  BY DEF CommitReply, Underway
<1>3. PICK r \in GuardRow : r = talk.row  BY DEF GuardTypes, TalkRecord
<1>4. PICK s \in GuardRow : s = saved  BY DEF GuardTypes
<1>5. r.misses \in Nat /\ s.misses \in Nat  BY DEF GuardRow
<1>6. /\ (talk.by # "turn" /\ s.target # NoSlot) => r.target = s.target
      /\ talk.by = "filter" => r.missed = s.missed /\ r.misses = s.misses
      /\ (talk.by = "turn" /\ ~ talk.wrote /\ s.target # NoSlot) =>
            /\ r.missed = s.target /\ r.misses < MissMax
            /\ r.misses = IF s.target = s.missed THEN s.misses + 1 ELSE 1
  BY <1>2, <1>3, <1>4 DEF CommitInv
<1>7. misses < MissMax /\ (misses = 0 \/ (misses <= s.misses /\ s.missed = s.target /\ s.target # NoSlot))
  BY <1>4 DEF SavedInv, MissesCounted
<1>8. CASE talk.by = "filter"
  <2>1. misses' = misses  BY <1>8 DEF CommitReply
  <2>2. misses = 0 \/ (misses <= r.misses /\ r.missed = r.target /\ r.target # NoSlot)
    BY <1>6, <1>7, <1>8
  <2> QED  BY <1>1, <1>2, <1>3, <1>7, <2>1, <2>2 DEF MissesCounted
<1>9. CASE talk.by # "filter" /\ talk.by = "turn" /\ ~ talk.wrote /\ s.target # NoSlot /\ r.target = s.target
  <2>1. misses' = misses + 1  BY <1>2, <1>3, <1>4, <1>9 DEF CommitReply
  <2>2. misses + 1 <= r.misses
    <3>1. CASE misses = 0  BY <1>5, <1>6, <1>9, <3>1
    <3>2. CASE misses # 0
      <4>1. r.misses = s.misses + 1 /\ misses <= s.misses  BY <1>6, <1>7, <1>9, <3>2
      <4> QED  BY <1>1, <1>5, <4>1
    <3> QED  BY <3>1, <3>2
  <2>3. misses + 1 < MissMax /\ misses + 1 \in Nat  BY <1>1, <1>5, <1>6, <1>9, <2>2
  <2>4. r.missed = r.target /\ r.target # NoSlot  BY <1>6, <1>9
  <2> QED  BY <1>2, <1>3, <2>1, <2>2, <2>3, <2>4 DEF MissesCounted
<1>10. CASE talk.by # "filter" /\ ~ (talk.by = "turn" /\ ~ talk.wrote /\ s.target # NoSlot /\ r.target = s.target)
  <2>1. misses' = 0  BY <1>2, <1>3, <1>4, <1>10 DEF CommitReply
  <2> QED  BY <1>1, <2>1 DEF MissesCounted
<1> QED  BY <1>8, <1>9, <1>10

\* A value and the field asked for next were asked, or had as asked under another reply.
LEMMA CommitAsked ==
    ASSUME GuardTypes, SavedInv, CommitInv, CommitReply
    PROVE  KnownAsAsked' /\ asked' \subseteq Slots /\ unshown' \subseteq Slots
<1>1. talk.at = "commit" /\ saved' = talk.row
      /\ asked' = asked \cup ({talk.reply.asks} \ {NoSlot})
      /\ unshown' = unshown \cup IF talk.reply.from = "model" THEN {} ELSE {talk.row.target} \ {NoSlot}
  BY DEF CommitReply
<1>2. /\ talk.row.filled \subseteq saved.filled \cup ({saved.target} \ {NoSlot})
      /\ talk.reply.from = "model" => talk.row.target \in {talk.reply.asks, NoSlot}
  BY <1>1 DEF CommitInv
<1>3. saved.filled \subseteq asked \cup unshown /\ saved.target \in asked \cup unshown \cup {NoSlot}
  BY DEF SavedInv, KnownAsAsked
<1>4. talk.row.filled \subseteq asked \cup unshown  BY <1>2, <1>3
<1>5. talk.row.filled \subseteq asked' \cup unshown'  BY <1>1, <1>4
<1>6. talk.row.target \in asked' \cup unshown' \cup {NoSlot}  BY <1>1, <1>2
<1>7. talk.reply.asks \in Slots \cup {NoSlot} /\ talk.row.target \in Slots \cup {NoSlot}
      /\ asked \subseteq Slots /\ unshown \subseteq Slots
  BY DEF GuardTypes, TalkRecord, Reply, GuardRow
<1>8. asked' \subseteq Slots /\ unshown' \subseteq Slots  BY <1>1, <1>7
<1> QED  BY <1>1, <1>5, <1>6, <1>8 DEF KnownAsAsked

\* The turns answered so far, and the times the row keeps of them.
LEMMA CommitTimes ==
    ASSUME GuardsAssumption, GuardTypes, SavedInv, Underway, CommitReply
    PROVE  /\ answered' \in Seq(0 .. MaxTime) /\ Grows(answered', now) /\ Spaced(answered')
           /\ Grows(talk.row.times, now) /\ Remembers(talk.row.times, answered', now)
<1>1. MaxTime \in Nat /\ RateWindow \in Nat /\ RateMax \in Nat  BY DEF GuardsAssumption
<1>2. PICK r \in Seq(0 .. MaxTime) : r = talk.row.times  BY DEF GuardTypes, TalkRecord, GuardRow
<1>3. PICK u \in Seq(0 .. MaxTime) : u = answered  BY DEF GuardTypes
<1>4. PICK t \in 0 .. MaxTime : t = talk.time  BY DEF GuardTypes, TalkRecord
<1>5. PICK n \in 0 .. MaxTime : n = now  BY DEF GuardTypes
<1>6. /\ t <= n /\ Grows(r, t) /\ Grows(u, t) /\ Remembers(r, u, t) /\ Remembers(r, Append(u, t), t)
      /\ talk.by = "turn" => Spaced(Append(u, t))
  BY <1>2, <1>3, <1>4, <1>5 DEF Underway
<1>7. Spaced(u)  BY <1>3 DEF SavedInv
<1>8. Append(u, t) \in Seq(0 .. MaxTime) /\ Grows(Append(u, t), t)  BY <1>1, <1>6, GrowsAppend
<1>9. PICK v \in Seq(0 .. MaxTime) : v = answered' /\ Grows(v, t) /\ Remembers(r, v, t) /\ Spaced(v)
  <2>1. CASE talk.by = "turn"
    <3>1. answered' = Append(u, t)  BY <1>3, <1>4, <2>1 DEF CommitReply
    <3> QED  BY <1>6, <1>8, <2>1, <3>1
  <2>2. CASE talk.by # "turn"
    <3>1. answered' = u  BY <1>3, <2>2 DEF CommitReply
    <3> QED  BY <1>6, <1>7, <3>1
  <2> QED  BY <2>1, <2>2
<1>10. t \in Nat /\ n \in Nat  BY <1>1
<1>11. Grows(v, n) /\ Grows(r, n)  BY <1>1, <1>6, <1>9, <1>10, GrowsLater
<1>12. Remembers(r, v, n)  BY <1>1, <1>6, <1>9, <1>10, RemembersLater
<1> QED  BY <1>2, <1>5, <1>9, <1>11, <1>12

LEMMA CommitReplyInv ==
    ASSUME GuardsAssumption, GuardsInv, CommitReply
    PROVE  GuardsInv'
<1>0. GuardTypes /\ SavedInv /\ TimesInv /\ CommitInv  BY DEF GuardsInv
<1>1. talk.at = "commit" /\ saved' = talk.row /\ talk' = TurnIdle
      /\ UNCHANGED <<burst, now, messages, openings>>
  BY DEF CommitReply
<1>2. Underway  BY <1>0, <1>1 DEF TimesInv
<1>3. MissesCounted' /\ misses' \in Nat  BY <1>0, <1>2, CommitMisses
<1>4. KnownAsAsked' /\ asked' \subseteq Slots /\ unshown' \subseteq Slots  BY <1>0, CommitAsked
<1>5. /\ answered' \in Seq(0 .. MaxTime) /\ Grows(answered', now) /\ Spaced(answered')
      /\ Grows(talk.row.times, now) /\ Remembers(talk.row.times, answered', now)
  BY <1>0, <1>2, CommitTimes
<1>6. talk.row \in GuardRow /\ Opened(talk.row)  BY <1>0, <1>1 DEF GuardTypes, TalkRecord, CommitInv
<1>7. TurnIdle \in TalkRecord /\ TurnIdle.at = "idle"  BY FirstRowTyped DEF TurnIdle
<1>8. GuardTypes'  BY <1>0, <1>1, <1>3, <1>4, <1>5, <1>6, <1>7 DEF GuardTypes
<1>9. SavedInv'
  <2>1. (openings <= burst)'  BY <1>0, <1>1 DEF SavedInv
  <2>2. Opened(saved)'  BY <1>1, <1>6 DEF Opened
  <2> QED  BY <1>1, <1>3, <1>4, <1>5, <2>1, <2>2 DEF SavedInv
<1>10. TimesInv' /\ AnswerInv' /\ CommitInv'  BY <1>1, <1>7 DEF TimesInv, AnswerInv, CommitInv
<1> QED  BY <1>8, <1>9, <1>10 DEF GuardsInv

LEMMA GuardsStep == GuardsAssumption /\ GuardsInv /\ [GuardsNext]_guardVars => GuardsInv'
<1> SUFFICES ASSUME GuardsAssumption, GuardsInv, [GuardsNext]_guardVars PROVE GuardsInv'  OBVIOUS
<1>1. CASE Tick  BY <1>1, TickInv
<1>2. ASSUME NEW msg \in Message, BeginTurn(msg) PROVE GuardsInv'  BY <1>2, BeginTurnInv
<1>3. ASSUME NEW ic \in Classifications(talk.msg), NEW wrote \in BOOLEAN, AnswerTurn(ic, wrote)
      PROVE  GuardsInv'
  BY <1>3, AnswerTurnInv
<1>4. CASE CommitReply  BY <1>4, CommitReplyInv
<1>5. CASE LoseTurn  BY <1>5, LoseTurnInv
<1>6. CASE UNCHANGED guardVars
  <2>1. GuardTypes' /\ SavedInv'
    BY <1>6 DEF GuardsInv, guardVars, GuardTypes, SavedInv, MissesCounted, KnownAsAsked
  <2>2. TimesInv' /\ AnswerInv' /\ CommitInv'
    BY <1>6 DEF GuardsInv, guardVars, TimesInv, Underway, AnswerInv, CommitInv
  <2> QED  BY <2>1, <2>2 DEF GuardsInv
<1> QED  BY <1>1, <1>2, <1>3, <1>4, <1>5, <1>6, Zenon DEF GuardsNext

\* In every reachable state the row, the turn under way and the history agree: the list of
\* times has an entry for each turn that counts, the miss counter covers the misses, the
\* field the row has as asked is the planner's, and the bucket counts the opening lines.
THEOREM GuardsInvariant == GuardsSpec => []GuardsInv
<1>1. GuardsInit => GuardsInv  BY GuardsAssumption, GuardsInitInv
<1>2. GuardsInv /\ [GuardsNext]_guardVars => GuardsInv'  BY GuardsAssumption, GuardsStep
<1> QED  BY <1>1, <1>2, PTL DEF GuardsSpec

\* Whatever turns are lost and wherever replies come from: no window holds more answered
\* turns than the limit, no field is missed at the limit, the opening lines stay below
\* the burst cap, every value is known under a field that was asked, and a canned turn
\* leaves the open question open (sales_safeguards.py, sales_llm_burst_limiter.py,
\* _run_planner_transition_pipeline).
THEOREM SafeguardsAlwaysHold == GuardsSpec => SafeguardsHold
<1>1. GuardsInv => RateKept /\ SlotLoopIsBroken /\ BurstKept /\ ValuesWereAskedFor
  <2> SUFFICES ASSUME GuardsInv PROVE RateKept /\ SlotLoopIsBroken /\ BurstKept /\ ValuesWereAskedFor
    OBVIOUS
  <2>1. GuardTypes /\ SavedInv  BY DEF GuardsInv
  <2>2. RateKept  BY <2>1, GuardsAssumption, SpacedKeepsRate
  <2>3. SlotLoopIsBroken /\ ValuesWereAskedFor
    BY <2>1 DEF SavedInv, MissesCounted, KnownAsAsked, SlotLoopIsBroken, ValuesWereAskedFor
  <2>4. BurstKept
    <3>1. openings <= burst /\ openings \in Nat /\ burst \in 0 .. BurstCap /\ BurstCap \in Nat
      BY <2>1, GuardsAssumption DEF GuardTypes, SavedInv, GuardsAssumption
    <3> QED  BY <3>1 DEF BurstKept
  <2> QED  BY <2>2, <2>3, <2>4
<1>2. GuardsInv /\ [GuardsNext]_guardVars =>
         [(talk.at = "commit" /\ talk.by \in {"safeguard", "filter"} /\ saved.target # NoSlot)
             => saved'.target = saved.target \/ talk.wrote]_saved
  <2> SUFFICES ASSUME GuardsInv, [GuardsNext]_guardVars, saved' # saved,
                      talk.at = "commit", talk.by \in {"safeguard", "filter"}, saved.target # NoSlot
               PROVE  saved'.target = saved.target
    OBVIOUS
  <2>1. CommitReply
    <3>1. GuardsNext  BY DEF guardVars
    <3>2. ~ Tick /\ ~ LoseTurn  BY DEF Tick, LoseTurn
    <3>3. ASSUME NEW msg \in Message PROVE ~ BeginTurn(msg)  BY Zenon DEF BeginTurn
    <3>4. talk.at # "answer"  OBVIOUS
    <3> QED  BY <3>1, <3>2, <3>3, <3>4, Zenon DEF GuardsNext
  <2>2. talk.row.target = saved.target  BY DEF GuardsInv, CommitInv
  <2> QED  BY <2>1, <2>2 DEF CommitReply
<1> QED  BY <1>1, <1>2, GuardsInvariant, PTL DEF GuardsSpec, SafeguardsHold, NudgeKeepsQuestion
=============================================================================
