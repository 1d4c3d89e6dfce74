------------------------- MODULE MCKnowledgeIngestion -------------------------
(* Small instances of KnowledgeIngestion, and beside them what its worker and the    *)
(* search do with the text of a file (KnowledgeText).  A behaviour is about one.     *)
EXTENDS KnowledgeIngestion, KnowledgeText, TLC

CONSTANTS f1, f2, b1, w1, w2

OneBot == [f \in Files |-> b1]

VARIABLE focus   \* what this behaviour is about

knowledgeVars == <<focus, vars, textVars>>

KnowledgeInit == focus \in {"files", "text"} /\ Init /\ TextInit

KnowledgeNext ==
    /\ UNCHANGED focus
    /\ \/ focus = "files" /\ Next /\ UNCHANGED textVars
       \/ focus = "text" /\ TextNext /\ UNCHANGED vars

\* Without a file nothing is to be scheduled or popped: beside the text, fairness asks nothing.
KnowledgeSpec == KnowledgeInit /\ [][KnowledgeNext]_knowledgeVars /\ Fairness
=============================================================================
