------------------------ MODULE KnowledgeFileLifecycle ------------------------
(***************************************************************************)
(* What the owner of a bot is promised about one uploaded knowledge file,  *)
(* with no queue, no worker process and no failure in sight: a file is     *)
(* pending, then worked on, then either available or failed; a failed file *)
(* is tried again or given up; and its text can be found by a search only  *)
(* while it is available.  KnowledgeIngestion implements this.             *)
(***************************************************************************)
EXTENDS FiniteSets

CONSTANT Files          \* the identifiers files may ever get

VARIABLES
  state,                \* the life of each file
  searchable            \* the files whose text a retrieval can return

vars == <<state, searchable>>

States == {"absent", "pending", "working", "failed", "available", "abandoned", "gone"}

TypeOK ==
  /\ state \in [Files -> States]
  /\ searchable \in SUBSET Files

Init ==
  /\ state = [f \in Files |-> "absent"]
  /\ searchable = {}

Move(f, from, to) == state[f] \in from /\ state' = [state EXCEPT ![f] = to]

Register(f) == Move(f, {"absent"}, "pending") /\ UNCHANGED searchable

\* A file that comes with its text, without being worked on.
Seed(f) == Move(f, {"absent"}, "available") /\ searchable' = searchable \cup {f}

\* An upload that is turned down uses up its identifier.
Decline(f) == Move(f, {"absent"}, "gone") /\ UNCHANGED searchable

Start(f) == Move(f, {"pending", "failed"}, "working") /\ UNCHANGED searchable

\* A document without text is available, and nothing in it is searchable.
Finish(f) ==
  /\ Move(f, {"working"}, "available")
  /\ searchable' \in {searchable, searchable \cup {f}}

Fail(f) == Move(f, {"working"}, "failed") /\ UNCHANGED searchable

GiveUp(f) == Move(f, {"failed"}, "abandoned") /\ UNCHANGED searchable

\* The owner removes the bot, and with it all of its files, at any time.
Erase(F) ==
  /\ \A f \in F : state[f] # "absent"
  /\ state' = [f \in Files |-> IF f \in F THEN "gone" ELSE state[f]]
  /\ searchable' = searchable \ F

Next ==
  \/ \E f \in Files : \/ Register(f) \/ Seed(f) \/ Decline(f)
                      \/ Start(f) \/ Finish(f) \/ Fail(f) \/ GiveUp(f)
  \/ \E F \in SUBSET Files : Erase(F)

Spec == Init /\ [][Next]_vars

=============================================================================
