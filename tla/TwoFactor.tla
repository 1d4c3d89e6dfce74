------------------------------- MODULE TwoFactor -------------------------------
(***************************************************************************)
(* The second factor of one account (app/services/totp_service.py,         *)
(* app/api/v1/auth_2fa.py): one row with an encrypted secret, a flag, and  *)
(* the recovery codes in one JSON column.  A request reads the row, decides*)
(* and writes the columns it has changed by the row's id; another request  *)
(* may have written in between.  A secret and its recovery codes are named *)
(* by the number of the set-up that made them.                             *)
(***************************************************************************)
EXTENDS Naturals, FiniteSets

CONSTANTS
    TotpRequests,
    Codes,            \* the recovery codes of a set-up
    MaxSetups,        \* bound: secrets ever made
    MaxTotpRequests   \* bound: requests that are begun

ASSUME TotpBoundAssumption == MaxSetups \in Nat /\ MaxTotpRequests \in Nat

VARIABLES
    totp,       \* the row of user_totp
    totpReqs,
    setups,     \* the secrets made so far
    proved,     \* history: the secrets whose code was verified
    spent,      \* history: how often each recovery code was accepted
    totpBegun

totpVars == <<totp, totpReqs, setups, proved, spent, totpBegun>>

TotpRow == [id : Nat, secret : Nat, active : BOOLEAN, codesOf : Nat, unused : SUBSET Codes]
NoRow == [id |-> 0, secret |-> 0, active |-> FALSE, codesOf |-> 0, unused |-> {}]
TotpIdle == [op |-> "idle", read |-> NoRow, code |-> {}]
TotpRequest == [op : {"idle", "setup", "activate", "recover", "disable"}, read : TotpRow, code : SUBSET Codes]

TotpInit ==
    /\ totp = NoRow
    /\ totpReqs = [r \in TotpRequests |-> TotpIdle]
    /\ setups = 0
    /\ proved = {}
    /\ spent = [g \in 1 .. MaxSetups |-> [c \in Codes |-> 0]]
    /\ totpBegun = 0

Configured == totp.id # 0

\* The request goes on with the row as it has read it.
TotpBegin(r, op, code) ==
    /\ totpReqs[r].op = "idle" /\ totpBegun < MaxTotpRequests
    /\ totpReqs' = [totpReqs EXCEPT ![r] = [op |-> op, read |-> totp, code |-> code]]
    /\ totpBegun' = totpBegun + 1

TotpDone(r) == [totpReqs EXCEPT ![r] = TotpIdle]

MaySetUp == ~ totp.active

SetupRead(r) ==
    /\ MaySetUp
    /\ TotpBegin(r, "setup", {})
    /\ UNCHANGED <<totp, setups, proved, spent>>

\* A new row, refused by its unique key if there is one by now; or the secret and
\* the codes of the row that was read, whose flag is not written.
SetupCommit(r) ==
    LET old == totpReqs[r].read  new == setups + 1
    IN  /\ totpReqs[r].op = "setup" /\ setups < MaxSetups
        /\ setups' = new
        /\ IF old = NoRow
           THEN /\ ~ Configured
                /\ totp' = [id |-> new, secret |-> new, active |-> FALSE, codesOf |-> new, unused |-> Codes]
           ELSE /\ totp.id = old.id
                /\ totp' = [totp EXCEPT !.secret = new, !.codesOf = new, !.unused = Codes]
        /\ totpReqs' = TotpDone(r)
        /\ UNCHANGED <<proved, spent, totpBegun>>

\* Mutant: a code of any secret of the account will do.
CodeFitsAny(secret) == secret \in 1 .. setups

\* The secret from which the code was made is the one of the row.
CodeFits(secret) == secret = totp.secret

ActivateRead(r, secret) ==
    /\ Configured /\ ~ totp.active
    /\ CodeFits(secret)
    /\ TotpBegin(r, "activate", {})
    /\ proved' = proved \cup {secret}
    /\ UNCHANGED <<totp, setups, spent>>

\* Only the flag is written.
ActivateCommit(r) ==
    /\ totpReqs[r].op = "activate" /\ totp.id = totpReqs[r].read.id
    /\ totp' = [totp EXCEPT !.active = TRUE]
    /\ totpReqs' = TotpDone(r)
    /\ UNCHANGED <<setups, proved, spent, totpBegun>>

\* The recovery codes that are still accepted.
Offered == totp.unused

\* Log-in with a recovery code; with a code of the secret nothing is written.
RecoverRead(r, code) ==
    /\ totp.active /\ code \in Offered
    /\ TotpBegin(r, "recover", {code})
    /\ UNCHANGED <<totp, setups, proved, spent>>

\* The codes left in the list that was read.
Marked(q) == q.read.unused \ q.code

\* The whole list is written back.
RecoverCommit(r) ==
    LET q == totpReqs[r]
    IN  /\ q.op = "recover" /\ totp.id = q.read.id
        /\ totp' = [totp EXCEPT !.codesOf = q.read.codesOf, !.unused = Marked(q)]
        /\ spent' = [spent EXCEPT ![q.read.codesOf] = [c \in Codes |-> @[c] + IF c \in q.code THEN 1 ELSE 0]]
        /\ totpReqs' = TotpDone(r)
        /\ UNCHANGED <<setups, proved, totpBegun>>

DisableRead(r) ==
    /\ Configured
    /\ TotpBegin(r, "disable", {})
    /\ UNCHANGED <<totp, setups, proved, spent>>

\* A row that is gone already is no error.
DisableCommit(r) ==
    /\ totpReqs[r].op = "disable"
    /\ totp' = IF totp.id = totpReqs[r].read.id THEN NoRow ELSE totp
    /\ totpReqs' = TotpDone(r)
    /\ UNCHANGED <<setups, proved, spent, totpBegun>>

\* The write is refused (the row is there already, or gone), or the process dies.
TotpFail(r) ==
    /\ totpReqs[r].op # "idle"
    /\ totpReqs' = TotpDone(r)
    /\ UNCHANGED <<totp, setups, proved, spent, totpBegun>>

TotpNext ==
    \E r \in TotpRequests :
        \/ SetupRead(r) \/ SetupCommit(r) \/ ActivateCommit(r)
        \/ \E secret \in 1 .. MaxSetups : ActivateRead(r, secret)
        \/ \E code \in Codes : RecoverRead(r, code)
        \/ RecoverCommit(r) \/ DisableRead(r) \/ DisableCommit(r) \/ TotpFail(r)

TotpSpec == TotpInit /\ [][TotpNext]_totpVars

-----------------------------------------------------------------------------
TotpTypeOK ==
    /\ totp \in TotpRow
    /\ totpReqs \in [TotpRequests -> TotpRequest]
    /\ setups \in 0 .. MaxSetups
    /\ proved \subseteq 1 .. MaxSetups
    /\ spent \in [1 .. MaxSetups -> [Codes -> Nat]]
    /\ totpBegun \in 0 .. MaxTotpRequests

\* The request that commits has read a row that has changed since.
Stale(r) == totpReqs[r].read # totp
Commits(r, op) == totpReqs[r].op = op /\ totpReqs'[r].op = "idle"

Unproved == totp.active /\ totp.secret \notin proved

\* A second factor is active only with a secret from which the client has shown a
\* code, unless a set-up ran beside the activation (setup_totp, activate_totp).
ActiveSecretIsProved ==
    [][Unproved' => \/ Unproved
                    \/ \E r \in TotpRequests : Commits(r, "setup") /\ Stale(r) /\ totp.active
                    \/ \E r \in TotpRequests : Commits(r, "activate") /\ Stale(r)]_totpVars

Accepted(g, c) == totp.codesOf = g /\ c \in totp.unused

\* A recovery code is accepted once (verify_totp): a code that was spent is taken
\* again, or put back on the list, only by a request whose copy of the list is old.
RecoveryCodeOnce ==
    [][\A g \in 1 .. MaxSetups, c \in Codes :
        /\ spent'[g][c] > spent[g][c] /\ spent[g][c] > 0
           => Accepted(g, c) \/ \E r \in TotpRequests : Commits(r, "recover") /\ Stale(r)
        /\ Accepted(g, c)' /\ spent'[g][c] > 0
           => (Accepted(g, c) /\ spent[g][c] > 0) \/ \E r \in TotpRequests : Commits(r, "recover") /\ Stale(r)]_totpVars

\* What a second factor is worth, whichever requests overlap (totp_service.py): it was
\* proved, and its recovery codes are spent once, but for requests with an old copy.
SecondFactorHolds == ActiveSecretIsProved /\ RecoveryCodeOnce

\* The inductive invariant behind SecondFactorHolds: a request decided rightly by the row
\* it has read, and no code of a set-up to come was spent.
ReadRight(r) ==
    LET q == totpReqs[r]
    IN  /\ q.op = "setup" => ~ q.read.active
        /\ q.op = "activate" => q.read.secret \in proved
        /\ q.op = "recover" => q.code \subseteq q.read.unused
        /\ q.read.codesOf <= setups

TotpInv ==
    /\ \A r \in TotpRequests : ReadRight(r)
    /\ totp.codesOf <= setups
    /\ \A g \in 1 .. MaxSetups, c \in Codes : g > setups => spent[g][c] = 0
=============================================================================
