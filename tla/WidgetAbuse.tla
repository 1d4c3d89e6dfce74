------------------------------- MODULE WidgetAbuse -------------------------------
(***************************************************************************)
(* What one visitor of the widget may send (enforce_public_widget_chat_turn*)
(* of app/core/public_widget_abuse.py, app/core/widget_abuse_redis.py):    *)
(* messages per window, copies of one text per window, copies in a row.    *)
(* The counters are kept in Redis, or in the process where there is none;  *)
(* both ways judge the same messages here.  A text stands for its          *)
(* fingerprint; one that is too long is refused before it is counted.      *)
(***************************************************************************)
EXTENDS Naturals, FiniteSets, Sequences

CONSTANTS
    Wordings,
    BurstLimit, BurstWindow,   \* public_widget_abuse_session_burst_per_minute
    SameLimit, SameWindow,     \* public_widget_abuse_identical_total_per_window
    RowLimit, RowTtl,          \* public_widget_abuse_max_consecutive_identical
    MaxAbuseTime,              \* bound: the clock
    MaxMessages,               \* bound: the messages
    MaxFaults                  \* bound: the errors of Redis

ASSUME AbuseAssumption ==
    /\ {BurstLimit, BurstWindow, SameLimit, SameWindow, RowLimit, RowTtl} \subseteq Nat \ {0}
    /\ MaxAbuseTime \in Nat /\ MaxMessages \in Nat /\ MaxFaults \in Nat

VARIABLES
    lenient,     \* the setting: an error of Redis skips the check
    time,
    burst,       \* the messages that were counted, by backend
    same,        \* the copies of each text that were counted, by backend
    streak,      \* the last text, and how many times in a row, by backend
    messages,    \* history: what was sent, and which check refused it
    cleared,     \* history: a map of the process was emptied
    faults

abuseVars == <<lenient, time, burst, same, streak, messages, cleared, faults>>

Backends == {"redis", "memory"}
Checks == {"burst", "same", "row"}
Before == [burst |-> {}, same |-> {"burst"}, row |-> {"burst", "same"}]
Stamps == 0 .. MaxAbuseTime
Entry == [at : Stamps, id : 1 .. MaxMessages]
NoStreak == [text |-> {}, count |-> 0, at |-> 0]

AbuseInit ==
    /\ lenient \in BOOLEAN
    /\ time = 0
    /\ burst = [b \in Backends |-> {}]
    /\ same = [b \in Backends |-> [t \in Wordings |-> {}]]
    /\ streak = [b \in Backends |-> NoStreak]
    /\ messages = <<>>
    /\ cleared = FALSE /\ faults = 0

Within(stored, window) == {h \in stored : h.at + window > time}

\* The length of the row with this message; Redis forgets it after its time to live.
StreakWith(b, text) ==
    IF streak[b].text = {text} /\ (b = "memory" \/ time < streak[b].at + RowTtl) THEN streak[b].count + 1 ELSE 1

\* Mutant: the copy that reaches the limit is let pass in the process, too.
SameFullLate(b, text) == Cardinality(Within(same[b][text], SameWindow)) >= SameLimit

\* The list of the process holds the message that is judged, the set of Redis does not.
SameFull(b, text) ==
    Cardinality(Within(same[b][text], SameWindow)) + (IF b = "memory" THEN 1 ELSE 0) >= SameLimit

BurstFull(b) == Cardinality(Within(burst[b], BurstWindow)) >= BurstLimit

Full(b, text, check) ==
    CASE check = "burst" -> BurstFull(b)
      [] check = "same"  -> SameFull(b, text)
      [] check = "row"   -> StreakWith(b, text) >= RowLimit

\* failing: the checks for which Redis answers with an error.
RefusedBy(b, text, check, failing) ==
    IF b = "redis" /\ check \in failing THEN ~ lenient ELSE Full(b, text, check)
Reached(b, text, check, failing) == \A c \in Before[check] : ~ RefusedBy(b, text, c, failing)
Counts(b, text, check, failing) == Reached(b, text, check, failing) /\ ~ (b = "redis" /\ check \in failing)

Refusals(b, text, failing) ==
    {c \in Checks : Reached(b, text, c, failing) /\ RefusedBy(b, text, c, failing)}

\* A refused copy counts in the process, and not in Redis.
CountsSame(b, text, failing) ==
    Counts(b, text, "same", failing) /\ (b = "memory" \/ ~ Full(b, text, "same"))

\* The row goes on with a refused copy.
CountsRow(b, text, failing) == Counts(b, text, "row", failing)

Message(text, failing) ==
    LET hit == [at |-> time, id |-> Len(messages) + 1]
    IN  /\ Len(messages) < MaxMessages
        /\ faults + Cardinality(failing) <= MaxFaults
        /\ faults' = faults + Cardinality(failing)
        /\ burst' = [b \in Backends |->
               IF Counts(b, text, "burst", failing) /\ ~ BurstFull(b) THEN Within(burst[b], BurstWindow) \cup {hit} ELSE burst[b]]
        /\ same' = [b \in Backends |->
               IF CountsSame(b, text, failing) THEN [same[b] EXCEPT ![text] = Within(@, SameWindow) \cup {hit}] ELSE same[b]]
        /\ streak' = [b \in Backends |->
               IF CountsRow(b, text, failing) THEN [text |-> {text}, count |-> StreakWith(b, text), at |-> time] ELSE streak[b]]
        /\ messages' = Append(messages, [text |-> text, at |-> time, failing |-> failing,
                                         refused |-> [b \in Backends |-> Refusals(b, text, failing)]])
        /\ UNCHANGED <<lenient, time, cleared>>

\* The maps of the process hold too many visitors and are emptied.
ClearMaps ==
    /\ ~ cleared
    /\ cleared' = TRUE
    /\ \/ same' = [same EXCEPT !["memory"] = [t \in Wordings |-> {}]] /\ UNCHANGED streak
       \/ streak' = [streak EXCEPT !["memory"] = NoStreak] /\ UNCHANGED same
    /\ UNCHANGED <<lenient, time, burst, messages, faults>>

AbuseTick ==
    /\ time < MaxAbuseTime
    /\ time' = time + 1
    /\ UNCHANGED <<lenient, burst, same, streak, messages, cleared, faults>>

AbuseNext ==
    \/ \E text \in Wordings, failing \in {{}} \cup {{c} : c \in Checks} : Message(text, failing)
    \/ ClearMaps \/ AbuseTick

AbuseSpec == AbuseInit /\ [][AbuseNext]_abuseVars

-----------------------------------------------------------------------------
AbuseTypeOK ==
    /\ {lenient, cleared} \subseteq BOOLEAN /\ time \in Stamps /\ faults \in 0 .. MaxFaults
    /\ burst \in [Backends -> SUBSET Entry]
    /\ same \in [Backends -> [Wordings -> SUBSET Entry]]
    /\ \A b \in Backends : streak[b].text \subseteq Wordings /\ streak[b].count \in 0 .. MaxMessages /\ streak[b].at \in Stamps

Newest == {Len(messages)} \ {0}   \* what was found of the ones before does not change
Passed(b, i) == messages[i].refused[b] = {}

\* However refused and accepted messages mix, a window holds no more copies of a text
\* than the limit, but for those that an error of Redis has let pass; in the process
\* one less, for the copy that reaches the limit is refused there
\* (len(series) >= ident_limit after the append).
CopiesPerWindow ==
    \A i \in Newest, b \in Backends :
        \/ b = "memory" /\ cleared
        \/ Cardinality({j \in 1 .. i : /\ Passed(b, j) /\ messages[j].text = messages[i].text
                                       /\ messages[j].at + SameWindow > messages[i].at
                                       /\ ~ (b = "redis" /\ lenient /\ "same" \in messages[j].failing)})
               <= SameLimit - (IF b = "memory" THEN 1 ELSE 0)

\* The messages that the last check has judged, up to the i-th.
Judged(b, i) ==
    {j \in 1 .. i : messages[j].refused[b] \cap Before["row"] = {} /\ ~ (b = "redis" /\ "row" \in messages[j].failing)}

\* Those of one text, the last ones, without a pause in which Redis forgets.
InARow(b, i) ==
    {j \in Judged(b, i) :
        \A k \in {k \in Judged(b, i) : k >= j} :
            /\ messages[k].text = messages[i].text
            /\ k > j /\ b = "redis" => \E l \in Judged(b, k - 1) : l >= j /\ messages[k].at < messages[l].at + RowTtl}

\* A text is refused as a repetition exactly if it was sent so many times in a row,
\* refused copies included and messages left out that an earlier check has refused
\* (check_and_record, _streak_state).
RowIsStopped ==
    \A i \in Newest, b \in Backends :
        i \in Judged(b, i) /\ ~ (b = "memory" /\ cleared)
            => ("row" \in messages[i].refused[b] <=> Cardinality(InARow(b, i)) >= RowLimit)

\* As long as both have let the same messages pass, the process lets none pass that
\* Redis refuses: where the two part, it is the process that refuses.
MemoryIsStricter ==
    cleared \/ faults > 0 \/ \A i \in Newest :
        (\A j \in 1 .. i - 1 : Passed("memory", j) <=> Passed("redis", j)) /\ Passed("memory", i) => Passed("redis", i)

\* Repetitions are stopped where they are meant to be, in both backends
\* (enforce_public_widget_chat_turn).
RepetitionIsStopped == CopiesPerWindow /\ RowIsStopped /\ MemoryIsStricter

-----------------------------------------------------------------------------
\* The strengthening that makes RepetitionIsStopped inductive.
\* A counter speaks for all of the messages unless the maps of the process were emptied.
Keeps(b) == b = "redis" \/ ~ cleared

HeardMessage == [text : Wordings, at : Stamps, failing : SUBSET Checks, refused : [Backends -> SUBSET Checks]]

MessagesInOrder ==
    /\ messages \in Seq(HeardMessage) /\ Len(messages) <= MaxMessages
    /\ \A j \in DOMAIN messages : messages[j].at <= time /\ \A k \in j .. Len(messages) : messages[j].at <= messages[k].at
    /\ streak \in [Backends -> [text : SUBSET Wordings, count : 0 .. Len(messages), at : Stamps]]
    /\ \A b \in Backends : IsFiniteSet(burst[b]) /\ \A t \in Wordings : IsFiniteSet(same[b][t])

\* The copies of a text that have passed and are in the window now: each is stored, and
\* they are no more than the limit.
Copies(b, text) ==
    {j \in 1 .. Len(messages) : /\ Passed(b, j) /\ messages[j].text = text
                               /\ messages[j].at + SameWindow > time
                               /\ ~ (b = "redis" /\ lenient /\ "same" \in messages[j].failing)}

CopiesAreStored ==
    \A b \in Backends, t \in Wordings : Keeps(b) =>
        /\ \A j \in Copies(b, t) : [at |-> messages[j].at, id |-> j] \in same[b][t]
        /\ Cardinality(Copies(b, t)) <= SameLimit - (IF b = "memory" THEN 1 ELSE 0)

\* The row is that of the last message that was judged.
Counted(b, l) == [text |-> {messages[l].text}, count |-> Cardinality(InARow(b, l)), at |-> messages[l].at]

RowIsCounted ==
    \A b \in Backends : Keeps(b) =>
        \/ Judged(b, Len(messages)) = {} /\ streak[b].text = {}
        \/ \E l \in Judged(b, Len(messages)) :
              (\A j \in Judged(b, Len(messages)) : j <= l) /\ streak[b] = Counted(b, l)

\* Without an error the process has all that Redis has, and as long as both have let the
\* same messages pass, its row is as long, or long enough to refuse.
AgreeSoFar == \A j \in 1 .. Len(messages) : Passed("memory", j) <=> Passed("redis", j)

MemoryHasAll ==
    faults = 0 =>
        /\ burst["redis"] = burst["memory"]
        /\ ~ cleared => \A t \in Wordings : Within(same["redis"][t], SameWindow) \subseteq same["memory"][t]
        /\ ~ cleared /\ AgreeSoFar =>
              \A t \in Wordings :
                  StreakWith("memory", t) < RowLimit => StreakWith("redis", t) <= StreakWith("memory", t)

AbuseInv == MessagesInOrder /\ CopiesAreStored /\ RowIsCounted /\ MemoryHasAll /\ RepetitionIsStopped
================================================================================
