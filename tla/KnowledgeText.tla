----------------------------- MODULE KnowledgeText -----------------------------
(***************************************************************************)
(* What becomes of the text of a PDF: its pages are cut into chunks        *)
(* (services/knowledge_text_chunking.py), which a question of a visitor    *)
(* finds again (services/knowledge_retrieval_service.py, repositories/     *)
(* knowledge_retrieval_repository.py), and as many of which as a budget    *)
(* allows go to the model (services/knowledge_context_selection.py).       *)
(***************************************************************************)
EXTENDS Naturals, Sequences, FiniteSets, SequencesExt, FiniteSetsExt

CONSTANTS
    PageLength, PairLength,   \* bound one page alone, and each page of two
    MaxChars,                 \* the values of knowledge_chunk_max_chars
    Overlap,                  \* _OVERLAP_CHARS
    Densities,                \* twice the characters per token
    CjkDensity,               \* the same for Chinese and Japanese
    Costs,                    \* token counts of chunks
    MaxFound, LimitCap, ChunksCap, TokensCap,
    Fractions, LeastBudget    \* of the budget a chat turn gets: percentages, and at least so much

ASSUME TextAssumption ==
    /\ MaxChars \cup Densities \cup {CjkDensity} \subseteq Nat \ {0}
    /\ IsFiniteSet(Densities) /\ Densities # {} /\ Costs \subseteq Nat
    /\ {PageLength, PairLength, Overlap, MaxFound, LimitCap, ChunksCap, TokensCap} \subseteq Nat
    /\ Fractions \subseteq 1 .. 100 /\ LeastBudget \in 1 .. TokensCap

VARIABLES
    task,      \* what is asked for, once
    outcome    \* what comes of it

textVars == <<task, outcome>>

NoTask == [kind |-> "none"]

-----------------------------------------------------------------------------
(* A text is a sequence of characters: a visible one is its own number,     *)
(* which tells it from all others, white space is one of these.             *)

Space == 0
Newline == -1

Visible(t) == {i \in DOMAIN t : t[i] > 0}

\* What of a sequence is in a set, in order.
Kept(s, set) ==
    LET kept[i \in 0 .. Len(s)] ==
          IF i = 0 THEN << >> ELSE IF s[i] \in set THEN Append(kept[i - 1], s[i]) ELSE kept[i - 1]
    IN  kept[Len(s)]

Seen(t) == Kept(t, Nat \ {0})
Strip(t) == IF Visible(t) = {} THEN << >> ELSE SubSeq(t, Min(Visible(t)), Max(Visible(t)))

\* A text in pieces, each from one of the starts up to the next.
Longer(pieces, c) == IF pieces = << >> THEN << >> ELSE Append(Front(pieces), Append(Last(pieces), c))
Pieces(t, starts) ==
    LET cut[i \in 0 .. Len(t)] ==
          IF i = 0 THEN << >> ELSE IF i \in starts THEN Append(cut[i - 1], <<t[i]>>) ELSE Longer(cut[i - 1], t[i])
    IN  cut[Len(t)]

\* The pieces between white space with at least n newlines, stripped: the
\* paragraphs, by the regular expression for blank lines, and the lines.
Separated(t, n) ==
    LET newlines(i, j) == Cardinality({k \in i .. j : t[k] = Newline})
        starts == {i \in Visible(t) : LET before == {h \in Visible(t) : h < i}
                                     IN  before = {} \/ newlines(Max(before), i) >= n}
        pieces == Pieces(t, starts)
    IN  [k \in DOMAIN pieces |-> Strip(pieces[k])]

Paragraphs(t) == Separated(t, 2)
Lines(t) == Separated(t, 1)

\* Where a window of an oversized unit ends: at its last newline, unless that is in
\* its first half or has only white space before it.
WindowEnd(t, start, max) ==
    LET end == IF start + max < Len(t) THEN start + max ELSE Len(t)
        breaks == {i \in 0 .. end - start - 1 : t[start + i + 1] = Newline}
        nl == IF breaks = {} THEN 0 ELSE Max(breaks)
    IN  IF end < Len(t) /\ nl > Max({max \div 2, 1}) /\ Visible(SubSeq(t, start + 1, start + nl)) # {}
        THEN start + nl ELSE end

\* A mutant: the character at the end of a window belongs to none.
NextWindowSkips(w, t, max) ==
    IF w.start >= Len(t) THEN w
    ELSE LET end == WindowEnd(t, w.start, max)
             piece == Strip(SubSeq(t, w.start + 1, end))
         IN  [start |-> end + 1, parts |-> IF piece = << >> THEN w.parts ELSE Append(w.parts, piece)]

NextWindow(w, t, max) ==
    IF w.start >= Len(t) THEN w
    ELSE LET end == WindowEnd(t, w.start, max)
             piece == Strip(SubSeq(t, w.start + 1, end))
         IN  [start |-> end, parts |-> IF piece = << >> THEN w.parts ELSE Append(w.parts, piece)]

\* A window takes a character at least: as many windows as there are characters are enough.
SplitOversized(t, max) ==
    LET after[i \in 0 .. Len(t)] ==
          IF i = 0 THEN [start |-> 0, parts |-> << >>] ELSE NextWindow(after[i - 1], t, max)
    IN  after[Len(t)].parts

\* Units are joined as long as they fit; one that is too long is cut.
Flushed(acc) == IF acc.current = << >> THEN acc.done ELSE Append(acc.done, acc.current)
Joined(acc, u, separator) == IF acc.current = << >> THEN u ELSE acc.current \o separator \o u
AddUnit(acc, u, max, separator) ==
    IF Len(u) > max THEN [done |-> Flushed(acc) \o SplitOversized(u, max), current |-> << >>]
    ELSE IF Len(Joined(acc, u, separator)) > max THEN [done |-> Flushed(acc), current |-> u]
    ELSE [acc EXCEPT !.current = Joined(acc, u, separator)]

Pack(units, max, separator) ==
    LET after[i \in 0 .. Len(units)] ==
          IF i = 0 THEN [done |-> << >>, current |-> << >>] ELSE AddUnit(after[i - 1], units[i], max, separator)
    IN  Flushed(after[Len(units)])

\* A page of one long paragraph is packed by its lines, or cut if it is one line.
PageSegments(t, max) ==
    LET paragraphs == Paragraphs(t) IN
    IF Len(paragraphs) = 1 /\ Len(paragraphs[1]) > max
    THEN LET lines == Lines(paragraphs[1]) IN
         IF Len(lines) > 1 THEN Pack(lines, max, <<Newline>>) ELSE SplitOversized(paragraphs[1], max)
    ELSE Pack(paragraphs, max, <<Newline, Newline>>)

CeilDiv(a, b) == (a + b - 1) \div b

\* The density is that of the first characters of the chunk.
IsCjk(page) == page.cjk
TokenCount(length, density) == IF length = 0 THEN 0 ELSE CeilDiv(2 * length, density)
DensityOf(page, density) == IF IsCjk(page) /\ CjkDensity < density THEN CjkDensity ELSE density

PageChunks(page, n, max, density) ==
    LET segments == PageSegments(page.text, max) IN
    [i \in DOMAIN segments |-> [page |-> n, own |-> segments[i], text |-> segments[i],
                                tokens |-> TokenCount(Len(segments[i]), DensityOf(page, density))]]

\* The last characters of a chunk are repeated before the next, whose tokens are
\* counted again at the rate of its own.
Tail_(t) == Strip(SubSeq(t, IF Len(t) > Overlap THEN Len(t) - Overlap + 1 ELSE 1, Len(t)))
Overlapped(previous, chunk) ==
    LET text == Tail_(previous.own) \o <<Newline>> \o chunk.own IN
    IF Tail_(previous.own) = << >> THEN chunk
    ELSE [chunk EXCEPT !.text = text, !.tokens = CeilDiv(Len(text) * chunk.tokens, Len(chunk.own))]

ChunkSpecs(pages, max, density) ==
    LET cut == FlattenSeq([n \in DOMAIN pages |-> PageChunks(pages[n], n, max, density)]) IN
    [i \in DOMAIN cut |-> IF i = 1 THEN cut[i] ELSE Overlapped(cut[i - 1], cut[i])]

-----------------------------------------------------------------------------
(* Retrieval: three searches, each only if the one before found nothing;    *)
(* the rows of one come in the order of their rank, at most so many.        *)

Clamped(asked, cap) == IF asked > cap THEN cap ELSE asked   \* what is asked for is at least 1

Found(strict, lenient, fuzzy, limit) ==
    LET rows == IF strict # << >> THEN strict ELSE IF lenient # << >> THEN lenient ELSE fuzzy
    IN  SubSeq(rows, 1, Clamped(limit, Len(rows)))

\* A mutant: a chunk that does not fit is left out, and the next one tried.
SelectHitSkipping(acc, h, maxChunks, maxTokens) ==
    IF Len(acc.items) >= maxChunks \/ h.tokens = 0 \/ acc.total + h.tokens > maxTokens THEN acc
    ELSE [acc EXCEPT !.items = Append(@, h), !.total = @ + h.tokens]

\* The best chunks go to the model as long as the budget lasts; the first one that
\* does not fit ends it, empty ones are left out.
SelectHit(acc, h, maxChunks, maxTokens) ==
    IF acc.over \/ h.tokens = 0 THEN acc
    ELSE IF Len(acc.items) >= maxChunks \/ acc.total + h.tokens > maxTokens THEN [acc EXCEPT !.over = TRUE]
    ELSE [acc EXCEPT !.items = Append(@, h), !.total = @ + h.tokens]

Unselected == [items |-> << >>, total |-> 0, over |-> FALSE]
Selected(hits, maxChunks, maxTokens) ==
    LET after[i \in 0 .. Len(hits)] ==
          IF i = 0 THEN Unselected ELSE SelectHit(after[i - 1], hits[i], maxChunks, maxTokens)
    IN  after[Len(hits)]

\* A mutant: the fraction of the default is not held against the ceiling.
TurnBudgetUncapped(base, percent) == Max({LeastBudget, (base * percent) \div 100})

\* The part of the default budget that a chat turn may fill.
TurnBudget(base, percent) == Max({LeastBudget, Min({(base * percent) \div 100, TokensCap})})

\* Without files that are ready, or when the search fails, a turn goes on without text.
Context(usable, hits, chunks, tokens) ==
    IF usable THEN Selected(hits, Clamped(chunks, ChunksCap), Clamped(tokens, TokensCap))
    ELSE Unselected

-----------------------------------------------------------------------------
TextInit == task = NoTask /\ outcome = [items |-> << >>]

Numbered(pattern, first) == [i \in DOMAIN pattern |-> IF pattern[i] > 0 THEN first + i ELSE pattern[i]]
Patterns(n) == UNION {[1 .. k -> {1, Space, Newline}] : k \in 0 .. n}
OnePage == {<<[text |-> Numbered(p, 0), cjk |-> FALSE]>> : p \in Patterns(PageLength)}
LongSecond == {<<[text |-> Numbered(<<1, Newline, Newline, 1>> \o p, 0), cjk |-> FALSE]>> : p \in Patterns(PageLength)}
TwoPages == {<<[text |-> Numbered(p, 0), cjk |-> c], [text |-> Numbered(q, Len(p)), cjk |-> d]>> :
               p, q \in Patterns(PairLength), c, d \in BOOLEAN}

\* The worker stores the chunks of a file (knowledge_file_processing_service.py).
StoreChunks(pages, max, density) ==
    /\ task = NoTask /\ task' = [kind |-> "chunks", pages |-> pages, max |-> max, density |-> density]
    /\ outcome' = [items |-> ChunkSpecs(pages, max, density)]

Rows_(n) == {[i \in 1 .. k |-> [chunk |-> i, tokens |-> c[i]]] : k \in {n}, c \in [1 .. n -> Costs]}
Results_ == UNION {Rows_(n) : n \in 0 .. MaxFound}

\* The owner tries the search, with limits of the request.
Retrieve(strict, lenient, fuzzy, limit, chunks, tokens) ==
    /\ task = NoTask
    /\ task' = [kind |-> "retrieve", limit |-> limit, chunks |-> chunks, tokens |-> tokens,
               hits |-> Found(strict, lenient, fuzzy, Clamped(limit, LimitCap))]
    /\ outcome' = Context(TRUE, Found(strict, lenient, fuzzy, Clamped(limit, LimitCap)), chunks, tokens)

\* A visitor's message is answered: the limits are those of the settings.
SearchForTurn(usable, rows, chunks, base, percent) ==
    LET hits == Found(rows, << >>, << >>, LimitCap) IN
    /\ task = NoTask
    /\ task' = [kind |-> "turn", hits |-> IF usable THEN hits ELSE << >>, chunks |-> chunks, base |-> base,
               tokens |-> TurnBudget(base, percent)]
    /\ outcome' = Context(usable, hits, chunks, TurnBudget(base, percent))

TextNext ==
    \/ \E pages \in OnePage \cup LongSecond, max \in MaxChars : StoreChunks(pages, max, Max(Densities))
    \/ \E pages \in TwoPages, max \in MaxChars, density \in Densities : StoreChunks(pages, max, density)
    \/ \E rows \in Results_, limit \in 1 .. LimitCap + 1, chunks \in 1 .. ChunksCap + 1, tokens \in 1 .. TokensCap + 1 :
          \/ Retrieve(rows, << >>, << >>, limit, chunks, tokens)
          \/ Retrieve(<< >>, rows, << >>, limit, chunks, tokens)
          \/ Retrieve(<< >>, << >>, rows, limit, chunks, tokens)
    \/ \E rows \in Results_, usable \in BOOLEAN, chunks \in 1 .. ChunksCap, base \in LeastBudget .. TokensCap + 1,
          percent \in Fractions : SearchForTurn(usable, rows, chunks, base, percent)

TextSpec == TextInit /\ [][TextNext]_textVars

-----------------------------------------------------------------------------
Chunked == task.kind = "chunks"
Items == outcome.items
Own == [i \in DOMAIN Items |-> Items[i].own]

\* Every visible character of every page is in exactly one chunk's own text, in the
\* order of the pages, and under its page's number (build_chunk_specs_from_pages).
NothingLost ==
    Chunked => \A n \in DOMAIN task.pages :
        FlattenSeq([i \in DOMAIN Items |-> IF Items[i].page = n THEN Seen(Own[i]) ELSE << >>]) = Seen(task.pages[n].text)

\* The pages are in order, no chunk's own text is longer than the limit, empty or
\* padded, and a paragraph that fits is never cut (_pack_units, _split_oversized_unit).
CutWell ==
    Chunked =>
        /\ \A i \in DOMAIN Items :
              /\ Own[i] # << >> /\ Own[i] = Strip(Own[i]) /\ Len(Own[i]) <= task.max
              /\ Len(Items[i].text) <= task.max + Overlap + 1
              /\ i > 1 => Items[i - 1].page <= Items[i].page
        /\ \A n \in DOMAIN task.pages : \A k \in DOMAIN Paragraphs(task.pages[n].text) :
              LET p == Paragraphs(task.pages[n].text)[k] IN
              Len(p) <= task.max => \E i \in DOMAIN Items : ToSet(Seen(p)) \subseteq ToSet(Own[i])

\* No chunk could have taken the first paragraph of the next, and none counts fewer
\* tokens than its text has at the set density: what the budget of a prompt counts is
\* never too little, though an overlap is counted at the rate of the text behind it.
PackedAndCounted ==
    Chunked => \A i \in DOMAIN Items :
        /\ Items[i].tokens >= TokenCount(Len(Items[i].text), task.density)
        /\ i > 1 /\ Items[i - 1].page = Items[i].page =>
              LET paragraphs == Paragraphs(task.pages[Items[i].page].text)
                  first == {k \in DOMAIN paragraphs : paragraphs[k][1] = Own[i][1]}
              IN  \A k \in first : Len(paragraphs[k]) <= task.max => Len(Own[i - 1]) + 2 + Len(paragraphs[k]) > task.max
                                     \/ \E h \in 1 .. k - 1 : Len(paragraphs[h]) > task.max

TokensOf(items) ==
    LET sum[i \in 0 .. Len(items)] == IF i = 0 THEN 0 ELSE sum[i - 1] + items[i].tokens
    IN  sum[Len(items)]

\* What goes to the model are the best of what was found: within all three limits, no
\* chunk passed over for a worse one, and not one more would have fitted
\* (select_knowledge_context, _effective_limit, _resolve_context_budget).
BestWithinBudget ==
    task.kind \in {"retrieve", "turn"} =>
        LET hits == Kept(task.hits, {h \in ToSet(task.hits) : h.tokens > 0})
            n == Len(outcome.items)
            total == TokensOf(outcome.items)
            chunks == Clamped(task.chunks, ChunksCap)
            tokens == Clamped(task.tokens, TokensCap)
        IN  /\ Len(task.hits) <= LimitCap /\ n <= chunks /\ total <= tokens /\ total = outcome.total
            /\ outcome.items = SubSeq(hits, 1, n)
            /\ n < Len(hits) => n = chunks \/ total + hits[n + 1].tokens > tokens

\* A turn's text is the beginning of what the whole default budget would hold, however
\* the least budget, the fraction and the ceiling meet (_build_knowledge_context_for_prompt).
TurnGetsTheBeginning ==
    task.kind = "turn" =>
        /\ task.tokens <= Clamped(task.base, TokensCap)
        /\ IsPrefix(outcome.items, Context(TRUE, task.hits, task.chunks, task.base).items)

\* What a PDF says reaches the model in order, whole and within the budget.
TextHolds == NothingLost /\ CutWell /\ PackedAndCounted /\ BestWithinBudget /\ TurnGetsTheBeginning
=============================================================================
