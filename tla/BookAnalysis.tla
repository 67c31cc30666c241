---------------------------- MODULE BookAnalysis ----------------------------
(***************************************************************************)
(* What AnalyzeUseCase makes of the blocks of its sources, as operators: a *)
(* book is cut into chunks, the model's answers become candidates, four    *)
(* chunks at a time are reduced to fewer cards, then the book, and a       *)
(* review may accept, reject or rewrite what it flagged.                   *)
(*                                                                         *)
(* The size of a text is its number of tokens and its content one of       *)
(* Texts; what a model answers is chosen where these operators are used.   *)
(***************************************************************************)
EXTENDS Integers, SequencesExt, FiniteSetsExt

CONSTANTS
    Target,         \* target_tokens of a chunk
    SectionChunks,  \* chunks that are reduced together: four in the code
    CardLimit,      \* units a reduction is shown: 24 of a section, 96 of a book
    Texts,          \* what a card may say
    Weak,           \* the texts that are flagged: too short or of low confidence
    Critics,        \* critics that are heard for one flag
    ReviewCalls     \* max_calls of the review

ASSUME AnalysisAssumption ==
    /\ Target \in Nat \ {0} /\ SectionChunks \in Nat \ {0} /\ CardLimit \in Nat \ {0}
    /\ Weak \subseteq Texts /\ Critics \in Nat /\ ReviewCalls \in Nat

(***************************************************************************)
(* Chunks.  A block is the sequence of the sizes of its lines.             *)
(***************************************************************************)
Size(sizes) == FoldLeft(+, 0, sizes)

\* _split_long_line: windows of at most Target tokens.
Windows(size) ==
    [i \in 1 .. (size + Target - 1) \div Target |-> Min({Target, size - (i - 1) * Target})]

\* _split_text: whole lines while they fit, a longer line in windows.
Fragments(lines) ==
    IF Size(lines) <= Target THEN <<Size(lines)>>
    ELSE LET step(acc, line) ==
                 IF line > Target
                 THEN [out |-> (IF acc.open > 0 THEN Append(acc.out, acc.open) ELSE acc.out)
                                  \o Windows(line), open |-> 0]
                 ELSE IF acc.open > 0 /\ acc.open + line > Target
                 THEN [out |-> Append(acc.out, acc.open), open |-> line]
                 ELSE [acc EXCEPT !.open = @ + line]
             last == FoldLeft(step, [out |-> << >>, open |-> 0], lines)
         IN  IF last.open > 0 THEN Append(last.out, last.open) ELSE last.out

\* The items of a source in reading order: which block each is a part of.
Items(blocks) ==
    FlattenSeq([b \in 1 .. Len(blocks) |->
        LET parts == Fragments(blocks[b])
        IN  [i \in 1 .. Len(parts) |-> [block |-> b, size |-> parts[i]]]])

\* chunk_blocks: consecutive items while their sizes stay within the target.
Chunked(items) ==
    LET step(chunks, item) ==
            IF chunks # << >> /\ Size([i \in 1 .. Len(Last(chunks)) |-> Last(chunks)[i].size])
                                   + item.size <= Target
            THEN Append(Front(chunks), Append(Last(chunks), item))
            ELSE Append(chunks, <<item>>)
    IN  FoldLeft(step, << >>, items)

SectionOf(chunk) == (chunk - 1) \div SectionChunks + 1

(***************************************************************************)
(* Candidates.  A unit is named by the block it is first taken from and a  *)
(* number that grows for every entry of that block, usable or not.         *)
(***************************************************************************)
Unit(source, block, index, refs, text) ==
    [source |-> source, block |-> block, index |-> index, refs |-> refs, text |-> text,
     status |-> "candidate"]

IdOf(u) == <<u.source, u.block, u.index>>
Ids(units) == {IdOf(units[i]) : i \in DOMAIN units}

\* The entries a chunk's answer has: at is the item each claims to be about,
\* 0 when it is none of the chunk.  An answer that is no object has none.
CardsOf(source, chunk, section, reply, acc) ==
    LET step(a, entry) ==
            IF entry.at \notin DOMAIN chunk THEN a
            ELSE LET block == chunk[entry.at].block
                     index == a.counters[block] + 1
                     unit  == Unit(source, block, index, {<<source, block>>}, entry.text)
                 IN  [units    |-> IF entry.ok THEN [a.units EXCEPT ![section] = Append(@, unit)]
                                   ELSE a.units,
                      counters |-> [a.counters EXCEPT ![block] = index]]
    IN  FoldLeft(step, acc, reply)

\* The units of every section of a book, from the answers to its chunks.
Mapped(source, blocks, replies) ==
    LET chunks == Chunked(Items(blocks))
        zero   == [units    |-> [s \in 1 .. SectionOf(Len(chunks)) |-> << >>],
                   counters |-> [b \in 1 .. Len(blocks) |-> 0]]
        step(acc, c) == CardsOf(source, chunks[c], SectionOf(c), replies[c], acc)
    IN  FoldLeft(step, zero, [c \in 1 .. Len(chunks) |-> c])

\* _bounded_evidence_payload: each text once, and no more than the limit.  Which
\* units are left out depends on their kinds, which are not distinguished.
Payloads(units) ==
    LET first == {i \in DOMAIN units : \A j \in 1 .. i - 1 : units[j].text # units[i].text}
    IN  {{IdOf(units[i]) : i \in shown} : shown \in kSubset(Min({CardLimit, Cardinality(first)}), first)}

\* _trusted_synthesized_candidates: a card keeps only what its supporting units
\* refer to, and takes the next number of the first block among that.
Support(units, card) ==
    LET known == SelectSeq(card.from, LAMBDA id : id \in Ids(units))
    IN  [i \in 1 .. Len(known) |-> CHOOSE u \in ToSet(units) : IdOf(u) = known[i]]

Refs(support) == UNION {support[i].refs : i \in DOMAIN support}

\* Changed form of Trusted, for a mutant of PROJECT.json: a card is numbered by
\* its place in the reply.
NumberedAfresh(source, units, reply, counters) ==
    LET step(made, card) ==
            LET support == Support(units, card)
            IN  IF support = << >> \/ ~card.ok THEN made
                ELSE Append(made, Unit(source, support[1].block, Len(made) + 1,
                                       Refs(support), card.text))
    IN  [units |-> FoldLeft(step, << >>, reply), counters |-> counters]

Trusted(source, units, reply, counters) ==
    LET step(acc, card) ==
            LET support == Support(units, card)
                block   == support[1].block
                index   == acc.counters[block] + 1
            IN  IF support = << >> THEN acc
                ELSE [units    |-> IF card.ok
                                   THEN Append(acc.units, Unit(source, block, index,
                                                               Refs(support), card.text))
                                   ELSE acc.units,
                      counters |-> [acc.counters EXCEPT ![block] = index]]
    IN  FoldLeft(step, [units |-> << >>, counters |-> counters], reply)

NoReply == [came |-> FALSE, cards |-> << >>]    \* the request for a reduction raised
Reply(cards) == [came |-> TRUE, cards |-> cards]

\* One section: a request that failed keeps its units, any other answer replaces them.
Reduced(source, units, reply, counters) ==
    IF reply = NoReply THEN [units |-> units, counters |-> counters]
    ELSE Trusted(source, units, reply.cards, counters)

\* The sections of a book in their order, whatever order their answers came in.
Sections(source, mapped, replies) ==
    LET step(acc, s) ==
            LET r == Reduced(source, mapped.units[s], replies[s], acc.counters)
            IN  [units |-> acc.units \o r.units, counters |-> r.counters]
    IN  FoldLeft(step, [units |-> << >>, counters |-> mapped.counters],
                 [s \in 1 .. Len(mapped.units) |-> s])

\* The book: an answer without a usable card counts as none.
Synthesized(source, sections, reply) ==
    LET made == IF reply = NoReply THEN << >>
                ELSE Trusted(source, sections.units, reply.cards, sections.counters).units
    IN  IF made = << >> THEN sections.units ELSE made

\* What a bundle of several sources holds: the synthesis, or the map's own units
\* where nothing was made for any source.
Candidates(mapped, final) ==
    IF final # << >> THEN final
    ELSE FlattenSeq([i \in 1 .. Len(mapped) |-> FlattenSeq(mapped[i].units)])

(***************************************************************************)
(* The review queue, the conflicts, and the critics and the arbiter.       *)
(***************************************************************************)
Flagged(units) == {IdOf(units[i]) : i \in {j \in DOMAIN units : units[j].text \in Weak}}

\* _detect_conflicts: units that say the same.
Conflicting(units) ==
    {IdOf(units[i]) : i \in {j \in DOMAIN units :
        \E k \in DOMAIN units \ {j} : units[k].text = units[j].text}}

\* QualityGate.detect: one flag for every reason, in the order of the units.
QualityFlags(units) ==
    FlattenSeq([i \in 1 .. Len(units) |->
        (IF units[i].text \in Weak THEN <<IdOf(units[i])>> ELSE << >>)
     \o (IF IdOf(units[i]) \in Conflicting(units) THEN <<IdOf(units[i])>> ELSE << >>)])

\* QualityService.review: the budget is asked before every call, and the flags
\* after the one it does not allow to finish get no patch.
Reviewed(flags) ==
    Min({Len(flags), ReviewCalls \div (Critics + 1)})

Dispositions == {"accept", "reject", "merge"}

\* _apply_quality_review: the patches in their order, so the last of a unit decides.
Patched(units, patches) ==
    LET apply(u, p) ==
            CASE p.disposition = "reject" -> [u EXCEPT !.status = "rejected"]
              [] p.disposition = "merge"  -> [u EXCEPT !.status = "reviewed", !.text = p.text]
              [] OTHER                    -> [u EXCEPT !.status = "reviewed"]
        step(us, p) == [i \in DOMAIN us |-> IF IdOf(us[i]) = p.unit THEN apply(us[i], p) ELSE us[i]]
    IN  FoldLeft(step, units, patches)
=============================================================================
