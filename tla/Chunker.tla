------------------------------- MODULE Chunker -------------------------------
(***************************************************************************)
(* Chunking (engine/chunker.rs): how a document becomes the chunks that    *)
(* are embedded, and, with no overlap, the segments that are distilled.    *)
(* A character is [k |-> kind, at |-> position in the document]; what the  *)
(* chunker inserts has position 0.  Kinds: "w" a word character, "." an    *)
(* end of sentence, "n" a newline, and the characters that open a special  *)
(* line: "U" a turn of the user, "A" of the assistant, "S" of a named      *)
(* speaker, "1" and "2" headings.                                          *)
(***************************************************************************)
EXTENDS Naturals, Sequences, SequencesExt

Ink(s) == {i \in DOMAIN s : s[i].k # "n"}

trim(s) == IF Ink(s) = {} THEN <<>> ELSE SubSeq(s, Min(Ink(s)), Max(Ink(s)))

Inserted(k) == <<[k |-> k, at |-> 0]>>
Break == Inserted("n") \o Inserted("n")
Arrow == Inserted("w")          \* between the headings of a trail

\* split_inclusive: units that end with an end character, then the remainder.
split_inclusive(s, ends) ==
    SelectSeq(FoldLeft(LAMBDA acc, c :
                  LET grown == [acc EXCEPT ![Len(acc)] = Append(@, c)]
                  IN  IF c.k \in ends THEN Append(grown, <<>>) ELSE grown,
              << <<>> >>, s),
              LAMBDA unit : unit # <<>>)

lines(s) == split_inclusive(s, {"n"})

\* Lines gathered into units: an opening line closes what came before it.
\* Units are trimmed, empty ones dropped.
Units(s, opening) ==
    LET gathered == FoldLeft(LAMBDA acc, l :
                        IF l \in opening /\ Ink(Last(acc)) # {} THEN Append(acc, l)
                        ELSE [acc EXCEPT ![Len(acc)] = @ \o l],
                    << <<>> >>, lines(s))
    IN  SelectSeq([i \in DOMAIN gathered |-> trim(gathered[i])],
                  LAMBDA u : u # <<>>)

Paragraphs(s) == Units(s, {l \in ToSet(lines(s)) : Ink(l) = {}})

Windows(s, n) ==
    [i \in 1 .. ((Len(s) + n - 1) \div n) |->
        SubSeq(s, (i - 1) * n + 1, IF i * n < Len(s) THEN i * n ELSE Len(s))]

\* Mutant: a sentence that is hard-cut drops what was gathered before it.
split_long_unflushed(p, target) ==
    LET step(acc, sentence) ==
          IF Len(sentence) > target
          THEN [out |-> acc.out \o Windows(sentence, target), cur |-> <<>>]
          ELSE IF Len(acc.cur) + Len(sentence) > target
          THEN [out |-> Append(acc.out, acc.cur), cur |-> sentence]
          ELSE [acc EXCEPT !.cur = @ \o sentence]
        end == FoldLeft(step, [out |-> <<>>, cur |-> <<>>],
                        split_inclusive(p, {".", "n"}))
    IN  Append(end.out, end.cur)

\* An oversized piece, by sentence; a sentence longer than target is hard-cut.
split_long(p, target) ==
    LET step(acc, sentence) ==
          LET full == acc.cur # <<>> /\ Len(acc.cur) + Len(sentence) > target
              out  == IF full THEN Append(acc.out, acc.cur) ELSE acc.out
              cur  == IF full THEN <<>> ELSE acc.cur
          IN  IF Len(sentence) > target
              THEN [out |-> out \o Windows(sentence, target), cur |-> cur]
              ELSE [out |-> out, cur |-> cur \o sentence]
        end == FoldLeft(step, [out |-> <<>>, cur |-> <<>>],
                        split_inclusive(p, {".", "n"}))
        all == Append(end.out, end.cur)
    IN  SelectSeq([i \in DOMAIN all |-> trim(all[i])], LAMBDA s : s # <<>>)

Bounded(pieces, target) ==
    FlattenSeq([i \in DOMAIN pieces |-> IF Len(pieces[i]) <= target
                                        THEN <<pieces[i]>>
                                        ELSE split_long(pieces[i], target)])

char_tail(s, n) == IF Len(s) <= n THEN s ELSE SubSeq(s, Len(s) - n + 1, Len(s))

\* Mutant: the room is checked without the piece.
pack_pieces_late(pieces, target, overlap) ==
    LET step(acc, piece) ==
          LET full == Len(acc.cur) + 2 > target
              seed == IF full THEN char_tail(acc.cur, overlap) ELSE acc.cur
          IN  [out |-> IF full THEN Append(acc.out, acc.cur) ELSE acc.out,
               cur |-> IF seed = <<>> THEN piece ELSE seed \o Break \o piece]
        end == FoldLeft(step, [out |-> <<>>, cur |-> <<>>], pieces)
    IN  IF end.cur = <<>> THEN end.out ELSE Append(end.out, end.cur)

\* Pieces packed into chunks; a new chunk starts with the tail of the last,
\* which is not counted when the piece that opens the chunk is added.
pack_pieces(pieces, target, overlap) ==
    LET step(acc, piece) ==
          LET full == acc.cur # <<>> /\ Len(acc.cur) + Len(piece) + 2 > target
              seed == IF full THEN char_tail(acc.cur, overlap) ELSE acc.cur
          IN  [out |-> IF full THEN Append(acc.out, acc.cur) ELSE acc.out,
               cur |-> IF seed = <<>> THEN piece ELSE seed \o Break \o piece]
        end == FoldLeft(step, [out |-> <<>>, cur |-> <<>>], pieces)
    IN  IF Ink(end.cur) = {} THEN end.out ELSE Append(end.out, end.cur)

chunk_text(text, target, overlap) ==
    LET t == trim(text)
    IN  IF t = <<>> THEN <<>>
        ELSE IF Len(t) <= target THEN <<t>>
        ELSE pack_pieces(Bounded(Paragraphs(t), target), target, overlap)

-----------------------------------------------------------------------------
\* Chat: one chunk per round, without overlap.
user_line(l) == l[1].k = "U"
chunk_rounds(text, target, overlap) ==
    LET rounds == Units(text, {l \in ToSet(lines(text)) : user_line(l)})
    IN  IF Len(rounds) < 2 THEN chunk_text(text, target, overlap)
        ELSE FlattenSeq([i \in DOMAIN rounds |->
                IF Len(rounds[i]) > target THEN chunk_text(rounds[i], target, overlap)
                ELSE <<rounds[i]>>])

is_speaker_line(l) == l[1].k \in {"U", "A", "S"}
chunk_transcript(text, target, overlap) ==
    LET turns == Units(text, {l \in ToSet(lines(text)) : is_speaker_line(l)})
    IN  IF Len(turns) < 2 THEN chunk_text(text, target, overlap)
        ELSE pack_pieces(Bounded(turns, target), target, overlap)

\* Markdown: every section with a body is a piece, headed by its trail.
Level(l) == IF l[1].k = "1" THEN 1 ELSE IF l[1].k = "2" THEN 2 ELSE 0

Section(trail, body) ==
    LET crumb == FoldLeft(LAMBDA acc, h : IF acc = <<>> THEN h.text
                                          ELSE acc \o Arrow \o h.text, <<>>, trail)
    IN  IF trim(body) = <<>> THEN <<>>
        ELSE IF crumb = <<>> THEN <<trim(body)>>
        ELSE <<crumb \o Inserted("n") \o trim(body)>>

chunk_markdown(text, target, overlap) ==
    LET step(acc, l) ==
          IF Level(l) = 0 THEN [acc EXCEPT !.body = @ \o l]
          ELSE [pieces |-> acc.pieces \o Section(acc.trail, acc.body),
                body   |-> <<>>,
                trail  |-> Append(SelectSeq(acc.trail, LAMBDA h : h.level < Level(l)),
                                  [level |-> Level(l), text |-> trim(l)])]
        end == FoldLeft(step, [pieces |-> <<>>, body |-> <<>>, trail |-> <<>>],
                        lines(trim(text)))
        pieces == end.pieces \o Section(end.trail, end.body)
    IN  IF pieces = <<>> THEN chunk_text(text, target, overlap)
        ELSE pack_pieces(Bounded(pieces, target), target, overlap)

Counted(text, Is(_)) == Len(SelectSeq(lines(text), Is))
role_line(l) == l[1].k \in {"U", "A"}
looks_like_conversation(text) == Counted(text, role_line) >= 2
looks_like_markdown(text) == Counted(text, LAMBDA l : Level(l) > 0) >= 2

\* The strategy follows the source and the text; smart off packs paragraphs.
chunk_doc(text, source, is_md, smart, target, overlap) ==
    IF ~smart THEN chunk_text(text, target, overlap)
    ELSE IF source = "chat" \/ looks_like_conversation(text)
    THEN chunk_rounds(text, target, overlap)
    ELSE IF source = "meeting" THEN chunk_transcript(text, target, overlap)
    ELSE IF is_md \/ looks_like_markdown(text)
    THEN chunk_markdown(text, target, overlap)
    ELSE chunk_text(text, target, overlap)

-----------------------------------------------------------------------------
\* Positions of the document that a text holds, in the order they are there.
Positions(s) == {s[i].at : i \in Ink(s)} \ {0}

\* A heading without a body before the next heading of its level or above is
\* dropped by chunk_markdown; every other character is kept.
EmptyHeadings(text) ==
    LET ls == lines(trim(text))
        Body(i) == {j \in DOMAIN ls : /\ j > i /\ Level(ls[j]) = 0 /\ Ink(ls[j]) # {}
                                      /\ \A k \in i + 1 .. j : Level(ls[k]) = 0
                                                   \/ Level(ls[k]) > Level(ls[i])}
    IN  UNION {Positions(ls[i]) : i \in {h \in DOMAIN ls :
                                          Level(ls[h]) > 0 /\ Body(h) = {}}}

\* Chunks in which each character that was kept is found, in document order:
\* where it first occurs.
KeepsText(text, chunks) ==
    LET first(p) == Min({i \in DOMAIN chunks : p \in Positions(chunks[i])})
        kept == Positions(FlattenSeq(chunks))
    IN  /\ Positions(text) \ kept \subseteq EmptyHeadings(text)
        /\ kept \subseteq Positions(text)
        /\ \A p, q \in kept : p < q => first(p) <= first(q)

\* No chunk exceeds target by more than the tail it starts with, and chunks
\* packed from pieces start with what their predecessor ended with.
FitsAndOverlaps(chunks, packed, target, overlap) ==
    \A i \in DOMAIN chunks :
        LET Overlaps == i > 1 /\ IsPrefix(char_tail(chunks[i - 1], overlap), chunks[i])
        IN  /\ Ink(chunks[i]) # {}
            /\ Len(chunks[i]) <= target + overlap + Len(Break)
            /\ Len(chunks[i]) > target => Overlaps
            /\ packed /\ i > 1 => Overlaps
=============================================================================
