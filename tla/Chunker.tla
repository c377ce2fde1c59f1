-------------------------------- MODULE Chunker --------------------------------
(***************************************************************************)
(* chunk_markdown (shape/chunker.py): a document is cut into sections at    *)
(* its headings, and a section that is too long into runs of paragraphs.   *)
(*                                                                         *)
(* A document is a sequence of blocks with a blank line, two characters,   *)
(* between any two; of a block only its heading level (0: a paragraph),    *)
(* its length in characters and in bytes, and where it has personal data   *)
(* (see Redaction) are kept.  A title is the index of its block.  The text *)
(* after a section's last block is a blank line, unless the document ends  *)
(* there, and splits off as an empty paragraph.                            *)
(***************************************************************************)
EXTENDS Integers, Sequences, FiniteSets, SequencesExt

CONSTANTS
  Block,
  MaxBlocks,   \* bound: length of a document
  Target,      \* target_chars
  Overlaps     \* values of overlap_chars

ASSUME ChunkerAssumption ==
  /\ \A b \in Block :
       /\ b.level \in 0..6 /\ b.chars \in Nat \ {0} /\ b.bytes \in Nat
       /\ b.bytes >= b.chars
       /\ IsFiniteSet(b.hits)
       /\ \A h \in b.hits :
            /\ h \in [kind : Nat, start : Nat, end : Nat]
            /\ h.start < h.end /\ h.end <= b.chars
       /\ \A g, h \in b.hits :
            g.kind = h.kind => g = h \/ g.end <= h.start \/ h.end <= g.start
  /\ MaxBlocks \in Nat /\ Target \in Nat /\ Overlaps \subseteq Nat

Sep == 2

VARIABLES
  doc,
  overlap,   \* overlap_chars
  phase,     \* "idle", "split", "pack", "done", "redacted"
  i,         \* the block _split_by_heading is at
  trail,     \* cur_trail
  from,      \* first block of cur_lines, which end before i
  start,     \* cur_start_byte
  seen,      \* seen_bytes
  sections,  \* what is left of them
  p,         \* the paragraph _split_paragraphs is at
  cursor,    \* and its first byte in the section
  buf,       \* buf_paras
  tail,      \* length of pending_tail, stripped
  chunks

splitVars == <<i, trail, from, start, seen>>
packVars == <<p, cursor, buf, tail, chunks>>
chunkVars == <<doc, overlap, phase, splitVars, sections, packVars>>

NoParas == [count |-> 0, from |-> 0, to |-> 0, start |-> 0, end |-> 0, chars |-> 0]

ChunkLocals ==
  /\ i = 1 /\ trail = <<>> /\ from = 1 /\ start = 0 /\ seen = 0
  /\ sections = <<>>
  /\ p = 1 /\ cursor = 0 /\ buf = NoParas /\ tail = 0 /\ chunks = <<>>

ChunkInit ==
  /\ doc \in UNION {[1..n -> Block] : n \in 1..MaxBlocks}
  /\ overlap \in Overlaps
  /\ phase = "split" /\ ChunkLocals

(* Faulty: lengths are counted in characters. *)
PastChars(at, b) == at + b.chars + Sep

(* The first byte after block b, at byte at, and the blank line behind it.  *)
Past(at, b) == at + b.bytes + Sep

(* Lengths of the text of the blocks a..b.                                   *)
Chars(a, b) == MapThenSumSet(LAMBDA k : doc[k].chars + Sep, a..b) - Sep
Bytes(a, b) == MapThenSumSet(LAMBDA k : doc[k].bytes + Sep, a..b) - Sep

-----------------------------------------------------------------------------
(* _split_by_heading *)

(* flush *)
Sections ==
  IF from = i THEN sections
  ELSE Append(sections, [from |-> from, to |-> i - 1, trail |-> trail, start |-> start])

CutAt(t, level) == SubSeq(t, 1, Min({Len(t), level - 1}))

Heading ==
  /\ phase = "split" /\ i <= Len(doc) /\ doc[i].level > 0
  /\ sections' = Sections
  /\ trail' = Append(CutAt(trail, doc[i].level), i)
  /\ from' = i /\ start' = seen
  /\ i' = i + 1 /\ seen' = Past(seen, doc[i])
  /\ UNCHANGED <<doc, overlap, phase, packVars>>

Paragraph ==
  /\ phase = "split" /\ i <= Len(doc) /\ doc[i].level = 0
  /\ i' = i + 1 /\ seen' = Past(seen, doc[i])
  /\ UNCHANGED <<doc, overlap, phase, trail, from, start, sections, packVars>>

SplitDone ==
  /\ phase = "split" /\ i > Len(doc)
  /\ sections' = Sections
  /\ phase' = "pack"
  /\ UNCHANGED <<doc, overlap, splitVars, packVars>>

-----------------------------------------------------------------------------
(* chunk_markdown's loop over the sections, with _split_paragraphs *)

Sec == Head(sections)
Trailing == Sec.to < Len(doc)
Fits == Chars(Sec.from, Sec.to) + (IF Trailing THEN Sep ELSE 0) <= Target

(* A section that is short enough is a chunk, stripped of the blank line.   *)
WholeSection ==
  /\ phase = "pack" /\ sections # <<>> /\ Fits
  /\ chunks' = Append(chunks,
       [from |-> Sec.from, to |-> Sec.to, start |-> Sec.start,
        end |-> Sec.start + Bytes(Sec.from, Sec.to), trail |-> Sec.trail, tail |-> 0])
  /\ sections' = Tail(sections)
  /\ UNCHANGED <<doc, overlap, phase, splitVars, p, cursor, buf, tail>>

(* The paragraphs of the section: its blocks and, where it has one, the     *)
(* empty one, which comes with no block.                                    *)
Current == Sec.from + p - 1
IsBlank == Current > Sec.to
MoreParas == Current <= Sec.to \/ (Trailing /\ Current = Sec.to + 1)
Cost == (IF IsBlank THEN 0 ELSE doc[Current].chars) + Sep

(* The paragraph joins b; stripped, the text ends with its last block.      *)
Joined(b) ==
  [count |-> b.count + 1,
   from |-> IF b.count = 0 THEN Current ELSE b.from,
   to |-> IF IsBlank THEN Current - 1 ELSE Current,
   start |-> IF b.count = 0 THEN cursor ELSE b.start,
   end |-> IF IsBlank THEN (IF b.count = 0 THEN cursor ELSE b.end)
           ELSE cursor + doc[Current].bytes,
   chars |-> b.chars + Cost]

Advance ==
  /\ p' = p + 1
  /\ cursor' = IF IsBlank THEN cursor ELSE Past(cursor, doc[Current])

(* flush of _split_paragraphs, and the chunk made of what it put out.       *)
Flushed ==
  Append(chunks, [from |-> buf.from, to |-> buf.to, start |-> Sec.start + buf.start,
                  end |-> Sec.start + buf.end, trail |-> Sec.trail, tail |-> tail])

Splitting == phase = "pack" /\ sections # <<>> /\ ~Fits

HasRoom == buf.chars + Cost <= Target

AddParagraph ==
  /\ Splitting /\ MoreParas /\ (HasRoom \/ buf.count = 0)
  /\ buf' = Joined(buf)
  /\ Advance
  /\ UNCHANGED <<doc, overlap, phase, splitVars, sections, tail, chunks>>

(* What of the text of blocks a..b is carried on: its end, which, stripped  *)
(* (chunker.py:89), begins with a block where it would in the blank line    *)
(* before it.                                                               *)
Carried(a, b) ==
  LET asked == Min({overlap, Chars(a, b)})
      blank == {k \in a..b : Chars(k, b) < asked /\ asked <= Chars(k, b) + Sep}
  IN  IF blank = {} THEN asked ELSE Chars(CHOOSE k \in blank : TRUE, b)

(* The buffer is put out; its end, read before the next, starts over.       *)
FlushFirst ==
  /\ Splitting /\ MoreParas /\ ~HasRoom /\ buf.count > 0
  /\ chunks' = Flushed /\ tail' = Carried(buf.from, buf.to)
  /\ buf' = Joined(NoParas)
  /\ Advance
  /\ UNCHANGED <<doc, overlap, phase, splitVars, sections>>

(* Faulty: the overlap is carried into the next section. *)
SectionDoneKeeping ==
  /\ Splitting /\ ~MoreParas
  /\ chunks' = Flushed
  /\ sections' = Tail(sections)
  /\ p' = 1 /\ cursor' = 0 /\ buf' = NoParas
  /\ UNCHANGED <<doc, overlap, phase, splitVars, tail>>

SectionDone ==
  /\ Splitting /\ ~MoreParas
  /\ chunks' = Flushed
  /\ sections' = Tail(sections)
  /\ p' = 1 /\ cursor' = 0 /\ buf' = NoParas /\ tail' = 0
  /\ UNCHANGED <<doc, overlap, phase, splitVars>>

HasText(c) == c.from <= c.to \/ c.tail > 0
WithText(kept, c) == IF HasText(c) THEN Append(kept, c) ELSE kept

ChunksDone ==
  /\ phase = "pack" /\ sections = <<>>
  /\ chunks' = FoldLeft(WithText, <<>>, chunks)
  /\ phase' = "done"
  /\ UNCHANGED <<doc, overlap, splitVars, sections, p, cursor, buf, tail>>

ChunkNext ==
  \/ Heading \/ Paragraph \/ SplitDone \/ WholeSection \/ AddParagraph
  \/ FlushFirst \/ SectionDone \/ ChunksDone

-----------------------------------------------------------------------------
Chunk == [from : 1..MaxBlocks + 1, to : 0..MaxBlocks, start : Nat, end : Nat,
          trail : Seq(1..MaxBlocks), tail : Nat]

(* Every variable has its type, and the result has no chunk without text.   *)
ChunkTypeOK ==
  /\ phase \in {"idle", "split", "pack", "done", "redacted"} /\ overlap \in {0} \cup Overlaps
  /\ doc \in Seq(Block) /\ Len(doc) \in 0..MaxBlocks
  /\ i \in 1..MaxBlocks + 1 /\ from \in 1..i
  /\ {start, seen, cursor, tail} \subseteq Nat
  /\ trail \in Seq(1..MaxBlocks) /\ p \in 1..MaxBlocks + 2
  /\ chunks \in Seq(Chunk)
  /\ phase \in {"done", "redacted"} =>
       \A k \in DOMAIN chunks : chunks[k].from > chunks[k].to => chunks[k].tail > 0

(* Reference: where block k begins in the document's bytes.                 *)
Offset[k \in 1..Len(doc) + 1] ==
  IF k = 1 THEN 0 ELSE Offset[k - 1] + doc[k - 1].bytes + 2

(* chunker.py:7 "All byte offsets are exact indices": the range of a chunk  *)
(* is that of its own blocks; a chunk that is overlap only has an empty one.*)
RangesExact ==
  \A k \in DOMAIN chunks : LET c == chunks[k] IN
    IF c.from <= c.to
    THEN c.start = Offset[c.from] /\ c.end = Offset[c.to] + doc[c.to].bytes
    ELSE c.start = c.end

(* Every block is in one chunk, in order. *)
NothingLost ==
  phase \in {"done", "redacted"} =>
    /\ \A b \in DOMAIN doc : \E k \in DOMAIN chunks : b \in chunks[k].from..chunks[k].to
    /\ \A j, k \in DOMAIN chunks :
         j < k /\ chunks[k].from <= chunks[k].to => chunks[j].to < chunks[k].from

(* The chunks tile the document: their ranges are exact and leave out no    *)
(* block.                                                                   *)
ChunksTile == RangesExact /\ NothingLost

(* Reference: the heading that opens k's section, 0 before the first.       *)
Opens(k) == Max({0} \cup {h \in 1..k : doc[h].level > 0})

(* A chunk lies in one section and is as long as the target allows: it is   *)
(* above it only with a single paragraph, and with the next paragraph of    *)
(* its section it would be.                                                 *)
Packed ==
  \A k \in DOMAIN chunks : LET c == chunks[k] IN
    c.from <= c.to =>
      /\ Opens(c.from) = Opens(c.to)
      /\ c.from < c.to => Chars(c.from, c.to) <= Target
      /\ k < Len(chunks) /\ c.to < Len(doc) /\ doc[c.to + 1].level = 0
           => Chars(c.from, c.to + 1) + 2 > Target

(* chunker.py:140: "tail is prepended to the *next* chunk's piece purely as *)
(* LLM context": it is the end of the chunk before, of the same section, as *)
(* long as asked for unless that chunk is shorter, but for a blank line.    *)
OverlapIsContext ==
  \A k \in DOMAIN chunks : LET c == chunks[k] IN
    c.tail # 0 =>
      /\ k > 1 /\ Opens(chunks[k - 1].to) = Opens(c.from - 1)
      /\ c.from <= c.to => Opens(c.from) = Opens(chunks[k - 1].to)
      /\ LET b == chunks[k - 1]
             asked == Min({overlap, Chars(b.from, b.to)}) IN
           /\ asked - 2 <= c.tail /\ c.tail <= asked
           /\ c.tail = asked \/ \E j \in b.from..b.to : c.tail = Chars(j, b.to)

(* No heading is more than one level below the heading before it.           *)
Outlined ==
  \A k \in 1..Len(doc) : doc[k].level > 0 =>
    doc[k].level <=
      1 + (IF k = 1 \/ Opens(k - 1) = 0 THEN 0 ELSE doc[Opens(k - 1)].level)

(* Reference: the headings k's section is nested in, and its own.           *)
Enclosing[k \in 0..Len(doc)] ==
  IF k = 0 THEN <<>>
  ELSE LET Above == {h \in 1..(k - 1) : doc[h].level \in 1..(doc[k].level - 1)}
       IN  Append(Enclosing[Max({0} \cup Above)], k)

(* chunker.py:5 "Each chunk records its heading_trail": in a document that  *)
(* skips no level, the headings its section is nested in.                   *)
TrailsNested ==
  Outlined => \A k \in DOMAIN chunks :
    chunks[k].from <= chunks[k].to =>
      chunks[k].trail = Enclosing[Opens(chunks[k].from)]

(* A chunk is as much of one section as the target allows, and carries the  *)
(* context it should; one without blocks of its own is overlap.             *)
ChunksShaped == ChunkTypeOK /\ Packed /\ OverlapIsContext /\ TrailsNested
=============================================================================
