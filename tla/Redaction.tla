------------------------------- MODULE Redaction -------------------------------
(***************************************************************************)
(* What scrape() does with the document when redact_snapshots is set       *)
(* (api.py): the markdown and then each chunk, cut before, are scanned for *)
(* personal data and the hits replaced (policy/pii.py).                    *)
(*                                                                         *)
(* Characters are counted from 0; a text is the overlap a chunk begins     *)
(* with and what is its own, two ranges of the markdown.  Hits of one kind *)
(* are apart, hits of several kinds may nest or overlap.  The overlap cuts *)
(* the text it begins in, and is put before the first paragraph without a  *)
(* space (chunker.py:173): near these two places scan may miss values of   *)
(* the document and find others, also across the seam.  The texts are      *)
(* redacted one by one; a behaviour follows any one of them.               *)
(***************************************************************************)
EXTENDS Chunker

CONSTANTS
  Kinds,       \* of values, numbered as scan goes through them
  Reach,       \* how far a cut or a seam disturbs what scan finds
  MaxStrays    \* bound: values found there that the document does not have

ASSUME RedactionAssumption ==
  Kinds \subseteq Nat /\ Reach \in Nat \ {0} /\ MaxStrays \in Nat

VARIABLES
  text,    \* the text it follows: a chunk, 0 for the markdown
  left     \* its characters that redact left

redactVars == <<text, left>>

-----------------------------------------------------------------------------
Span(a, b) == [from |-> a, to |-> b]
Nothing == Span(0, 0)
Length(r) == r.to - r.from

At(k) == IF k = 1 THEN 0 ELSE Chars(1, k - 1) + Sep
EndOf(c) == At(c.to) + doc[c.to].chars

Own(k) ==
  IF k = 0 THEN Span(0, Chars(1, Len(doc)))
  ELSE LET c == chunks[k] IN
       IF c.from > c.to THEN Nothing ELSE Span(At(c.from), EndOf(c))
Overlap(k) ==
  IF k = 0 \/ chunks[k].tail = 0 THEN Nothing
  ELSE LET e == EndOf(chunks[k - 1]) IN Span(e - chunks[k].tail, e)

-----------------------------------------------------------------------------
(* PiiClassifier.scan; the order the hits are found in is left to the sort. *)

HitsOf(k) ==
  {[kind |-> h.kind, start |-> At(k) + h.start, end |-> At(k) + h.end] : h \in doc[k].hits}

DocHits == UNION {HitsOf(k) : k \in DOMAIN doc}

Inside(h, r) == r.from <= h.start /\ h.end <= r.to

(* Where hit h of range r is in a text in which r begins at character at.   *)
Part(h, r, at) ==
  [kind |-> h.kind, start |-> at + h.start - r.from, end |-> at + h.end - r.from]

(* Character x of the text, in the markdown. *)
Source(x, over, own) ==
  IF x < Length(over) THEN over.from + x ELSE own.from + x - Length(over)

(* It is near the beginning of the overlap or the seam. *)
Near(x, over) ==
  over # Nothing /\ \/ x < Reach
                    \/ Length(over) - Reach <= x /\ x < Length(over) + Reach

Places(over, own) == 0..(Length(over) + Length(own) - 1)

Disturbed(h, over, own) ==
  \E x \in Places(over, own) :
    Near(x, over) /\ h.start <= Source(x, over, own) /\ Source(x, over, own) < h.end

(* What is found instead: anything that is near, what is left of a value,   *)
(* or words on both sides of the seam that are none.                        *)
Strays(over, own) ==
  {s \in [kind : Kinds, start : Places(over, own), end : 1..(Length(over) + Length(own))] :
     s.start < s.end /\ \A x \in s.start..(s.end - 1) : Near(x, over)}

(* finditer goes on behind a match: those of one kind are apart.            *)
ApartByKind(S) ==
  \A g, h \in S : g.kind = h.kind => g = h \/ g.end <= h.start \/ h.end <= g.start

Scans(over, own) ==
  LET hits == {h \in DocHits : Inside(h, over) \/ Inside(h, own)}
      disturbed == {h \in hits : Disturbed(h, over, own)}
      Found(h) == IF Inside(h, own) THEN Part(h, own, Length(over)) ELSE Part(h, over, 0)
      others == UNION {[1..n -> Strays(over, own)] : n \in 0..MaxStrays}
  IN  {S \in {{Found(h) : h \in hits \ missed} \cup ToSet(found) :
                missed \in SUBSET disturbed, found \in others} : ApartByKind(S)}

-----------------------------------------------------------------------------
(* redact *)

(* Faulty: the hits stay in the order of their kinds. *)
BeforeAsScanned(g, h) == g.kind < h.kind \/ (g.kind = h.kind /\ g.start < h.start)

(* The key of sorted, which is stable, and scan goes kind by kind. *)
Before(g, h) == g.start < h.start \/ (g.start = h.start /\ g.kind < h.kind)

(* sorted: a hit is behind as many as come before it.                       *)
Sorted(hits) ==
  [n \in 1..Cardinality(hits) |->
     CHOOSE h \in hits : Cardinality({g \in hits : Before(g, h)}) = n - 1]

(* What redact leaves of a text: what is between the end of a hit and the   *)
(* beginning of the next.                                                   *)
Redacted(length, hits) ==
  LET sorted == Sorted(hits)
      Cursor(n) == IF n = 0 THEN 0 ELSE sorted[n].end
      Stop(n) == IF n = Len(sorted) THEN length ELSE sorted[n + 1].start
      Left(n) == [x \in 1..(Stop(n) - Cursor(n)) |-> Cursor(n) + x - 1]
  IN  FlattenSeq([n \in 1..(Len(sorted) + 1) |-> Left(n - 1)])

Redact ==
  /\ phase = "done"
  /\ \E k \in 0..Len(chunks) :
       LET over == Overlap(k)
           own == Own(k) IN
       /\ text' = k
       /\ \E hits \in Scans(over, own) :
            left' = Redacted(Length(over) + Length(own), hits)
  /\ phase' = "redacted"
  /\ UNCHANGED <<doc, overlap, splitVars, sections, packVars>>

RedactionNext == Redact \/ (ChunkNext /\ UNCHANGED redactVars)
-----------------------------------------------------------------------------
(* A value that encloses or overlaps another is over before it: what is     *)
(* left is the rest of the first, behind the second.                        *)
RestOf(h, x) ==
  \E g \in DocHits : g # h /\ h.start <= g.start /\ g.end <= x

(* pii.py:79: redaction neither repeats nor reorders; it drops nothing that *)
(* is not personal, and of a value it leaves nothing but the rest behind    *)
(* another that begins in it (pii.py:89).  So does a chunk, in spite of     *)
(* what its overlap cuts and joins (chunker.py:173, api.py:283), but near   *)
(* these places and for values that reach there.                            *)
OnlyNestedOrNear ==
  phase = "redacted" =>
    LET over == Overlap(text)
        own == Own(text)
        HitsAt(x) == {h \in DocHits : /\ h.start <= Source(x, over, own)
                                      /\ Source(x, over, own) < h.end} IN
    /\ \A n \in 2..Len(left) : left[n - 1] < left[n]
    /\ \A x \in Places(over, own) \ ToSet(left) : HitsAt(x) # {} \/ Near(x, over)
    /\ \A x \in ToSet(left) : \A h \in HitsAt(x) :
         RestOf(h, Source(x, over, own)) \/ Disturbed(h, over, own)
=============================================================================
