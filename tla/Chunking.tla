------------------------------ MODULE Chunking -------------------------------
(***************************************************************************)
(* chunk_rows (smart_brain/chunking.py): a text, as lines of words with    *)
(* their token counts, becomes chunks of whole lines.  A step handles one  *)
(* unit: a line, or one window of a prose line that is too long.  Token    *)
(* counts are taken to add up.                                             *)
(***************************************************************************)
EXTENDS Naturals, Sequences, FiniteSetsExt

CONSTANTS
  Prose,      \* the word costs of a prose line
  RowTokens,  \* the token counts of a table row or separator
  MaxLines, Sizes, Overlaps

ASSUME ChunkingAssumption ==
  /\ Prose \subseteq Seq(Nat \ {0}) \ {<<>>} /\ RowTokens \subseteq Nat \ {0}
  /\ MaxLines \in Nat /\ Sizes \subseteq Nat \ {0} /\ Overlaps \subseteq Nat
  /\ \A o \in Overlaps, s \in Sizes : o < s

VARIABLES
  size, overlap,
  text,     \* its lines
  units,    \* _build_units: the units of the text
  heads,    \* ... and the header line and separator of each table that has them
  next,     \* the unit chunk_rows looks at
  cur,      \* the units of the open chunk
  fresh,    \* how many of them repeat earlier ones
  chunks    \* the closed ones, with the number of repeats each

chunkVars == <<size, overlap, text, units, heads, next, cur, fresh, chunks>>

Lines ==
  [kind : {"blank"}, words : {<<>>}] \cup [kind : {"prose"}, words : Prose]
    \cup [kind : {"row", "separator"}, words : {<<n>> : n \in RowTokens}]

Cost(words) ==
  LET sum[k \in 0..Len(words)] == IF k = 0 THEN 0 ELSE sum[k - 1] + words[k]
  IN  sum[Len(words)]

Tokens(parts) == Cost([i \in DOMAIN parts |-> parts[i].tokens])

-----------------------------------------------------------------------------
(* _split_long_line: the last word of the window from s, and where the next*)
(* window begins.                                                          *)
WindowEnd(words, s, n) ==
  Max({e \in s..Len(words) : e = s \/ Cost(SubSeq(words, s, e)) <= n})

NextWindow(words, s, e, back) ==
  Min({b \in s + 1..e + 1 : b = e + 1 \/ Cost(SubSeq(words, b, e)) <= back})

Whole(words, w) == w # <<>> /\ w[Len(w)][2] = Len(words)

Further(words, w, n, back) ==
  LET begin == IF w = <<>> THEN 1 ELSE NextWindow(words, w[Len(w)][1], w[Len(w)][2], back)
  IN  Append(w, <<begin, WindowEnd(words, begin, n)>>)

Windows(words, n, back) ==
  LET cut[k \in 0..Len(words)] ==
        IF k = 0 THEN <<>>
        ELSE IF Whole(words, cut[k - 1]) THEN cut[k - 1]
        ELSE Further(words, cut[k - 1], n, back)
  IN  cut[Len(words)]

Unit(i, line, from, to, table, first) ==
  [line |-> i, kind |-> line.kind, from |-> from, to |-> to,
   tokens |-> Cost(SubSeq(line.words, from, to)), table |-> table, first |-> first]

WholeLine(i, line, table, first) == Unit(i, line, 1, Len(line.words), table, first)

InTable(line) == line.kind \in {"row", "separator"}

(* One blank line is a paragraph break; runs of blanks collapse.           *)
Broken(us, i, line) ==
  IF us = <<>> \/ us[Len(us)].kind = "blank" THEN us
  ELSE Append(us, WholeLine(i, line, 0, FALSE))

AddBlank(acc, i, line) ==
  [units |-> Broken(acc.units, i, line), heads |-> acc.heads, tables |-> acc.tables,
   inTable |-> FALSE]

(* A table is a run of rows; it has a header if its second line is a       *)
(* separator.                                                              *)
AddRow(acc, i, line, lines) ==
  LET first == ~acc.inTable
      table == IF first THEN acc.tables + 1 ELSE acc.tables
      unit == WholeLine(i, line, table, first)
      headed == first /\ i < Len(lines) /\ lines[i + 1].kind = "separator"
  IN  [units |-> Append(acc.units, unit),
       heads |-> IF headed
                 THEN acc.heads \cup {<<unit, WholeLine(i + 1, lines[i + 1], table, FALSE)>>}
                 ELSE acc.heads,
       tables |-> table, inTable |-> TRUE]

ProseUnits(i, line, n, back) ==
  LET windows == IF Cost(line.words) <= n THEN <<<<1, Len(line.words)>>>>
                 ELSE Windows(line.words, n, back)
  IN  [k \in DOMAIN windows |-> Unit(i, line, windows[k][1], windows[k][2], 0, FALSE)]

AddProse(acc, i, line, n, back) ==
  [units |-> acc.units \o ProseUnits(i, line, n, back), heads |-> acc.heads,
   tables |-> acc.tables, inTable |-> FALSE]

AddLine(acc, i, lines, n, back) ==
  CASE lines[i].kind = "blank" -> AddBlank(acc, i, lines[i])
    [] InTable(lines[i]) -> AddRow(acc, i, lines[i], lines)
    [] OTHER -> AddProse(acc, i, lines[i], n, back)

BuildUnits(lines, n, back) ==
  LET built[i \in 0..Len(lines)] ==
        IF i = 0 THEN [units |-> <<>>, heads |-> {}, tables |-> 0, inTable |-> FALSE]
        ELSE AddLine(built[i - 1], i, lines, n, back)
  IN  built[Len(lines)]

(* chunk_rows returns at once if there is no text.                         *)
NoText ==
  /\ size \in Sizes /\ overlap \in Overlaps /\ \A s \in Sizes : s <= size
  /\ \A o \in Overlaps : o <= overlap
  /\ text = <<>> /\ units = <<>> /\ heads = {}
  /\ next = 1 /\ cur = <<>> /\ fresh = 0 /\ chunks = <<>>

ChunkInit ==
  /\ size \in Sizes /\ overlap \in Overlaps
  /\ \E n \in 1..MaxLines : text \in [1..n -> Lines]
  /\ units = BuildUnits(text, size, overlap).units
  /\ heads = BuildUnits(text, size, overlap).heads
  /\ next = 1 /\ cur = <<>> /\ fresh = 0 /\ chunks = <<>>

-----------------------------------------------------------------------------
Unfit(unit) == Len(cur) > fresh /\ Tokens(cur) + unit.tokens > size

(* The longest run of whole prose units at the end of the chunk that       *)
(* overlap has room for, without a blank at its top.                       *)
TrailingProse ==
  LET Fits(k) == \A i \in k..Len(cur) :
        ~InTable(cur[i]) /\ Tokens(SubSeq(cur, i, Len(cur))) <= overlap
      starts == {k \in 1..Len(cur) : Fits(k) /\ cur[k].kind # "blank"}
  IN  IF starts = {} THEN <<>> ELSE SubSeq(cur, Min(starts), Len(cur))

(* restart: what the next chunk repeats, a header or an overlap.  The test *)
(* whether the next unit is the header's separator is one of identity, with*)
(* a copy: it never is.                                                    *)
Repeats(unit) ==
  IF ~InTable(unit)
  THEN IF overlap > 0 THEN TrailingProse ELSE <<>>
  ELSE IF unit.first \/ \A h \in heads : h[1].table # unit.table THEN <<>>
       ELSE CHOOSE h \in heads : h[1].table = unit.table

(* Slip: whatever the budget says.                                         *)
SeedOver(unit) == Repeats(unit)

Seed(unit) ==
  IF Tokens(Repeats(unit)) + unit.tokens > size THEN <<>> ELSE Repeats(unit)

Closed == Append(chunks, [parts |-> cur, fresh |-> fresh])

(* Nothing blank at the top of a chunk.                                    *)
Extended(base, unit) ==
  IF base = <<>> /\ unit.kind = "blank" THEN base ELSE Append(base, unit)

Packs ==
  /\ next <= Len(units) /\ ~Unfit(units[next])
  /\ cur' = Extended(cur, units[next])
  /\ next' = next + 1
  /\ UNCHANGED <<size, overlap, text, units, heads, fresh, chunks>>

Closes ==
  /\ next <= Len(units) /\ Unfit(units[next])
  /\ chunks' = Closed
  /\ LET seed == Seed(units[next]) IN
       /\ cur' = Extended(seed, units[next])
       /\ fresh' = Len(seed)
  /\ next' = next + 1
  /\ UNCHANGED <<size, overlap, text, units, heads>>

CloseLast ==
  /\ next = Len(units) + 1 /\ Len(cur) > fresh
  /\ chunks' = Closed
  /\ cur' = <<>> /\ fresh' = 0
  /\ UNCHANGED <<size, overlap, text, units, heads, next>>

ChunkNext == Packs \/ Closes \/ CloseLast

ChunkSpec == ChunkInit /\ [][ChunkNext]_chunkVars

-----------------------------------------------------------------------------
Keep(kept, unit) == IF unit.kind = "blank" THEN kept ELSE Append(kept, unit)

Kept(parts) ==
  LET kept[k \in 0..Len(parts)] == IF k = 0 THEN <<>> ELSE Keep(kept[k - 1], parts[k])
  IN  kept[Len(parts)]

NewOf(parts, n) == Kept(SubSeq(parts, n + 1, Len(parts)))

(* What closed chunks hold besides repeats, one after the other.           *)
Told(closed) ==
  LET told[k \in 0..Len(closed)] ==
        IF k = 0 THEN <<>> ELSE told[k - 1] \o NewOf(closed[k].parts, closed[k].fresh)
  IN  told[Len(closed)]

(* Every variable has its type.                                            *)
ChunkTypeOK ==
  /\ size \in Sizes /\ overlap \in Overlaps
  /\ next \in 1..Len(units) + 1 /\ fresh \in 0..Len(cur)
  /\ Range(cur) \subseteq Range(units) \cup {h[2] : h \in heads}
  /\ \A c \in Range(chunks) : c.fresh < Len(c.parts)

(* The units hold every line of the text, with all its words, in order;    *)
(* windows of a line may share words, and leave none out between them.     *)
WordsKept ==
  /\ \A i \in DOMAIN text : text[i].kind # "blank" =>
       \A w \in DOMAIN text[i].words :
         \E u \in Range(units) : u.line = i /\ w \in u.from..u.to
  /\ \A k \in 2..Len(units) :
       \/ units[k - 1].line < units[k].line
       \/ /\ units[k - 1].line = units[k].line
          /\ units[k - 1].from < units[k].from /\ units[k].from <= units[k - 1].to + 1

(* The chunks hold every unit that is not blank once and in its order,     *)
(* whatever they repeat besides.                                           *)
UnitsKept == Told(chunks) \o NewOf(cur, fresh) = Kept(SubSeq(units, 1, next - 1))

(* A chunk keeps to its budget, repeats included, unless a single line is  *)
(* larger: "A row longer than the budget becomes a chunk of its own"       *)
(* (chunking.py:10).                                                       *)
ChunksFit ==
  \A c \in Range(chunks) :
    Tokens(c.parts) <= size \/ (c.fresh = 0 /\ Len(Kept(c.parts)) = 1)

(* Nothing is lost, nothing too large.                                     *)
ChunksHold == WordsKept /\ UnitsKept /\ ChunksFit

(* A row "takes no part in overlap" (chunking.py:10), and a header is      *)
(* repeated before rows that come later: no line is twice in a chunk.      *)
NoLineTwice ==
  \A c \in Range(chunks) : \A i, k \in DOMAIN c.parts :
    i # k => c.parts[i] # c.parts[k]

(* "the header is repeated at the top of each continuation chunk, so a row *)
(* is still read with its column names" (chunking.py:11), if the budget    *)
(* allows.                                                                 *)
RowsHaveHeader ==
  \A c \in Range(chunks), h \in heads : \A i \in DOMAIN c.parts :
    c.parts[i].table = h[1].table /\ c.parts[i].line > h[2].line
      => h[1] \in Range(c.parts) \/ Tokens(h) + c.parts[i].tokens > size
=============================================================================
