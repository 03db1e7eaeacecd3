---------------------------- MODULE RenderedFile ----------------------------
(***************************************************************************)
(* What the render stage makes of one sealed file (table.rs render): the   *)
(* rows that survive the deduplication by primary key (dedup.rs), written  *)
(* as CSV (csv.rs), and what the server's loader reads back.               *)
(*                                                                         *)
(* The loops of the code are the steps: over the rows and key columns in   *)
(* dedup_last_wins, over its winners, and over rows, cells and characters  *)
(* in the formatter.  The loader takes a file one character after the      *)
(* other and looks neither back nor ahead, so the file itself is not a     *)
(* variable: each character is given to the loader when it is written.     *)
(***************************************************************************)
EXTENDS Integers, Sequences

CONSTANTS
  Char,       \* the characters of texts
  MaxText,    \* longest text, u32::MAX
  Length,     \* the bytes of a key that hold the length of a text
  Names,      \* the column names
  PkColumns,  \* the columns of the primary key
  Files       \* the sealed files: sequences of batches, which are sequences of rows

Text == {t \in Seq(Char) : Len(t) <= MaxText}

\* NULL, or <<text>>.
CellValue == {c \in Seq(Text) : Len(c) <= 1}

Null == << >>

Row == [1..Len(Names) -> CellValue]

ASSUME TextAssumption ==
  /\ MaxText \in Nat
  /\ \A m, n \in 0..MaxText : Length[m] = Length[n] => m = n

ASSUME TableAssumption ==
  /\ Names \in Seq(Text) /\ Names # << >>
  /\ PkColumns \in Seq(1..Len(Names))
  /\ Files \subseteq Seq(Seq(Row))

VARIABLES
  batches,  \* the sealed file
  upsert,   \* StreamMode::Upsert
  stage,    \* "dedup", "keep", "format", "rendered"
  pos,      \* the row dedup is at, as <<batch, row>>
  col,      \* the key column it is at, or the formatter's column
  key,      \* the key of that row as far as it is put together
  latest,   \* the map from keys to rows
  winners,  \* rows that stay and are not in keep yet
  keep,     \* rows that stay, in their order
  line,     \* the row the formatter is at: 0 for the header, or its place in keep
  chr,      \* the character it is at, 0 between two cells
  read      \* what the loader has made of the file so far

vars == <<batches, upsert, stage, pos, col, key, latest, winners, keep, line, chr, read>>

\* Characters that matter to the formats.
Quote == "quote"
Delimiter == "comma"
Newline == "newline"
NUL == "NUL"

\* The rows of the file and their order.
Positions == UNION {{<<b, i>> : i \in 1..Len(batches[b])} : b \in 1..Len(batches)}

Before(p, q) == p[1] < q[1] \/ (p[1] = q[1] /\ p[2] < q[2])

RowAt(p) == batches[p[1]][p[2]]

-----------------------------------------------------------------------------
(***************************************************************************)
(* The loader, format=csv with header=true: a field is quoted as a whole   *)
(* or not at all, an unquoted empty one is NULL, a doubled quote inside    *)
(* quotes is one quote.                                                    *)
(***************************************************************************)
NoField == [text |-> << >>, quoted |-> FALSE, open |-> FALSE]

NothingRead == [rows |-> << >>, row |-> << >>, field |-> NoField]

Loadable(f) == IF ~f.quoted /\ f.text = << >> THEN Null ELSE <<f.text>>

Quoted(f) ==
  [text |-> IF f.quoted /\ ~f.open THEN Append(f.text, Quote) ELSE f.text,
   quoted |-> TRUE, open |-> ~f.open]

ReadChar(acc, c) ==
  CASE c = Quote ->
         [acc EXCEPT !.field = Quoted(@)]
    [] c = Delimiter /\ ~acc.field.open ->
         [acc EXCEPT !.row = Append(@, Loadable(acc.field)), !.field = NoField]
    [] c = Newline /\ ~acc.field.open ->
         [rows |-> Append(acc.rows, Append(acc.row, Loadable(acc.field))),
          row |-> << >>, field |-> NoField]
    [] OTHER ->
         [acc EXCEPT !.field.text = Append(@, c)]

\* Without the header.
Loaded == SubSeq(read.rows, 2, Len(read.rows))

-----------------------------------------------------------------------------
(***************************************************************************)
(* dedup.rs.  A byte of a key is a character here; tags, lengths and the   *)
(* separator may be characters too, since a text may contain any byte.     *)
(***************************************************************************)
NullTag == "0"
ValueTag == "1"
Separator == "255"

\* Mutant: the separator is taken to end a field.
append_value_bytes_bare(text) == text

append_value_bytes(text) == <<Length[Len(text)]>> \o text

CellBytes(cell) ==
  IF cell = Null THEN <<NullTag>>
  ELSE <<ValueTag>> \o append_value_bytes(cell[1]) \o <<Separator>>

Init ==
  /\ batches \in Files /\ upsert \in BOOLEAN
  /\ stage = "dedup"
  /\ pos = <<1, 1>> /\ col = 1 /\ key = << >> /\ latest = << >>
  /\ winners = {} /\ keep = << >>
  /\ line = 0 /\ chr = 0 /\ read = NothingRead

\* The loops of dedup_last_wins are at a row.
AtRow ==
  /\ stage = "dedup" /\ upsert
  /\ pos[1] <= Len(batches) /\ pos[2] <= Len(batches[pos[1]])

pk_key ==
  /\ AtRow /\ col <= Len(PkColumns)
  /\ key' = key \o CellBytes(RowAt(pos)[PkColumns[col]])
  /\ col' = col + 1
  /\ UNCHANGED <<batches, upsert, stage, pos, latest, winners, keep, line, chr, read>>

\* latest.insert replaces the entry of the key.
Insert ==
  /\ AtRow /\ col > Len(PkColumns)
  /\ latest' = [k \in DOMAIN latest \cup {key} |-> IF k = key THEN pos ELSE latest[k]]
  /\ pos' = <<pos[1], pos[2] + 1>> /\ key' = << >> /\ col' = 1
  /\ UNCHANGED <<batches, upsert, stage, winners, keep, line, chr, read>>

NextBatch ==
  /\ stage = "dedup" /\ upsert
  /\ pos[1] <= Len(batches) /\ pos[2] > Len(batches[pos[1]])
  /\ pos' = <<pos[1] + 1, 1>>
  /\ UNCHANGED <<batches, upsert, stage, col, key, latest, winners, keep, line, chr, read>>

\* Insert-only keeps every row.
Collect ==
  /\ stage = "dedup"
  /\ ~upsert \/ pos[1] > Len(batches)
  /\ winners' = IF upsert THEN {latest[k] : k \in DOMAIN latest} ELSE Positions
  /\ stage' = "keep"
  /\ UNCHANGED <<batches, upsert, pos, col, key, latest, keep, line, chr, read>>

\* The winners are sorted and kept one after the other.
Keep ==
  /\ stage = "keep"
  /\ \E p \in winners :
       /\ \A q \in winners : q = p \/ Before(p, q)
       /\ keep' = Append(keep, p)
       /\ winners' = winners \ {p}
  /\ UNCHANGED <<batches, upsert, stage, pos, col, key, latest, line, chr, read>>

Kept ==
  /\ stage = "keep" /\ winners = {}
  /\ stage' = "format"
  /\ UNCHANGED <<batches, upsert, pos, col, key, latest, winners, keep, line, chr, read>>

dedup_last_wins == pk_key \/ Insert \/ NextBatch \/ Collect \/ Keep \/ Kept

-----------------------------------------------------------------------------
(***************************************************************************)
(* csv.rs: header and format_rows.                                         *)
(***************************************************************************)
Line(n) == IF n = 0 THEN [c \in 1..Len(Names) |-> <<Names[c]>>] ELSE RowAt(keep[n])

\* The cell the formatter is at.
Cell == Line(line)[col]

AtLine == stage = "format" /\ line <= Len(keep)

Delimited == IF col > 1 THEN ReadChar(read, Delimiter) ELSE read

\* Nothing for NULL, or the opening quote.
BeginCell ==
  /\ AtLine /\ chr = 0 /\ col <= Len(Names)
  /\ IF Cell = Null
       THEN read' = Delimited /\ col' = col + 1 /\ UNCHANGED chr
       ELSE read' = ReadChar(Delimited, Quote) /\ chr' = 1 /\ UNCHANGED col
  /\ UNCHANGED <<batches, upsert, stage, pos, key, latest, winners, keep, line>>

\* Mutant: an embedded quote is written as it is.
quote_into_plain(c) == IF c = NUL THEN read ELSE ReadChar(read, c)

quote_into(c) ==
  IF c = NUL THEN read
  ELSE IF c = Quote THEN ReadChar(ReadChar(read, Quote), Quote)
  ELSE ReadChar(read, c)

WriteChar ==
  /\ AtLine /\ chr > 0 /\ chr <= Len(Cell[1])
  /\ read' = quote_into(Cell[1][chr])
  /\ chr' = chr + 1
  /\ UNCHANGED <<batches, upsert, stage, pos, col, key, latest, winners, keep, line>>

EndCell ==
  /\ AtLine /\ chr > 0 /\ chr > Len(Cell[1])
  /\ read' = ReadChar(read, Quote)
  /\ chr' = 0 /\ col' = col + 1
  /\ UNCHANGED <<batches, upsert, stage, pos, key, latest, winners, keep, line>>

EndLine ==
  /\ AtLine /\ chr = 0 /\ col > Len(Names)
  /\ read' = ReadChar(read, Newline)
  /\ line' = line + 1 /\ col' = 1
  /\ UNCHANGED <<batches, upsert, stage, pos, key, latest, winners, keep, chr>>

Rendered ==
  /\ stage = "format" /\ line > Len(keep)
  /\ stage' = "rendered"
  /\ UNCHANGED <<batches, upsert, pos, col, key, latest, winners, keep, line, chr, read>>

format_rows == BeginCell \/ WriteChar \/ EndCell \/ EndLine \/ Rendered

render == dedup_last_wins \/ format_rows

Spec == Init /\ [][render]_vars

-----------------------------------------------------------------------------
KeyOf(row) == [c \in 1..Len(PkColumns) |-> row[PkColumns[c]]]

(***************************************************************************)
(* dedup_last_wins: of the rows with one primary key the last one stays,   *)
(* NULL and the empty string are different keys, two keys are never taken  *)
(* for one because of how they are encoded, and rows keep their order.     *)
(* Without upsert every row stays.                                         *)
(***************************************************************************)
LastVersions ==
  {p \in Positions : \A q \in Positions : Before(p, q) => KeyOf(RowAt(q)) # KeyOf(RowAt(p))}

LastVersionStays ==
  stage \in {"format", "rendered"} =>
    /\ {keep[i] : i \in 1..Len(keep)} = IF upsert THEN LastVersions ELSE Positions
    /\ \A i, j \in 1..Len(keep) : i < j => Before(keep[i], keep[j])

\* t is the first n characters of s without the NULs.
WithoutNUL(t, s, n) ==
  \E from \in [1..Len(t) -> 1..n] :
    /\ \A i, j \in 1..Len(t) : i < j => from[i] < from[j]
    /\ \A i \in 1..Len(t) : t[i] = s[from[i]] /\ s[from[i]] # NUL
    /\ \A m \in 1..n : s[m] = NUL \/ \E i \in 1..Len(t) : from[i] = m

ReadsAs(cell, written) ==
  IF written = Null THEN cell = Null
  ELSE cell # Null /\ WithoutNUL(cell[1], written[1], Len(written[1]))

(***************************************************************************)
(* csv.rs: the loader reads back the rows that were kept, cell by cell and *)
(* without their NULs: NULL stays different from the empty string, and     *)
(* quotes, delimiters and newlines in a text do not end it.                *)
(***************************************************************************)
LoadsAsWritten ==
  stage = "rendered" =>
    /\ Len(Loaded) = Len(keep)
    /\ \A n \in 1..Len(keep) :
         /\ Len(Loaded[n]) = Len(Names)
         /\ \A c \in 1..Len(Names) : ReadsAs(Loaded[n][c], RowAt(keep[n])[c])

(***************************************************************************)
(* dedup.rs: "duplicate PKs within one staged file make the Relyt master   *)
(* reject the whole load", so a file of an upsert stream holds no two rows *)
(* that the loader reads as having the same key.                           *)
(***************************************************************************)
OneRowPerLoadedKey ==
  stage = "rendered" /\ upsert =>
    \A i, j \in 1..Len(Loaded) : KeyOf(Loaded[i]) = KeyOf(Loaded[j]) => i = j

=============================================================================
