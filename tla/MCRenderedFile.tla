--------------------------- MODULE MCRenderedFile ---------------------------
(***************************************************************************)
(* Files for RenderedFile: a payload and a composite key of two columns,   *)
(* declared in another order than the columns.                             *)
(***************************************************************************)
EXTENDS RenderedFile

Chars == {"a", "k", "v", Quote, Delimiter, Newline, NUL, NullTag, ValueTag, Separator}

\* A length may look like a tag.
LengthBytes == [n \in 0..3 |-> IF n = 0 THEN NullTag ELSE IF n = 1 THEN ValueTag ELSE IF n = 2 THEN "2" ELSE "3"]

ColumnNames == << <<"v">>, <<"k">>, <<"k", Quote>> >>

PrimaryKey == <<3, 2>>

\* Keys that look alike when they are written one after the other.
Keys == {Null, << << >> >>, << <<"a">> >>, << <<Separator, ValueTag>> >>}
Texts == {Null, << << >> >>, << <<Delimiter, Newline>> >>, << <<Quote, "a", NUL>> >>}
Rows(keys, texts) == {<<v, k1, k2>> : k1 \in keys, k2 \in keys, v \in texts}

\* Any two rows in one batch or in two; four versions of a few keys.
Split(rows) == {<<rows>>} \cup {<<SubSeq(rows, 1, n), SubSeq(rows, n + 1, Len(rows))>> : n \in 1..Len(rows)}
Pairs == UNION {Split(<<r, s>>) : r, s \in Rows(Keys, Texts)}
Versions == UNION {Split(rows) : rows \in [1..4 -> Rows({<< <<"a">> >>, Null}, {Null})]}

MCFiles == Pairs \cup Versions

\* Keys with a NUL in them.
NulFiles ==
  {<< <<r, s>> >> : r, s \in Rows({<< <<"a">> >>, << <<"a", NUL>> >>, << << >> >>, << <<NUL>> >>}, {<< <<NUL>> >>})}

=============================================================================
