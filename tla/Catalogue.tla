----------------------------- MODULE Catalogue -----------------------------
(***************************************************************************)
(* The catalogue as CSV (reports.service.ts): written, read back and       *)
(* imported.  A cell and a file are sequences of characters; a number is   *)
(* one character of its own, ToString(n).  products maps the name of a     *)
(* product, which is unique in its event, to its row.                      *)
(***************************************************************************)
EXTENDS Integers, Sequences, SequencesExt, TLC

CONSTANT MaxNumber

BOM == "BOM"
Columns == <<<<"nome">>, <<"grupo">>, <<"alcoolica">>, <<"base">>, <<"minimo">>,
             <<"maximo">>, <<"stock">>, <<"ordem">>>>
Required == {<<"nome">>, <<"grupo">>, <<"base">>, <<"minimo">>, <<"maximo">>}

join(parts, separator) ==
  FlattenSeq([i \in DOMAIN parts |-> IF i = 1 THEN parts[1] ELSE separator \o parts[i]])

\* Fault: a line break does not need quotes.
escapeCell_BareBreaks(cell) ==
  IF \E i \in DOMAIN cell : cell[i] \in {"\"", ","}
    THEN <<"\"">> \o FlattenSeq([i \in DOMAIN cell |->
                       IF cell[i] = "\"" THEN <<"\"", "\"">> ELSE <<cell[i]>>]) \o <<"\"">>
    ELSE cell

escapeCell(cell) ==
  IF \E i \in DOMAIN cell : cell[i] \in {"\"", ",", "\n", "\r"}
    THEN <<"\"">> \o FlattenSeq([i \in DOMAIN cell |->
                       IF cell[i] = "\"" THEN <<"\"", "\"">> ELSE <<cell[i]>>]) \o <<"\"">>
    ELSE cell

toCsv(rows) ==
  LET line(row) == join([i \in DOMAIN row |-> escapeCell(row[i])], <<",">>)
  IN  <<BOM>> \o join([i \in DOMAIN rows |-> line(rows[i])], <<"\r", "\n">>) \o <<"\r", "\n">>

-----------------------------------------------------------------------------
(* parseCsv reads one character at a time.  Where the code looks ahead for  *)
(* the second quote of an escaped one, a quote read just after the one that *)
(* closed a quoted cell opens it again, and was escaped.                    *)

Start == [rows |-> <<>>, row |-> <<>>, cell |-> <<>>, quoted |-> FALSE, closed |-> FALSE]

Take(s, char) == [s EXCEPT !.cell = Append(@, char)]
EndCell(s) == [s EXCEPT !.row = Append(@, s.cell), !.cell = <<>>]
EndRow(s) == [EndCell(s) EXCEPT !.rows = Append(@, EndCell(s).row), !.row = <<>>]

ReadQuoted(s, char) ==
  IF char = "\"" THEN [s EXCEPT !.quoted = FALSE, !.closed = TRUE] ELSE Take(s, char)

ReadPlain(s, char) ==
  CASE char = "\"" -> [IF s.closed THEN Take(s, char) ELSE s EXCEPT !.quoted = TRUE]
    [] char = "," -> EndCell(s)
    [] char = "\n" -> EndRow(s)
    [] char = "\r" -> s
    [] OTHER -> Take(s, char)

Read(s, char) ==
  IF s.quoted THEN ReadQuoted(s, char) ELSE [ReadPlain(s, char) EXCEPT !.closed = FALSE]

ReadAll(s, text) ==
  LET read[i \in 0 .. Len(text)] == IF i = 0 THEN s ELSE Read(read[i - 1], text[i])
  IN  read[Len(text)]

parseCsv(input) ==
  LET text == IF input # <<>> /\ input[1] = BOM THEN Tail(input) ELSE input
      end == ReadAll(Start, text)
  IN  IF end.cell # <<>> \/ end.row # <<>> THEN EndRow(end).rows ELSE end.rows

-----------------------------------------------------------------------------
Blank == {" ", "\n", "\r"}
Number(n) == <<ToString(n)>>

\* Different numbers are written differently, and in plain characters.
ASSUME NumberAssumption ==
  /\ MaxNumber \in Nat
  /\ \A m, n \in 0 .. MaxNumber : m # n => ToString(m) # ToString(n)
  /\ \A n \in 0 .. MaxNumber : /\ ToString(n) \in STRING \ {"\"", ",", BOM}
                              /\ ToString(n) \notin Blank

\* The products on sale in their order, ties in any.
InOrder(products) ==
  LET S == {p \in DOMAIN products : ~products[p].archived}
  IN  CHOOSE s \in Bijection(1 .. Cardinality(S), S) :
        \A i, j \in DOMAIN s : i < j => products[s[i]].order <= products[s[j]].order

exportProducts(products) ==
  LET names == InOrder(products)
      row(p) == <<p, products[p].group, <<IF products[p].alcoholic THEN "sim" ELSE "nao">>,
                  Number(products[p].base), Number(products[p].min),
                  Number(products[p].max), Number(products[p].stockInitial),
                  Number(products[p].order)>>
  IN  toCsv(<<Columns>> \o [i \in DOMAIN names |-> row(names[i])])

trim(cell) ==
  LET kept == {i \in DOMAIN cell : cell[i] \notin Blank}
  IN  IF kept = {} THEN <<>>
      ELSE SubSeq(cell, CHOOSE i \in kept : \A j \in kept : i <= j,
                        CHOOSE i \in kept : \A j \in kept : j <= i)

\* A cell of the named column, "" when the row is short; -1 is not a number.
value(header, row, name) ==
  LET at == {i \in DOMAIN header \cap DOMAIN row : header[i] = name}
  IN  IF at = {} THEN <<>> ELSE trim(row[CHOOSE i \in at : \A j \in at : i <= j])

number(header, row, name, default) ==
  LET cell == value(header, row, name)
      read == {n \in 0 .. MaxNumber : Number(n) = cell}
  IN  CASE cell = <<>> -> default
        [] read # {} -> CHOOSE n \in read : TRUE
        [] OTHER -> -1

candidate(header, row) ==
  [name |-> value(header, row, <<"nome">>),
   group |-> value(header, row, <<"grupo">>),
   alcoholic |-> value(header, row, <<"alcoolica">>) # <<"nao">>,
   base |-> number(header, row, <<"base">>, -1),
   min |-> number(header, row, <<"minimo">>, -1),
   max |-> number(header, row, <<"maximo">>, -1),
   stockInitial |-> number(header, row, <<"stock">>, 0),
   order |-> number(header, row, <<"ordem">>, 0)]

valid(c) == /\ c.name # <<>> /\ c.group # <<>>
            /\ c.base > 0 /\ c.min > 0 /\ c.max > 0 /\ c.stockInitial >= 0 /\ c.order >= 0
            /\ c.min <= c.base /\ c.base <= c.max

\* The products of the good lines, and the numbers of the bad ones.
parseProductsCsv(csv) ==
  LET rows == parseCsv(csv)
      header == rows[1]
      lines == {i \in 2 .. Len(rows) : \E j \in DOMAIN rows[i] : trim(rows[i][j]) # <<>>}
  IN  IF rows = <<>> \/ ~Required \subseteq Range(header)
        THEN [products |-> <<>>, errors |-> {1}]
        ELSE [products |-> [i \in {i \in lines : valid(candidate(header, rows[i]))} |->
                              candidate(header, rows[i])],
              errors |-> {i \in lines : ~valid(candidate(header, rows[i]))}]

=============================================================================
