---------------------------- MODULE AgentProofs -----------------------------
(***************************************************************************)
(* Proofs about what the agent does with a device: the template engine     *)
(* (TextFsm), for any valid or invalid template and any text, and the      *)
(* behaviours that run it or a session on the device's shell.              *)
(***************************************************************************)
EXTENDS MCAgent, DeviceShellAnswers

-----------------------------------------------------------------------------
(* The template engine: what its record holds.                             *)

Cell == Seq(STRING)
Row  == [cells : [Columns -> Cell], block : Nat]
States == Final \cup {"Start"} \cup DOMAIN template.states
Engine == [line : Nat, state : States, value : [Columns -> Cell], down : [Columns -> Cell],
           tmp : [Columns -> Cell], list : [Columns -> Cell], rows : Seq(Row),
           blocks : Seq(Seq(Nat)), on : BOOLEAN, raw : Nat, parser : Nat]

\* A column's value is what its options remember, and a list that has a value is not
\* empty, unless TmpFilldown remembers the value longer than the list.
Remembers(f) ==
    \A i \in Columns :
        /\ IF Has("Filldown", i) THEN f.value[i] = f.down[i]
           ELSE Has("TmpFilldown", i) => f.value[i] = f.tmp[i]
        /\ ~Has("TmpFilldown", i) => f.tmp[i] = <<>>
        /\ Has("List", i) /\ ~Has("TmpFilldown", i) /\ f.value[i] # <<>> => f.list[i] # <<>>

\* NoGaps of the rows of a record, and that a value goes up to all of them.
Gapless(rows) ==
    \A r \in DOMAIN rows : \A i \in Columns :
        /\ Has("Required", i) /\ ~(Has("List", i) /\ Has("TmpFilldown", i)) =>
              rows[r].cells[i] # <<>>
        /\ Has("Fillup", i) /\ ~Has("List", i) /\ Truthy(rows[r].cells[i]) =>
              \A s \in 1..r : Truthy(rows[s].cells[i])
GoesUp(f) ==
    \A i \in Columns : Has("Fillup", i) /\ ~Has("List", i) /\ Truthy(f.value[i]) =>
        \A r \in DOMAIN f.rows : Truthy(f.rows[r].cells[i])
Filled(f) == Remembers(f) /\ Gapless(f.rows) /\ GoesUp(f)

\* Rows refer to blocks that exist, blocks to lines of the text.
Refers(f) ==
    /\ f.blocks \in Seq(Seq(1..Len(text)))
    /\ \A r \in DOMAIN f.rows : f.rows[r].block <= Len(f.blocks)

\* While a line is scanned the engine stands on lines of the text.
Standing(f) == f.line \in 1..Len(text) /\ f.raw \in 1..Len(text) /\ f.parser \in 1..Len(text)

\* The parts of a record that lemmas about columns, blocks and lines are about.
SameColumns(f, g) == /\ g.value = f.value /\ g.down = f.down /\ g.tmp = f.tmp /\ g.list = f.list
                     /\ g.rows = f.rows

LEMMA FilledSame ==
    ASSUME NEW f, NEW g, SameColumns(f, g), Filled(f)
    PROVE  Filled(g)
BY DEF SameColumns, Filled, Remembers, GoesUp

LEMMA Singleton == ASSUME NEW S, NEW x \in S PROVE <<x>> \in Seq(S) /\ <<x>> # <<>>
OBVIOUS

LEMMA Longer ==
    ASSUME NEW S, NEW x \in S, NEW q \in Seq(S)
    PROVE  Append(q, x) \in Seq(S) /\ Append(q, x) # <<>>
<1>1. PICK p : p = Append(q, x)
    OBVIOUS
<1>2. p \in Seq(S) /\ Len(p) = Len(q) + 1 /\ Len(q) \in Nat
    BY <1>1
<1>3. Len(p) # 0
    BY <1>2
<1> QED
    BY <1>1, <1>2, <1>3

LEMMA Between == \A n \in Nat : \A r \in 1..n : \A s \in r..n : r \in 1..s /\ s \in 1..n
OBVIOUS

LEMMA OneCell ==
    ASSUME NEW x \in STRING
    PROVE  <<x>> \in Cell /\ <<x>> # <<>> /\ (Truthy(<<x>>) <=> x # "")
<1>1. <<x>> \in Cell /\ <<x>> # <<>>
    BY Singleton DEF Cell
<1>2. <<x>> = <<"">> <=> x = ""
    OBVIOUS
<1> QED
    BY <1>1, <1>2 DEF Truthy

\* Assigning a line's value to columns.
LEMMA FilledUpKeeps ==
    ASSUME NEW rows \in Seq(Row), NEW cols \in SUBSET Columns, NEW x \in STRING,
           Gapless(rows), NEW new, new = FilledUp(rows, cols, x)
    PROVE  /\ new \in Seq(Row) /\ Len(new) = Len(rows) /\ Gapless(new)
           /\ \A r \in DOMAIN rows : new[r].block = rows[r].block
           /\ \A i \in Columns : Has("Fillup", i) /\ ~Has("List", i) =>
                 \A r \in DOMAIN rows : Truthy(rows[r].cells[i]) => Truthy(new[r].cells[i])
           /\ x # "" => \A i \in cols : Has("Fillup", i) /\ ~Has("List", i) =>
                 \A r \in DOMAIN rows : Truthy(new[r].cells[i])
<1>2. PICK Fills : Fills = {p \in (DOMAIN rows) \X Columns :
                       /\ p[2] \in cols /\ Has("Fillup", p[2]) /\ x # ""
                       /\ \A s \in p[1]..Len(rows) : ~Full(p[2], rows[s].cells[p[2]])}
    OBVIOUS
<1>3. /\ DOMAIN rows = 1..Len(rows) /\ Len(rows) \in Nat
      /\ \A r \in DOMAIN rows : /\ rows[r] \in Row /\ rows[r].cells \in [Columns -> Cell]
                                /\ rows[r].block \in Nat
    <2>1. DOMAIN rows = 1..Len(rows) /\ Len(rows) \in Nat /\ \A r \in DOMAIN rows : rows[r] \in Row
        OBVIOUS
    <2> QED
        BY <2>1 DEF Row
<1>3a. \A r \in DOMAIN rows, i \in Columns : <<r, i>> \in Fills <=>
          /\ i \in cols /\ Has("Fillup", i) /\ x # ""
          /\ \A s \in r..Len(rows) : ~Full(i, rows[s].cells[i])
    BY <1>2
<1>4. new = [r \in DOMAIN rows |->
                 [cells |-> [i \in Columns |-> IF <<r, i>> \in Fills THEN <<x>> ELSE rows[r].cells[i]],
                  block |-> rows[r].block]]
    BY <1>3a DEF FilledUp
<1>5. ASSUME NEW r \in DOMAIN rows
      PROVE  /\ new[r] \in Row /\ new[r].block = rows[r].block
             /\ \A i \in Columns : new[r].cells[i] = IF <<r, i>> \in Fills THEN <<x>>
                                                      ELSE rows[r].cells[i]
    <2>1. PICK c : c = [i \in Columns |-> IF <<r, i>> \in Fills THEN <<x>> ELSE rows[r].cells[i]]
        OBVIOUS
    <2>2. <<x>> \in Cell
        BY OneCell
    <2>3. c \in [Columns -> Cell]
        BY <1>3, <2>1, <2>2
    <2>4. new[r] = [cells |-> c, block |-> rows[r].block]
        BY <1>4, <2>1
    <2>5. new[r] \in Row /\ new[r].block = rows[r].block /\ new[r].cells = c
        BY <1>3, <2>3, <2>4 DEF Row
    <2> QED
        BY <2>1, <2>5
<1>6. /\ new \in Seq(Row) /\ Len(new) = Len(rows) /\ DOMAIN new = 1..Len(rows)
      /\ DOMAIN new = DOMAIN rows
    <2>1. new \in [1..Len(rows) -> Row]
        BY <1>3, <1>4, <1>5
    <2> QED
        BY <1>3, <2>1
<1>7. <<x>> # <<>> /\ (Truthy(<<x>>) <=> x # "")
    BY OneCell
<1>8. ASSUME NEW i \in Columns, Has("Fillup", i), ~Has("List", i)
      PROVE  /\ x # "" /\ i \in cols => \A r \in DOMAIN rows : Truthy(new[r].cells[i])
             /\ \A r \in DOMAIN rows : Truthy(rows[r].cells[i]) => Truthy(new[r].cells[i])
             /\ (x = "" \/ i \notin cols) =>
                   \A r \in DOMAIN rows : new[r].cells[i] = rows[r].cells[i]
    <2>0. PICK T : T = {r \in DOMAIN rows : Truthy(rows[r].cells[i])}
        OBVIOUS
    <2>1. \A r \in DOMAIN rows : <<r, i>> \in Fills <=>
              x # "" /\ i \in cols /\ r..Len(rows) \cap T = {}
        <3>1. \A r \in DOMAIN rows : <<r, i>> \in Fills <=>
                  x # "" /\ i \in cols /\ \A s \in r..Len(rows) : ~Truthy(rows[s].cells[i])
            BY <1>3a, <1>8 DEF Full
        <3>2. \A r \in DOMAIN rows : r..Len(rows) \subseteq DOMAIN rows
            BY <1>3
        <3> QED
            BY <2>0, <3>1, <3>2
    <2>2. \A s \in T : 1..s \subseteq T
        <3>1. \A s \in T : \A r \in 1..s : Truthy(rows[r].cells[i]) /\ r \in DOMAIN rows
            BY <1>3, <1>8, <2>0 DEF Gapless
        <3> QED
            BY <2>0, <3>1
    <2>3. T \subseteq 1..Len(rows)
        BY <1>3, <2>0
    <2>4. \A r \in DOMAIN rows : <<r, i>> \notin Fills /\ x # "" /\ i \in cols => r \in T
        <3> SUFFICES ASSUME NEW r \in DOMAIN rows, <<r, i>> \notin Fills, x # "", i \in cols
                     PROVE  r \in T
            OBVIOUS
        <3>1. PICK s \in r..Len(rows) : s \in T
            BY <2>1
        <3>2. r \in 1..s
            <4>1. r \in 1..Len(rows) /\ Len(rows) \in Nat
                BY <1>3
            <4> QED
                BY <4>1, Between
        <3> QED
            BY <2>2, <3>1, <3>2
    <2>5. \A r \in T : <<r, i>> \notin Fills
        <3>1. \A r \in T : r \in DOMAIN rows /\ r \in r..Len(rows)
            BY <1>3, <2>3
        <3> QED
            BY <2>1, <3>1
    <2>6. \A r \in DOMAIN rows : r \in T <=> Truthy(rows[r].cells[i])
        BY <2>0
    <2>7. \A r \in DOMAIN rows : new[r].cells[i] = IF <<r, i>> \in Fills THEN <<x>>
                                                   ELSE rows[r].cells[i]
        BY <1>5
    <2> QED
        BY <1>7, <2>1, <2>4, <2>5, <2>6, <2>7
<1>9. Gapless(new)
    <2> SUFFICES ASSUME NEW r \in DOMAIN rows, NEW i \in Columns
                 PROVE  /\ Has("Required", i) /\ ~(Has("List", i) /\ Has("TmpFilldown", i)) =>
                              new[r].cells[i] # <<>>
                        /\ Has("Fillup", i) /\ ~Has("List", i) /\ Truthy(new[r].cells[i]) =>
                              \A s \in 1..r : Truthy(new[s].cells[i])
        BY <1>3, <1>6 DEF Gapless
    <2>1. Has("Required", i) /\ ~(Has("List", i) /\ Has("TmpFilldown", i)) =>
              new[r].cells[i] # <<>>
        BY <1>5, <1>7 DEF Gapless
    <2>2. ASSUME Has("Fillup", i), ~Has("List", i), Truthy(new[r].cells[i]), NEW s \in 1..r
          PROVE  Truthy(new[s].cells[i])
        <3>1. s \in DOMAIN rows
            BY <1>3
        <3>2. CASE x # "" /\ i \in cols
            BY <1>8, <2>2, <3>1, <3>2
        <3>3. CASE x = "" \/ i \notin cols
            <4>1. new[r].cells[i] = rows[r].cells[i] /\ new[s].cells[i] = rows[s].cells[i]
                BY <1>8, <2>2, <3>1, <3>3
            <4> QED
                BY <2>2, <4>1 DEF Gapless
        <3> QED
            BY <3>2, <3>3
    <2> QED
        BY <2>1, <2>2
<1> QED
    BY <1>5, <1>6, <1>8, <1>9

\* What a record is made of, and what becomes of it when its columns are written.
LEMMA EngineParts ==
    ASSUME NEW f \in Engine
    PROVE  /\ f.line \in Nat /\ f.state \in States /\ f.value \in [Columns -> Cell]
           /\ f.down \in [Columns -> Cell] /\ f.tmp \in [Columns -> Cell]
           /\ f.list \in [Columns -> Cell] /\ f.rows \in Seq(Row) /\ f.blocks \in Seq(Seq(Nat))
           /\ f.on \in BOOLEAN /\ f.raw \in Nat /\ f.parser \in Nat
BY DEF Engine

SamePlace(f, g) == /\ g.line = f.line /\ g.state = f.state /\ g.blocks = f.blocks
                   /\ g.raw = f.raw /\ g.parser = f.parser
SameBlocks(f, g) == /\ Len(g.rows) = Len(f.rows)
                    /\ \A r \in DOMAIN f.rows : g.rows[r].block = f.rows[r].block

LEMMA ColumnsWritten ==
    ASSUME NEW f \in Engine, NEW v \in [Columns -> Cell], NEW d \in [Columns -> Cell],
           NEW t \in [Columns -> Cell], NEW l \in [Columns -> Cell], NEW w \in Seq(Row),
           NEW b \in BOOLEAN,
           NEW g, g = [f EXCEPT !.value = v, !.down = d, !.tmp = t, !.list = l, !.rows = w,
                                !.on = b]
    PROVE  /\ g \in Engine /\ SamePlace(f, g)
           /\ g.value = v /\ g.down = d /\ g.tmp = t /\ g.list = l /\ g.rows = w /\ g.on = b
BY DEF Engine, SamePlace

LEMMA AssignedKeeps ==
    ASSUME NEW f \in Engine, Filled(f), NEW cols \in SUBSET Columns, NEW x \in STRING,
           NEW g, g = Assigned(f, cols, x)
    PROVE  /\ g \in Engine /\ Filled(g) /\ SamePlace(f, g) /\ SameBlocks(f, g) /\ g.on = f.on
<1>1. PICK w : w = FilledUp(f.rows, cols, x)
    OBVIOUS
<1>2. f.rows \in Seq(Row) /\ Gapless(f.rows)
    BY EngineParts DEF Filled
<1>3. /\ w \in Seq(Row) /\ Len(w) = Len(f.rows) /\ DOMAIN w = DOMAIN f.rows /\ Gapless(w)
      /\ \A r \in DOMAIN f.rows : w[r].block = f.rows[r].block
      /\ \A i \in Columns : Has("Fillup", i) /\ ~Has("List", i) =>
            \A r \in DOMAIN f.rows : Truthy(f.rows[r].cells[i]) => Truthy(w[r].cells[i])
      /\ x # "" => \A i \in cols : Has("Fillup", i) /\ ~Has("List", i) =>
            \A r \in DOMAIN f.rows : Truthy(w[r].cells[i])
    <2>1. PICK old \in Seq(Row) : old = f.rows
        BY <1>2
    <2>2. Gapless(old) /\ w = FilledUp(old, cols, x)
        BY <1>1, <1>2, <2>1
    <2>3. w \in Seq(Row) /\ Len(w) = Len(old) /\ Gapless(w)
        BY <2>2, FilledUpKeeps
    <2>4. \A r \in DOMAIN old : w[r].block = old[r].block
        BY <2>2, FilledUpKeeps
    <2>7. \A i \in Columns : Has("Fillup", i) /\ ~Has("List", i) =>
               \A r \in DOMAIN old : Truthy(old[r].cells[i]) => Truthy(w[r].cells[i])
        BY <2>2, FilledUpKeeps
    <2>5. x # "" => \A i \in cols : Has("Fillup", i) /\ ~Has("List", i) =>
              \A r \in DOMAIN old : Truthy(w[r].cells[i])
        BY <2>2, FilledUpKeeps
    <2>6. DOMAIN w = 1..Len(w) /\ DOMAIN old = 1..Len(old)
        BY <2>3
    <2> QED
        BY <2>1, <2>3, <2>4, <2>7, <2>5, <2>6
<1>4. PICK v : v = [i \in Columns |-> IF i \in cols THEN <<x>> ELSE f.value[i]]
    OBVIOUS
<1>5. PICK d : d = [i \in Columns |-> IF i \in cols /\ Has("Filldown", i) THEN <<x>> ELSE f.down[i]]
    OBVIOUS
<1>6. PICK t : t = [i \in Columns |-> IF i \in cols /\ Has("TmpFilldown", i) THEN <<x>>
                                      ELSE f.tmp[i]]
    OBVIOUS
<1>7. PICK l : l = [i \in Columns |-> IF i \in cols /\ Has("List", i) THEN Append(f.list[i], x)
                                      ELSE f.list[i]]
    OBVIOUS
<1>8. /\ v \in [Columns -> Cell] /\ d \in [Columns -> Cell] /\ t \in [Columns -> Cell]
      /\ l \in [Columns -> Cell]
      /\ \A i \in cols : Has("List", i) => l[i] # <<>>
    <2>1. /\ f.value \in [Columns -> Cell] /\ f.down \in [Columns -> Cell]
          /\ f.tmp \in [Columns -> Cell] /\ f.list \in [Columns -> Cell]
        BY EngineParts
    <2>2. <<x>> \in Cell
        BY OneCell
    <2>3. \A c \in Cell : Append(c, x) \in Cell /\ Append(c, x) # <<>>
        BY Longer DEF Cell
    <2> QED
        BY <1>4, <1>5, <1>6, <1>7, <2>1, <2>2, <2>3
<1>9. g = [f EXCEPT !.value = v, !.down = d, !.tmp = t, !.list = l, !.rows = w]
    BY <1>1, <1>4, <1>5, <1>6, <1>7 DEF Assigned
<1>10. g = [f EXCEPT !.value = v, !.down = d, !.tmp = t, !.list = l, !.rows = w, !.on = f.on]
    BY <1>9 DEF Engine
<1>11. /\ g \in Engine /\ SamePlace(f, g)
       /\ g.value = v /\ g.down = d /\ g.tmp = t /\ g.list = l /\ g.rows = w /\ g.on = f.on
    BY <1>3, <1>8, <1>9 DEF Engine, SamePlace
<1>12. Remembers(g)
    <2> SUFFICES ASSUME NEW i \in Columns
                 PROVE  /\ IF Has("Filldown", i) THEN v[i] = d[i]
                           ELSE Has("TmpFilldown", i) => v[i] = t[i]
                        /\ ~Has("TmpFilldown", i) => t[i] = <<>>
                        /\ Has("List", i) /\ ~Has("TmpFilldown", i) /\ v[i] # <<>> => l[i] # <<>>
        BY <1>11 DEF Remembers
    <2>1. Remembers(f)
        BY DEF Filled
    <2> QED
        BY <1>4, <1>5, <1>6, <1>7, <1>8, <2>1 DEF Remembers
<1>13. GoesUp(g)
    <2> SUFFICES ASSUME NEW i \in Columns, Has("Fillup", i), ~Has("List", i), Truthy(v[i]),
                        NEW r \in DOMAIN w
                 PROVE  Truthy(w[r].cells[i])
        BY <1>11 DEF GoesUp
    <2>1. r \in DOMAIN f.rows
        BY <1>3
    <2>2. CASE i \in cols
        <3>1. v[i] = <<x>>
            BY <1>4, <2>2
        <3>2. x # ""
            BY <3>1, OneCell
        <3> QED
            BY <1>3, <2>1, <2>2, <3>2
    <2>3. CASE i \notin cols
        <3>1. v[i] = f.value[i]
            BY <1>4, <2>3
        <3>2. Truthy(f.rows[r].cells[i])
            BY <2>1, <3>1 DEF Filled, GoesUp
        <3> QED
            BY <1>3, <2>1, <3>2
    <2> QED
        BY <2>2, <2>3
<1> QED
    BY <1>3, <1>11, <1>12, <1>13 DEF Filled, SameBlocks

\* Clearing: a value that stays is one that was there.
LEMMA NothingTyped == Nothing \in [Columns -> Cell] /\ \A i \in Columns : Nothing[i] = <<>>
<1>1. <<>> \in Cell
    BY DEF Cell
<1> QED
    BY <1>1 DEF Nothing

LEMMA ClearedKeeps ==
    ASSUME NEW f \in Engine, Filled(f), NEW t \in {f.tmp, Nothing}, NEW g, g = Cleared(f, t)
    PROVE  g \in Engine /\ Filled(g) /\ SamePlace(f, g) /\ g.rows = f.rows
<1>1. /\ f.value \in [Columns -> Cell] /\ f.down \in [Columns -> Cell]
      /\ f.tmp \in [Columns -> Cell] /\ f.list \in [Columns -> Cell]
    BY EngineParts
<1>2. t \in [Columns -> Cell] /\ \A i \in Columns : t[i] = f.tmp[i] \/ t[i] = <<>>
    BY <1>1, NothingTyped
<1>3. PICK v : v = [i \in Columns |-> IF Has("Filldown", i) THEN f.down[i] ELSE t[i]]
    OBVIOUS
<1>4. PICK l : l = [i \in Columns |-> IF Has("Filldown", i) THEN f.list[i] ELSE <<>>]
    OBVIOUS
<1>5. v \in [Columns -> Cell] /\ l \in [Columns -> Cell]
    <2>1. <<>> \in Cell
        BY DEF Cell
    <2> QED
        BY <1>1, <1>2, <1>3, <1>4, <2>1
<1>6. g = [f EXCEPT !.on = FALSE, !.tmp = t, !.value = v, !.list = l]
    BY <1>3, <1>4 DEF Cleared
<1>7. /\ g \in Engine /\ SamePlace(f, g) /\ g.rows = f.rows
      /\ g.value = v /\ g.tmp = t /\ g.list = l /\ g.down = f.down
    BY <1>2, <1>5, <1>6 DEF Engine, SamePlace
<1>8. \A i \in Columns : /\ IF Has("Filldown", i) THEN f.value[i] = f.down[i]
                            ELSE Has("TmpFilldown", i) => f.value[i] = f.tmp[i]
                         /\ ~Has("TmpFilldown", i) => f.tmp[i] = <<>>
                         /\ Has("List", i) /\ ~Has("TmpFilldown", i) /\ f.value[i] # <<>> =>
                               f.list[i] # <<>>
    BY DEF Filled, Remembers
<1>9. \A i \in Columns : v[i] = f.value[i] \/ v[i] = <<>>
    BY <1>2, <1>3, <1>8
<1>10. Remembers(g)
    <2> SUFFICES ASSUME NEW i \in Columns
                 PROVE  /\ IF Has("Filldown", i) THEN v[i] = f.down[i]
                           ELSE Has("TmpFilldown", i) => v[i] = t[i]
                        /\ ~Has("TmpFilldown", i) => t[i] = <<>>
                        /\ Has("List", i) /\ ~Has("TmpFilldown", i) /\ v[i] # <<>> => l[i] # <<>>
        BY <1>7 DEF Remembers
    <2> QED
        BY <1>2, <1>3, <1>4, <1>8
<1>11. GoesUp(g)
    <2> SUFFICES ASSUME NEW i \in Columns, Has("Fillup", i), ~Has("List", i), Truthy(v[i]),
                        NEW r \in DOMAIN f.rows
                 PROVE  Truthy(f.rows[r].cells[i])
        BY <1>7 DEF GoesUp
    <2>1. v[i] # <<>>
        BY DEF Truthy
    <2>2. Truthy(f.value[i])
        BY <1>9, <2>1
    <2> QED
        BY <2>2 DEF Filled, GoesUp
<1> QED
    BY <1>7, <1>10, <1>11 DEF Filled

LEMMA ClearAllKeeps ==
    ASSUME NEW f \in Engine, Filled(f), NEW g, g = ClearAll(f)
    PROVE  g \in Engine /\ Filled(g) /\ SamePlace(f, g) /\ g.rows = f.rows
<1>1. PICK n \in [Columns -> Cell] : n = Nothing /\ \A i \in Columns : n[i] = <<>>
    BY NothingTyped
<1>2. g = [f EXCEPT !.on = FALSE, !.value = n, !.down = n, !.tmp = n, !.list = n]
    BY <1>1 DEF ClearAll
<1>3. /\ g \in Engine /\ SamePlace(f, g) /\ g.rows = f.rows
      /\ g.value = n /\ g.tmp = n /\ g.list = n /\ g.down = n
    BY <1>2 DEF Engine, SamePlace
<1>4. Remembers(g)
    BY <1>1, <1>3 DEF Remembers
<1>5. GoesUp(g)
    <2>1. \A i \in Columns : ~Truthy(g.value[i])
        BY <1>1, <1>3 DEF Truthy
    <2> QED
        BY <2>1 DEF GoesUp
<1> QED
    BY <1>3, <1>4, <1>5 DEF Filled

\* A row is appended.
LEMMA RowAppended ==
    ASSUME NEW f \in Engine, Filled(f), ~Skips(f), NEW n \in Nat,
           NEW h, h = [f EXCEPT !.rows = Append(@, [cells |-> Cells(f), block |-> n])]
    PROVE  /\ h \in Engine /\ Filled(h) /\ SamePlace(f, h) /\ Len(h.rows) = Len(f.rows) + 1
           /\ \A r \in DOMAIN f.rows : h.rows[r].block = f.rows[r].block
           /\ h.rows[Len(h.rows)].block = n
<1>1. PICK old \in Seq(Row) : old = f.rows /\ Gapless(old)
    BY EngineParts DEF Filled
<1>2. /\ f.value \in [Columns -> Cell] /\ f.list \in [Columns -> Cell]
    BY EngineParts
<1>3. PICK c \in [Columns -> Cell] :
          c = Cells(f) /\ \A i \in Columns : c[i] = IF Has("List", i) THEN f.list[i] ELSE f.value[i]
    BY <1>2 DEF Cells
<1>4. PICK row \in Row : row = [cells |-> c, block |-> n] /\ row.cells = c /\ row.block = n
    BY <1>3 DEF Row
<1>5. PICK w : w = Append(old, row)
    OBVIOUS
<1>6. /\ w \in Seq(Row) /\ Len(w) = Len(old) + 1 /\ Len(old) \in Nat
      /\ DOMAIN w = 1..(Len(old) + 1) /\ DOMAIN old = 1..Len(old)
      /\ \A r \in 1..Len(old) : w[r] = old[r]
      /\ w[Len(old) + 1] = row
    BY <1>5
<1>7. h = [f EXCEPT !.rows = w]
    BY <1>1, <1>3, <1>4, <1>5
<1>8. /\ h \in Engine /\ SamePlace(f, h) /\ h.rows = w
      /\ h.value = f.value /\ h.tmp = f.tmp /\ h.list = f.list /\ h.down = f.down
    BY <1>6, <1>7 DEF Engine, SamePlace
<1>9. ASSUME NEW i \in Columns, Has("Fillup", i), ~Has("List", i), Truthy(c[i]), NEW r \in DOMAIN w
      PROVE  Truthy(w[r].cells[i])
    <2>1. c[i] = f.value[i]
        BY <1>3, <1>9
    <2>2. \A s \in DOMAIN old : Truthy(old[s].cells[i])
        BY <1>1, <1>9, <2>1 DEF Filled, GoesUp
    <2>3. r \in 1..Len(old) \/ r = Len(old) + 1
        BY <1>6
    <2>4. CASE r \in 1..Len(old)
        BY <1>6, <2>2, <2>4
    <2>5. CASE r = Len(old) + 1
        BY <1>4, <1>6, <1>9, <2>5
    <2> QED
        BY <2>3, <2>4, <2>5
<1>10. ASSUME NEW i \in Columns, Has("Required", i), ~(Has("List", i) /\ Has("TmpFilldown", i))
       PROVE  c[i] # <<>>
    <2>1. Truthy(f.value[i])
        BY <1>10 DEF Skips
    <2>2. f.value[i] # <<>>
        BY <2>1 DEF Truthy
    <2>3. Has("List", i) /\ ~Has("TmpFilldown", i) => f.list[i] # <<>>
        BY <2>2 DEF Filled, Remembers
    <2> QED
        BY <1>3, <1>10, <2>2, <2>3
<1>11. Gapless(w)
    <2> SUFFICES ASSUME NEW r \in DOMAIN w, NEW i \in Columns
                 PROVE  /\ Has("Required", i) /\ ~(Has("List", i) /\ Has("TmpFilldown", i)) =>
                              w[r].cells[i] # <<>>
                        /\ Has("Fillup", i) /\ ~Has("List", i) /\ Truthy(w[r].cells[i]) =>
                              \A s \in 1..r : Truthy(w[s].cells[i])
        BY DEF Gapless
    <2>1. CASE r \in 1..Len(old)
        <3>1. r \in DOMAIN old /\ w[r] = old[r] /\ \A s \in 1..r : s \in 1..Len(old) /\ w[s] = old[s]
            BY <1>6, <2>1
        <3> QED
            BY <1>1, <3>1 DEF Gapless
    <2>2. CASE r = Len(old) + 1
        <3>1. w[r].cells = c /\ \A s \in 1..r : s \in DOMAIN w
            BY <1>4, <1>6, <2>2
        <3> QED
            BY <1>9, <1>10, <3>1
    <2> QED
        BY <1>6, <2>1, <2>2
<1>12. GoesUp(h)
    <2> SUFFICES ASSUME NEW i \in Columns, Has("Fillup", i), ~Has("List", i), Truthy(f.value[i]),
                        NEW r \in DOMAIN w
                 PROVE  Truthy(w[r].cells[i])
        BY <1>8 DEF GoesUp
    <2>1. c[i] = f.value[i]
        BY <1>3
    <2> QED
        BY <1>9, <2>1
<1>13. Remembers(h)
    BY <1>8 DEF Filled, Remembers
<1> QED
    BY <1>1, <1>4, <1>6, <1>8, <1>11, <1>12, <1>13 DEF Filled

-----------------------------------------------------------------------------
(* The template engine: blocks and lines.                                  *)

Sound(f) == f \in Engine /\ Filled(f) /\ Refers(f) /\ Standing(f)

LEMMA RefersSame ==
    ASSUME NEW f \in Engine, NEW g \in Engine, Refers(f), SamePlace(f, g),
           g.rows = f.rows \/ SameBlocks(f, g)
    PROVE  Refers(g)
<1>1. \A r \in DOMAIN g.rows : r \in DOMAIN f.rows /\ g.rows[r].block = f.rows[r].block
    <2>1. CASE g.rows = f.rows
        BY <2>1
    <2>2. CASE SameBlocks(f, g)
        <3>1. PICK v \in Seq(Row), w \in Seq(Row) : v = f.rows /\ w = g.rows
            BY EngineParts
        <3>2. DOMAIN v = DOMAIN w
            BY <2>2, <3>1 DEF SameBlocks
        <3> QED
            BY <2>2, <3>1, <3>2 DEF SameBlocks
    <2> QED
        BY <2>1, <2>2
<1> QED
    BY <1>1 DEF Refers, SamePlace

LEMMA StandingSame ==
    ASSUME NEW f, NEW g, Standing(f), SamePlace(f, g)
    PROVE  Standing(g)
BY DEF Standing, SamePlace

\* _AppendRecord
LEMMA AppendedKeeps ==
    ASSUME NEW f \in Engine, Filled(f), Refers(f), NEW g, g = Appended(f)
    PROVE  g \in Engine /\ Filled(g) /\ Refers(g) /\ SamePlace(f, g)
<1>1. CASE Skips(f)
    <2>1. g = Cleared(f, f.tmp)
        BY <1>1 DEF Appended, ClearRecord
    <2>2. g \in Engine /\ Filled(g) /\ SamePlace(f, g) /\ g.rows = f.rows
        BY <2>1, ClearedKeeps
    <2> QED
        BY <2>2, RefersSame
<1>2. CASE ~Skips(f) /\ Empty(f)
    BY <1>2 DEF Appended, SamePlace
<1>3. CASE ~Skips(f) /\ ~Empty(f)
    <2>1. PICK n \in Nat : n = Len(f.blocks)
        <3>1. PICK b \in Seq(Seq(Nat)) : b = f.blocks
            BY EngineParts
        <3> QED
            BY <3>1
    <2>2. PICK h : h = [f EXCEPT !.rows = Append(@, [cells |-> Cells(f), block |-> n])]
        OBVIOUS
    <2>3. g = Cleared(h, h.tmp)
        BY <1>3, <2>1, <2>2 DEF Appended, ClearRecord
    <2>4. /\ h \in Engine /\ Filled(h) /\ SamePlace(f, h) /\ Len(h.rows) = Len(f.rows) + 1
          /\ \A r \in DOMAIN f.rows : h.rows[r].block = f.rows[r].block
          /\ h.rows[Len(h.rows)].block = n
        BY <1>3, <2>2, RowAppended
    <2>5. g \in Engine /\ Filled(g) /\ SamePlace(h, g) /\ g.rows = h.rows
        BY <2>3, <2>4, ClearedKeeps
    <2>6. Refers(h)
        <3>1. PICK v \in Seq(Row), w \in Seq(Row) : v = f.rows /\ w = h.rows
            BY <2>4, EngineParts
        <3>2. Len(w) = Len(v) + 1
            BY <2>4, <3>1
        <3>4. \A r \in DOMAIN w : r \in DOMAIN v \/ r = Len(w)
            BY <3>2
        <3>3. \A r \in DOMAIN w : w[r].block <= n
            <4>1. \A r \in DOMAIN v : w[r].block = v[r].block /\ v[r].block <= n
                BY <2>1, <2>4, <3>1 DEF Refers
            <4>2. w[Len(w)].block = n
                BY <2>4, <3>1
            <4> QED
                BY <3>4, <4>1, <4>2
        <3> QED
            BY <2>1, <2>4, <3>1, <3>3 DEF Refers, SamePlace
    <2>7. SamePlace(f, g)
        BY <2>4, <2>5 DEF SamePlace
    <2> QED
        BY <2>4, <2>5, <2>6, <2>7, RefersSame
<1> QED
    BY <1>1, <1>2, <1>3

\* Sequences of blocks.
LEMMA LastReplaced ==
    ASSUME NEW S, NEW b \in Seq(S), b # <<>>, NEW q \in S
    PROVE  [b EXCEPT ![Len(b)] = q] \in Seq(S) /\ Len([b EXCEPT ![Len(b)] = q]) = Len(b)
<1>1. PICK n \in Nat : n = Len(b) /\ n > 0 /\ DOMAIN b = 1..n
    OBVIOUS
<1>2. PICK c : c = [b EXCEPT ![n] = q]
    OBVIOUS
<1>3. c \in [1..n -> S]
    BY <1>1, <1>2
<1>4. c \in Seq(S) /\ Len(c) = n
    BY <1>3
<1> QED
    BY <1>1, <1>2, <1>4

LEMMA SeqGrows ==
    ASSUME NEW S, NEW T, S \subseteq T
    PROVE  Seq(S) \subseteq Seq(T)
<1> SUFFICES ASSUME NEW q \in Seq(S) PROVE q \in Seq(T)
    OBVIOUS
<1>1. PICK n \in Nat : q \in [1..n -> S]
    OBVIOUS
<1>2. q \in [1..n -> T]
    BY <1>1
<1> QED
    BY <1>2

TextTyped == text \in Seq([kind : STRING, value : STRING])
LEMMA LinesAreNumbers ==
    ASSUME TextTyped
    PROVE  /\ Len(text) \in Nat /\ 1..Len(text) \subseteq Nat
           /\ Seq(1..Len(text)) \subseteq Seq(Nat)
           /\ Seq(Seq(1..Len(text))) \subseteq Seq(Seq(Nat))
<1>1. Len(text) \in Nat /\ 1..Len(text) \subseteq Nat
    BY DEF TextTyped
<1>2. Seq(1..Len(text)) \subseteq Seq(Nat)
    BY <1>1, SeqGrows
<1>3. Seq(Seq(1..Len(text))) \subseteq Seq(Seq(Nat))
    BY <1>2, SeqGrows
<1> QED
    BY <1>1, <1>2, <1>3

\* The blocks are replaced by others, at least as many.
SameLines(f, g) == g.line = f.line /\ g.state = f.state /\ g.raw = f.raw /\ g.parser = f.parser
LEMMA BlocksReplaced ==
    ASSUME TextTyped, NEW f, Sound(f), NEW g \in Engine, SameColumns(f, g), SameLines(f, g),
           g.blocks \in Seq(Seq(1..Len(text))), Len(g.blocks) >= Len(f.blocks)
    PROVE  Sound(g)
<1>1. PICK b \in Seq(Seq(1..Len(text))) : b = g.blocks /\ Len(b) >= Len(f.blocks)
    OBVIOUS
<1>2. f \in Engine /\ Filled(f) /\ Refers(f) /\ Standing(f)
    BY DEF Sound
<1>3. /\ g.line = f.line /\ g.raw = f.raw /\ g.parser = f.parser
    BY DEF SameLines
<1>4. Filled(g)
    BY <1>2, <1>3, FilledSame
<1>5. Refers(g)
    <2>1. PICK v \in Seq(Row) : v = f.rows /\ v = g.rows
        BY <1>2, <1>3, EngineParts DEF SameColumns
    <2>2. \A r \in DOMAIN v : v[r].block \in Nat /\ v[r].block <= Len(f.blocks)
        <3>1. \A r \in DOMAIN v : v[r] \in Row
            OBVIOUS
        <3> QED
            BY <1>2, <2>1, <3>1 DEF Refers, Row
    <2>3. Len(b) \in Nat /\ Len(f.blocks) \in Nat
        <3>1. PICK d \in Seq(Seq(Nat)) : d = f.blocks
            BY <1>2, EngineParts
        <3> QED
            BY <3>1
    <2>4. \A r \in DOMAIN v : v[r].block <= Len(b)
        BY <1>1, <2>2, <2>3
    <2> QED
        BY <1>1, <2>1, <2>4 DEF Refers
<1>6. Standing(g)
    BY <1>2, <1>3 DEF Standing
<1> QED
    BY <1>4, <1>5, <1>6 DEF Sound

\* What Refers says of the blocks.
LEMMA BlockParts ==
    ASSUME NEW f, Sound(f)
    PROVE  /\ f \in Engine /\ f.blocks \in Seq(Seq(1..Len(text))) /\ f.line \in 1..Len(text)
           /\ f.raw \in 1..Len(text) /\ f.parser \in 1..Len(text) /\ f.on \in BOOLEAN
BY EngineParts DEF Sound, Refers, Standing

LEMMA RecordedKeeps ==
    ASSUME TextTyped, NEW f, Sound(f), ~(f.on /\ f.blocks = <<>>), NEW g, g = Recorded(f)
    PROVE  Sound(g) /\ g.state = f.state /\ g.on = f.on /\ (f.on => g.blocks # <<>>)
<1>1. PICK b \in Seq(Seq(1..Len(text))), x \in 1..Len(text) : b = f.blocks /\ x = f.line
    BY BlockParts
<1>2. CASE g = f
    BY <1>2
<1>3. CASE g # f
    <2>1. f.on /\ b # <<>>
        BY <1>1, <1>3 DEF Recorded
    <2>2. PICK q : q = b[Len(b)]
        OBVIOUS
    <2>3. q \in Seq(1..Len(text))
        BY <2>1, <2>2
    <2>4. PICK p \in Seq(1..Len(text)) : p = Append(q, x)
        BY <2>3, Longer
    <2>5. PICK c \in Seq(Seq(1..Len(text))) : c = [b EXCEPT ![Len(b)] = p] /\ Len(c) = Len(b)
        BY <2>1, <2>4, LastReplaced
    <2>7. g = [f EXCEPT !.blocks[Len(f.blocks)] = Append(@, f.line)]
        BY <1>3 DEF Recorded
    <2>8. g = [f EXCEPT !.blocks = c]
        BY <1>1, <2>2, <2>4, <2>5, <2>7
    <2>10. Len(c) >= Len(f.blocks) /\ c # <<>>
        <3>1. Len(b) \in Nat /\ Len(b) # 0
            BY <2>1
        <3>2. Len(c) >= Len(b) /\ c # <<>>
            BY <2>5, <3>1
        <3> QED
            BY <1>1, <3>2
    <2>12. c \in Seq(Seq(Nat))
        BY LinesAreNumbers
    <2>13. g \in Engine /\ SameColumns(f, g) /\ SameLines(f, g) /\ g.blocks = c /\ g.on = f.on
        BY <2>8, <2>12, BlockParts DEF Engine, SameColumns, SameLines
    <2>14. Sound(g)
        BY <2>10, <2>13, BlocksReplaced
    <2> QED
        BY <2>10, <2>13, <2>14 DEF SameLines
<1> QED
    BY <1>2, <1>3

LEMMA StartedKeeps ==
    ASSUME TextTyped, NEW f, Sound(f), NEW q \in Seq(1..Len(text)), NEW g, g = Started(f, q)
    PROVE  Sound(g) /\ g.state = f.state
<1>1. PICK b \in Seq(Seq(1..Len(text))) : b = f.blocks
    BY BlockParts
<1>2. PICK c : c = Append(b, q)
    OBVIOUS
<1>3. c \in Seq(Seq(1..Len(text))) /\ Len(c) = Len(b) + 1 /\ Len(b) \in Nat
    BY <1>2
<1>4. Len(c) >= Len(f.blocks)
    BY <1>1, <1>3
<1>5. g = [f EXCEPT !.blocks = c, !.on = TRUE]
    BY <1>1, <1>2 DEF Started
<1>6. c \in Seq(Seq(Nat))
    BY <1>3, LinesAreNumbers
<1>7. g \in Engine /\ SameColumns(f, g) /\ SameLines(f, g) /\ g.blocks = c
    BY <1>5, <1>6, BlockParts DEF Engine, SameColumns, SameLines
<1>8. Sound(g)
    BY <1>3, <1>4, <1>7, BlocksReplaced
<1> QED
    BY <1>7, <1>8 DEF SameLines

LEMMA LinesMoved ==
    ASSUME NEW f, Sound(f), NEW g \in Engine, SameColumns(f, g), g.blocks = f.blocks, Standing(g)
    PROVE  Sound(g)
<1>1. Filled(g)
    BY FilledSame DEF Sound
<1>2. Refers(g)
    BY DEF Sound, Refers, SameColumns
<1> QED
    BY <1>1, <1>2 DEF Sound

LEMMA Switched ==
    ASSUME NEW f, Sound(f), NEW o \in BOOLEAN, NEW g, g = [f EXCEPT !.on = o]
    PROVE  Sound(g) /\ g.state = f.state
<1>1. /\ g \in Engine /\ SameColumns(f, g) /\ g.blocks = f.blocks /\ SameLines(f, g)
    BY BlockParts DEF Engine, SameColumns, SameLines
<1>2. Standing(g)
    BY <1>1 DEF Sound, Standing, SameLines
<1> QED
    BY <1>1, <1>2, LinesMoved DEF SameLines

LEMMA AppendedSound ==
    ASSUME NEW f, Sound(f), NEW g, g = Appended(f)
    PROVE  Sound(g) /\ SamePlace(f, g)
<1>1. g \in Engine /\ Filled(g) /\ Refers(g) /\ SamePlace(f, g)
    BY AppendedKeeps DEF Sound
<1>2. Standing(g)
    BY <1>1, StandingSame DEF Sound
<1> QED
    BY <1>1, <1>2 DEF Sound

LEMMA ClearedSound ==
    ASSUME NEW f, Sound(f), NEW g, g \in {ClearTmp(f), ClearAll(f)}
    PROVE  Sound(g) /\ g.state = f.state
<1>1. f \in Engine /\ Filled(f) /\ Refers(f) /\ Standing(f)
    BY DEF Sound
<1>2. g \in Engine /\ Filled(g) /\ SamePlace(f, g) /\ g.rows = f.rows
    <2>1. CASE g = ClearAll(f)
        BY <1>1, <2>1, ClearAllKeeps
    <2>2. CASE g = ClearTmp(f)
        <3>1. PICK t \in {f.tmp, Nothing} : t = Nothing
            OBVIOUS
        <3>2. g = Cleared(f, t)
            BY <2>2, <3>1 DEF ClearTmp
        <3> QED
            BY <1>1, <3>2, ClearedKeeps
    <2> QED
        BY <2>1, <2>2
<1>3. Refers(g) /\ Standing(g)
    BY <1>1, <1>2, RefersSame, StandingSame
<1> QED
    BY <1>2, <1>3 DEF Sound, SamePlace

LEMMA HeadElement == ASSUME NEW S, NEW q \in Seq(S), q # <<>> PROVE Head(q) \in S
OBVIOUS

\* The last block, when there is one with lines.
LEMMA LastBlock ==
    ASSUME NEW f, Sound(f), HasBlock(f)
    PROVE  /\ f.blocks # <<>> /\ Len(f.blocks) \in Nat
           /\ f.blocks[Len(f.blocks)] \in Seq(1..Len(text))
           /\ FirstLine(f) \in Seq(1..Len(text))
           /\ Front(f.blocks[Len(f.blocks)]) \in Seq(1..Len(text))
<1>1. PICK b \in Seq(Seq(1..Len(text))) : b = f.blocks
    BY BlockParts
<1>2. b # <<>> /\ b[Len(b)] # <<>>
    BY <1>1 DEF HasBlock, Last
<1>3. Len(b) \in Nat /\ Len(b) \in DOMAIN b
    BY <1>2
<1>4. PICK q \in Seq(1..Len(text)) : q = b[Len(b)]
    BY <1>3
<1>5. PICK x \in 1..Len(text) : x = Head(q)
    <2>1. q # <<>>
        BY <1>2, <1>4
    <2> QED
        BY <2>1, HeadElement
<1>6. <<x>> \in Seq(1..Len(text))
    BY Singleton
<1>7. SubSeq(q, 1, Len(q) - 1) \in Seq(1..Len(text))
    BY <1>2, <1>4
<1>8. FirstLine(f) = <<x>>
    BY <1>1, <1>4, <1>5 DEF FirstLine, Last
<1>9. Front(f.blocks[Len(f.blocks)]) = SubSeq(q, 1, Len(q) - 1)
    BY <1>1, <1>4 DEF Front
<1>10. f.blocks # <<>> /\ Len(f.blocks) \in Nat /\ f.blocks[Len(f.blocks)] = q
    BY <1>1, <1>2, <1>3, <1>4
<1> QED
    BY <1>4, <1>6, <1>7, <1>8, <1>9, <1>10

\* What a rule's operator does to the record.
LEMMA OperatedKeeps ==
    ASSUME TextTyped, NEW f, Sound(f), NEW op \in RecordOps,
           op \in {"RecordLastMatched", "RecordPrefixEq", "RecordFirstAndLast"} => HasBlock(f),
           NEW g, g = Operated(f, op)
    PROVE  Sound(g) /\ g.state = f.state
<1>1. CASE op = "Record"
    BY <1>1, AppendedSound DEF Operated, SamePlace
<1>2. CASE op = "Clear"
    BY <1>2, ClearedSound DEF Operated
<1>3. CASE op = "Clearall"
    BY <1>3, ClearedSound DEF Operated
<1>4. CASE op = "RecordLine"
    <2>1. PICK q \in Seq(1..Len(text)) : q = <<f.line>>
        BY BlockParts, Singleton
    <2>2. PICK h : h = Started(f, q)
        OBVIOUS
    <2>3. PICK k : k = Appended(h)
        OBVIOUS
    <2>4. g = [k EXCEPT !.on = FALSE]
        BY <1>4, <2>1, <2>2, <2>3 DEF Operated
    <2>5. Sound(h) /\ h.state = f.state
        BY <2>2, StartedKeeps
    <2>6. Sound(k) /\ k.state = h.state
        BY <2>3, <2>5, AppendedSound DEF SamePlace
    <2> QED
        BY <2>4, <2>5, <2>6, Switched
<1>5. CASE op = "RecordLastMatched"
    <2>1. PICK b \in Seq(Seq(1..Len(text))) : b = f.blocks /\ b # <<>>
        BY <1>5, BlockParts, LastBlock
    <2>2. PICK q \in Seq(1..Len(text)) : q = Front(b[Len(b)])
        BY <1>5, <2>1, LastBlock
    <2>3. PICK c \in Seq(Seq(1..Len(text))) : c = [b EXCEPT ![Len(b)] = q] /\ Len(c) = Len(b)
        BY <2>1, LastReplaced
    <2>4. PICK h : h = [f EXCEPT !.blocks = c]
        OBVIOUS
    <2>11. g = Appended([f EXCEPT !.blocks[Len(f.blocks)] = Front(@)])
        BY <1>5 DEF Operated
    <2>12. [f EXCEPT !.blocks[Len(f.blocks)] = Front(@)] = h
        BY <2>1, <2>2, <2>3, <2>4
    <2>5. g = Appended(h)
        BY <2>11, <2>12
    <2>6. c \in Seq(Seq(Nat))
        BY LinesAreNumbers
    <2>13. f \in Engine
        BY BlockParts
    <2>14. h \in Engine
        BY <2>4, <2>6, <2>13 DEF Engine
    <2>15. /\ h.blocks = c /\ h.state = f.state /\ h.value = f.value /\ h.down = f.down
           /\ h.tmp = f.tmp /\ h.list = f.list /\ h.rows = f.rows
           /\ h.line = f.line /\ h.raw = f.raw /\ h.parser = f.parser
        BY <2>4, <2>13 DEF Engine
    <2>7. h \in Engine /\ SameColumns(f, h) /\ SameLines(f, h) /\ h.blocks = c
        BY <2>14, <2>15 DEF SameColumns, SameLines
    <2>8. Len(c) >= Len(b)
        BY <2>3
    <2>9. Sound(h)
        BY <2>1, <2>7, <2>8, BlocksReplaced
    <2> QED
        BY <2>5, <2>7, <2>9, AppendedSound DEF SamePlace, SameLines
<1>6. CASE op = "RecordGroupBy"
    <2>1. PICK k : k = Appended(f)
        OBVIOUS
    <2>2. g = [k EXCEPT !.on = TRUE]
        BY <1>6, <2>1 DEF Operated
    <2>3. Sound(k) /\ k.state = f.state
        BY <2>1, AppendedSound DEF SamePlace
    <2> QED
        BY <2>2, <2>3, Switched
<1>7. CASE op \in {"RecordPrefixEq", "RecordFirstAndLast"}
    <2>1. PICK q \in Seq(1..Len(text)) : q = FirstLine(f)
        BY <1>7, LastBlock
    <2>2. PICK k : k = Appended(f)
        OBVIOUS
    <2>3. g = Started(k, q)
        BY <1>7, <2>1, <2>2 DEF Operated
    <2>4. Sound(k) /\ k.state = f.state
        BY <2>2, AppendedSound DEF SamePlace
    <2> QED
        BY <2>3, <2>4, StartedKeeps
<1>8. CASE op = "RecordAndRawConf"
    <2>1. PICK h : h = [f EXCEPT !.parser = f.line, !.line = f.raw]
        OBVIOUS
    <2>2. g = Appended(h)
        BY <1>8, <2>1 DEF Operated
    <2>3. /\ f.line \in 1..Len(text) /\ f.raw \in 1..Len(text) /\ f.parser \in 1..Len(text)
          /\ f.line \in Nat /\ f.raw \in Nat
        BY BlockParts, EngineParts
    <2>6. f \in Engine
        BY BlockParts
    <2>7. h \in Engine
        BY <2>1, <2>3, <2>6 DEF Engine
    <2>8. /\ h.blocks = f.blocks /\ h.state = f.state /\ h.value = f.value /\ h.down = f.down
          /\ h.tmp = f.tmp /\ h.list = f.list /\ h.rows = f.rows
          /\ h.line = f.raw /\ h.raw = f.raw /\ h.parser = f.line
        BY <2>1, <2>6 DEF Engine
    <2>4. /\ h \in Engine /\ SameColumns(f, h) /\ h.blocks = f.blocks /\ h.state = f.state
          /\ h.line = f.raw /\ h.raw = f.raw /\ h.parser = f.line
        BY <2>7, <2>8 DEF SameColumns
    <2>5. Sound(h)
        BY <2>3, <2>4, LinesMoved DEF Standing
    <2> QED
        BY <2>2, <2>4, <2>5, AppendedSound DEF SamePlace
<1>9. CASE op = "NoRecord"
    BY <1>9 DEF Operated
<1> QED
    BY <1>1, <1>2, <1>3, <1>4, <1>5, <1>6, <1>7, <1>8, <1>9 DEF RecordOps

\* A state is entered.
LEMMA EnteredKeeps ==
    ASSUME TextTyped, NEW f, Sound(f), NEW to \in States, NEW g, g = Entered(f, to)
    PROVE  Sound(g) /\ g.state = to
<1>1. PICK h : h = CASE f.state = "Start" /\ to \in Block -> Started(f, <<f.line>>)
                     [] f.state \in Block /\ to \notin Block -> [f EXCEPT !.on = FALSE]
                     [] f.state \in Raw /\ to \in Parser ->
                          [f EXCEPT !.on = FALSE, !.raw = f.line,
                                    !.line = IF f.parser > @ THEN f.parser ELSE @]
                     [] OTHER -> f
    OBVIOUS
<1>2. g = [h EXCEPT !.state = to]
    BY <1>1 DEF Entered
<1>3. Sound(h)
    <2>1. CASE f.state = "Start" /\ to \in Block
        <3>1. h = Started(f, <<f.line>>)
            <4>1. f.state \notin Block /\ f.state \notin Raw
                BY <2>1 DEF Block, Raw, Parser
            <4> QED
                BY <1>1, <2>1, <4>1
        <3>2. PICK q \in Seq(1..Len(text)) : q = <<f.line>>
            BY BlockParts, Singleton
        <3> QED
            BY <3>1, <3>2, StartedKeeps
    <2>2. CASE f.state \in Block /\ to \notin Block
        <3>1. h = [f EXCEPT !.on = FALSE]
            <4>1. f.state # "Start" /\ to \notin Parser
                BY <2>2 DEF Block, Raw, Parser
            <4> QED
                BY <1>1, <2>2, <4>1
        <3> QED
            BY <3>1, Switched
    <2>3. CASE f.state \in Raw /\ to \in Parser
        <3>1. PICK n : n = IF f.parser > f.line THEN f.parser ELSE f.line
            OBVIOUS
        <3>2. h = [f EXCEPT !.on = FALSE, !.raw = f.line, !.line = n]
            <4>1. f.state # "Start" /\ to \in Block
                BY <2>3 DEF Block, Raw, Parser
            <4> QED
                BY <1>1, <2>3, <3>1, <4>1
        <3>3. /\ f.line \in 1..Len(text) /\ f.parser \in 1..Len(text) /\ n \in 1..Len(text)
              /\ f.line \in Nat /\ n \in Nat /\ f \in Engine
            <4>1. f.line \in Nat /\ f.parser \in Nat /\ f \in Engine
                BY BlockParts, EngineParts
            <4> QED
                BY <3>1, <4>1, BlockParts
        <3>4. h \in Engine
            BY <3>2, <3>3 DEF Engine
        <3>5. /\ h.blocks = f.blocks /\ h.value = f.value /\ h.down = f.down /\ h.tmp = f.tmp
              /\ h.list = f.list /\ h.rows = f.rows
              /\ h.line = n /\ h.raw = f.line /\ h.parser = f.parser
            BY <3>2, <3>3 DEF Engine
        <3>6. SameColumns(f, h) /\ Standing(h)
            BY <3>3, <3>5 DEF SameColumns, Standing
        <3> QED
            BY <3>4, <3>5, <3>6, LinesMoved
    <2>4. CASE ~(f.state = "Start" /\ to \in Block) /\ ~(f.state \in Block /\ to \notin Block)
               /\ ~(f.state \in Raw /\ to \in Parser)
        BY <1>1, <2>4
    <2> QED
        BY <2>1, <2>2, <2>3, <2>4
<1>4. h \in Engine /\ h.line \in 1..Len(text) /\ h.raw \in 1..Len(text) /\ h.parser \in 1..Len(text)
    BY <1>3, BlockParts
<1>5. g \in Engine
    BY <1>2, <1>4 DEF Engine
<1>6. /\ g.blocks = h.blocks /\ g.value = h.value /\ g.down = h.down /\ g.tmp = h.tmp
      /\ g.list = h.list /\ g.rows = h.rows /\ g.state = to
      /\ g.line = h.line /\ g.raw = h.raw /\ g.parser = h.parser
    BY <1>2, <1>4 DEF Engine
<1>7. SameColumns(h, g) /\ Standing(g)
    BY <1>4, <1>6 DEF SameColumns, Standing
<1> QED
    BY <1>3, <1>5, <1>6, <1>7, LinesMoved

-----------------------------------------------------------------------------
(* The template engine: its steps.                                         *)

\* The invariant of its steps: between two lines the engine may have passed the text.
Rests(f) ==
    /\ f \in Engine /\ Filled(f) /\ Refers(f)
    /\ f.line \in 1..Len(text) + 1
    /\ f.raw \in 1..Len(text) \cup {1} /\ f.parser \in 1..Len(text) \cup {1}
FsmInv ==
    /\ template \in Templates /\ text \in Texts
    /\ phase \in {"template", "lines", "rejected", "raised", "done"}
    /\ phase = "lines" => Valid(template)
    /\ phase = "done" => fsm.rows = <<>> \/ ~KeyList
    /\ Rests(fsm)

LEMMA TemplateTyped ==
    ASSUME template \in Templates, text \in Texts
    PROVE  /\ TextTyped
           /\ \A s \in DOMAIN template.states :
                  s \in STRING /\ template.states[s] \in Seq(Rules(Columns))
BY TextFsmAssumption DEF TextFsmAssumption, TextTyped, Columns

\* The first rule that matches is a rule of the template.
LEMMA MatchingTyped ==
    ASSUME FsmInv, Running
    PROVE  Matching = <<>> \/ \E r \in Rules(Columns) :
              /\ Matching = <<r>>
              /\ r.line = "Error" \/ r.to \in {""} \cup States
<1>1. fsm.state \in DOMAIN template.states /\ Valid(template) /\ fsm.line \in 1..Len(text)
    <2>1. Valid(template) /\ fsm.state \in DOMAIN template.states
        BY EngineParts DEF FsmInv, Rests, Running, Valid, States
    <2>2. Len(text) \in Nat
        BY TemplateTyped DEF FsmInv, TextTyped
    <2>3. fsm.line \in 1..Len(text) + 1 /\ fsm.line <= Len(text)
        BY DEF FsmInv, Rests, Running
    <2> QED
        BY <2>1, <2>2, <2>3
<1>2. PICK rules \in Seq(Rules(Columns)) : rules = template.states[fsm.state]
    BY <1>1, TemplateTyped DEF FsmInv
<1>3. PICK on : on = {i \in DOMAIN rules : text[fsm.line].kind \in rules[i].on}
    OBVIOUS
<1>4. CASE on = {}
    BY <1>2, <1>3, <1>4 DEF Matching
<1>5. CASE on # {}
    <2>1. on \in SUBSET Nat
        BY <1>3
    <2>2. PICK m : m = CHOOSE i \in on : \A j \in on : i <= j
        OBVIOUS
    <2>3. m \in on
        <3>1. \E i \in on : \A j \in on : i <= j
            BY <1>5, <2>1, Smallest
        <3> QED
            BY <2>2, <3>1
    <2>4. m \in DOMAIN rules
        BY <1>3, <2>3
    <2>5. rules[m] \in Rules(Columns)
        BY <2>4
    <2>6. Matching = <<rules[m]>>
        BY <1>2, <1>3, <1>5, <2>2 DEF Matching
    <2>7. rules[m].line = "Error" \/ rules[m].to \in {""} \cup States
        BY <1>1, <1>2, <2>4 DEF Valid, States
    <2> QED
        BY <2>5, <2>6, <2>7
<1> QED
    BY <1>4, <1>5

LEMMA FsmBegins == ASSUME FsmInit PROVE FsmInv
<1>1. template \in Templates /\ text \in Texts /\ phase = "template" /\ fsm = Reset
    BY DEF FsmInit
<1>2. Len(text) \in Nat
    BY <1>1, TemplateTyped DEF TextTyped
<1>3. Nothing \in [Columns -> Cell]
    BY DEF Nothing, Cell
<1>4. fsm \in Engine
    <2>1. PICK v \in [Columns -> Cell] : v = Nothing
        BY <1>3
    <2>2. fsm = [line |-> 1, state |-> "Start", value |-> v, down |-> v, tmp |-> v, list |-> v,
                 rows |-> <<>>, blocks |-> <<>>, on |-> FALSE, raw |-> 1, parser |-> 1]
        BY <1>1, <2>1 DEF Reset
    <2>3. <<>> \in Seq(Row)
        OBVIOUS
    <2>4. <<>> \in Seq(Seq(Nat))
        OBVIOUS
    <2>5. 1 \in Nat
        OBVIOUS
    <2>6. FALSE \in BOOLEAN
        BY Zenon
    <2>7. "Start" \in States
        BY DEF States
    <2> QED
        BY <2>1, <2>2, <2>3, <2>4, <2>5, <2>6, <2>7 DEF Engine
<1>5. /\ fsm.value = Nothing /\ fsm.down = Nothing /\ fsm.tmp = Nothing /\ fsm.list = Nothing
      /\ fsm.rows = <<>> /\ fsm.blocks = <<>> /\ fsm.line = 1 /\ fsm.raw = 1 /\ fsm.parser = 1
      /\ fsm.state = "Start"
    BY <1>1 DEF Reset
<1>6. Remembers(fsm) /\ Gapless(fsm.rows) /\ GoesUp(fsm)
    BY <1>5 DEF Remembers, Gapless, GoesUp, Nothing, Truthy
<1>7. Refers(fsm)
    BY <1>5 DEF Refers
<1> QED
    BY <1>1, <1>2, <1>4, <1>5, <1>6, <1>7 DEF FsmInv, Rests, Filled

LEMMA NextRests ==
    ASSUME TextTyped, NEW f, Sound(f), NEW k, k = f \/ k = [f EXCEPT !.line = @ + 1]
    PROVE  Rests(k)
<1>1. /\ f \in Engine /\ Filled(f) /\ Refers(f) /\ f.line \in 1..Len(text)
      /\ f.raw \in 1..Len(text) /\ f.parser \in 1..Len(text) /\ Len(text) \in Nat
    BY BlockParts, LinesAreNumbers DEF Sound
<1>2. CASE k = f
    BY <1>1, <1>2 DEF Rests
<1>3. CASE k = [f EXCEPT !.line = @ + 1]
    <2>1. PICK n \in 1..Len(text) + 1 : n = f.line + 1 /\ n \in Nat
        BY <1>1
    <2>2. k = [f EXCEPT !.line = n]
        BY <1>3, <2>1
    <2>3. k \in Engine
        BY <1>1, <2>1, <2>2 DEF Engine
    <2>4. /\ k.line = n /\ k.raw = f.raw /\ k.parser = f.parser /\ k.blocks = f.blocks
          /\ k.value = f.value /\ k.down = f.down /\ k.tmp = f.tmp /\ k.list = f.list
          /\ k.rows = f.rows
        BY <1>1, <2>2 DEF Engine
    <2>5. Filled(k)
        BY <1>1, <2>4, FilledSame DEF SameColumns
    <2>6. Refers(k)
        BY <1>1, <2>4 DEF Refers
    <2> QED
        BY <1>1, <2>1, <2>3, <2>4, <2>5, <2>6 DEF Rests
<1> QED
    BY <1>2, <1>3

LEMMA RunningSound == ASSUME FsmInv, Running PROVE Sound(fsm) /\ TextTyped
<1>1. TextTyped /\ Len(text) \in Nat
    BY TemplateTyped DEF FsmInv, TextTyped
<1>2. PICK n \in Nat : n = Len(text)
    BY <1>1
<1>3. fsm.line \in 1..n + 1 /\ fsm.line <= n /\ fsm.raw \in 1..n \cup {1} /\ fsm.parser \in 1..n \cup {1}
    BY <1>2 DEF FsmInv, Rests, Running
<1>4. fsm.line \in 1..n /\ fsm.raw \in 1..n /\ fsm.parser \in 1..n
    BY <1>3
<1> QED
    BY <1>1, <1>2, <1>4 DEF FsmInv, Rests, Sound, Standing

LEMMA ElementOf == ASSUME NEW S, NEW q \in Seq(S), NEW n \in 1..Len(q) PROVE q[n] \in S
OBVIOUS

LEMMA ElementAt == ASSUME NEW S, NEW q \in Seq(S), NEW n \in DOMAIN q PROVE q[n] \in S
OBVIOUS

LEMMA OnlyElement == \A x : 1 \in DOMAIN <<x>> /\ <<x>>[1] = x
OBVIOUS

LEMMA RangeOf == ASSUME NEW S, NEW q \in Seq(S) PROVE Range(q) \subseteq S
BY DEF Range

\* What a line is turned into by the rule that matches it.
LEMMA RuleKeeps ==
    ASSUME FsmInv, Running, Proceeds(Matching), NEW r \in Rules(Columns), Matching = <<r>>,
           r.to \in {""} \cup States,
           NEW f, f = Captured(Recorded(fsm), r),
           NEW g, g = Operated(f, r.record),
           NEW h, h = IF r.to = "" THEN g ELSE Entered(g, r.to)
    PROVE  Sound(h)
<1>1. Sound(fsm) /\ TextTyped /\ ~(fsm.on /\ fsm.blocks = <<>>)
    BY RunningSound DEF Proceeds
<1>2. PICK e : e = Recorded(fsm)
    OBVIOUS
<1>3. Sound(e)
    BY <1>1, <1>2, RecordedKeeps
<1>4. PICK cols \in SUBSET Columns : cols = Range(r.takes)
    <2>1. PICK q \in Seq(Columns) : q = r.takes
        BY DEF Rules
    <2>2. Range(q) \subseteq Columns
        BY RangeOf
    <2>3. Range(r.takes) \in SUBSET Columns
        BY <2>1, <2>2
    <2> QED
        BY <2>3
<1>5. PICK x \in STRING : x = text[fsm.line].value
    <2>1. PICK t \in Seq([kind : STRING, value : STRING]) : t = text
        BY <1>1 DEF TextTyped
    <2>2. fsm.line \in 1..Len(t)
        BY <1>1, <2>1, BlockParts
    <2>3. t[fsm.line] \in [kind : STRING, value : STRING]
        BY <2>2, ElementOf
    <2>4. t[fsm.line].value \in STRING
        BY <2>3
    <2> QED
        BY <2>1, <2>4
<1>6. f = Assigned(e, cols, x)
    BY <1>2, <1>4, <1>5 DEF Captured
<1>7. e \in Engine /\ Filled(e) /\ Refers(e) /\ Standing(e)
    BY <1>3 DEF Sound
<1>8. f \in Engine /\ Filled(f) /\ SamePlace(e, f) /\ SameBlocks(e, f)
    BY <1>6, <1>7, AssignedKeeps
<1>9. Sound(f)
    BY <1>7, <1>8, RefersSame, StandingSame DEF Sound
<1>10. r.record \in {"RecordLastMatched", "RecordPrefixEq", "RecordFirstAndLast"} => HasBlock(f)
    <2>1. ~Raises(e, r)
        <3>1. 1 \in DOMAIN <<r>> /\ <<r>>[1] = r
            BY OnlyElement
        <3> QED
            BY <1>2, <3>1, Zenon DEF Proceeds
    <2>2. r.record \in {"RecordLastMatched", "RecordPrefixEq", "RecordFirstAndLast"} => HasBlock(e)
        BY <2>1 DEF Raises
    <2> QED
        BY <1>8, <2>2 DEF HasBlock, SamePlace
<1>11. r.record \in RecordOps
    BY DEF Rules
<1>12. Sound(g)
    BY <1>1, <1>9, <1>10, <1>11, OperatedKeeps
<1> QED
    BY <1>1, <1>12, EnteredKeeps

LEMMA ScanKeeps == ASSUME FsmInv, Scan PROVE Rests(fsm')
<1>1. Running /\ Proceeds(Matching) /\ Sound(fsm) /\ TextTyped
    BY RunningSound DEF Scan
<1>2. CASE Matching = <<>>
    <2>1. Sound(Recorded(fsm))
        BY <1>1, RecordedKeeps DEF Proceeds
    <2>2. fsm' = [Recorded(fsm) EXCEPT !.line = @ + 1]
        BY <1>2 DEF Scan
    <2> QED
        BY <1>1, <2>1, <2>2, NextRests
<1>3. CASE Matching # <<>>
    <2>1. PICK r \in Rules(Columns) : Matching = <<r>> /\ (r.line = "Error" \/ r.to \in {""} \cup States)
        BY <1>1, <1>3, MatchingTyped
    <2>2. Matching[1] = r /\ 1 \in DOMAIN Matching
        <3>1. 1 \in DOMAIN <<r>> /\ <<r>>[1] = r
            BY OnlyElement
        <3> QED
            BY <2>1, <3>1, Zenon
    <2>3. r.line # "Error"
        BY <1>1, <2>2 DEF Proceeds, Raises
    <2>4. PICK f : f = Captured(Recorded(fsm), r)
        OBVIOUS
    <2>5. PICK g : g = Operated(f, r.record)
        OBVIOUS
    <2>6. PICK h : h = IF r.to = "" THEN g ELSE Entered(g, r.to)
        OBVIOUS
    <2>7. Sound(h)
        BY <1>1, <2>1, <2>3, <2>4, <2>5, <2>6, RuleKeeps
    <2>8. fsm' = NextLine(h, r)
        BY <1>3, <2>2, <2>4, <2>5, <2>6 DEF Scan
    <2>9. NextLine(h, r) = h \/ NextLine(h, r) = [h EXCEPT !.line = @ + 1]
        BY DEF NextLine
    <2> QED
        BY <1>1, <2>7, <2>8, <2>9, NextRests
<1> QED
    BY <1>2, <1>3

LEMMA EndsKeeps == ASSUME FsmInv, Ends PROVE Rests(fsm')
<1>1. Rests(fsm)
    BY DEF FsmInv
<1>2. CASE fsm' = fsm
    BY <1>1, <1>2
<1>3. CASE fsm' = Appended(fsm)
    <2>1. /\ fsm' \in Engine /\ Filled(fsm') /\ Refers(fsm') /\ SamePlace(fsm, fsm')
        BY <1>1, <1>3, AppendedKeeps DEF Rests
    <2> QED
        BY <1>1, <2>1 DEF Rests, SamePlace
<1> QED
    BY <1>2, <1>3 DEF Ends

\* A resting engine rests while the template and the text are the same.
LEMMA RestsOn ==
    ASSUME Rests(fsm'), UNCHANGED <<template, text>>
    PROVE  Rests(fsm)'
<1>1. Columns' = Columns /\ States' = States
    BY DEF Columns, States
<1>2. Engine' = Engine
    BY <1>1 DEF Engine, Row
<1>3. Filled(fsm)' = Filled(fsm')
    BY <1>1 DEF Filled, Remembers, Gapless, GoesUp, Has, Columns
<1>4. Refers(fsm)' = Refers(fsm')
    BY DEF Refers
<1> QED
    BY <1>2, <1>3, <1>4 DEF Rests

LEMMA FsmSteps == ASSUME FsmInv, [FsmNext]_fsmVars PROVE FsmInv'
<1>1. CASE Loads
    <2>1. UNCHANGED <<template, text, fsm>> /\ phase' \in {"lines", "rejected"}
          /\ (phase' = "lines" => Valid(template))
        BY <1>1 DEF Loads
    <2>2. Rests(fsm)'
        BY <2>1, RestsOn DEF FsmInv
    <2>3. Valid(template)' <=> Valid(template)
        BY <2>1 DEF Valid
    <2> QED
        BY <2>1, <2>2, <2>3 DEF FsmInv
<1>2. CASE ScanRaises
    <2>1. UNCHANGED <<template, text, fsm>> /\ phase' = "raised"
        BY <1>2 DEF ScanRaises
    <2>2. Rests(fsm)'
        BY <2>1, RestsOn DEF FsmInv
    <2> QED
        BY <2>1, <2>2 DEF FsmInv
<1>3. CASE Scan
    <2>1. UNCHANGED <<template, text, phase>> /\ phase = "lines"
        BY <1>3 DEF Scan, Running
    <2>2. Rests(fsm)'
        BY <1>3, <2>1, ScanKeeps, RestsOn
    <2>3. Valid(template)' <=> Valid(template)
        BY <2>1 DEF Valid
    <2> QED
        BY <2>1, <2>2, <2>3 DEF FsmInv
<1>4. CASE Ends
    <2>1. UNCHANGED <<template, text>> /\ phase' \in Outcomes(fsm')
        BY <1>4 DEF Ends
    <2>2. Rests(fsm)'
        BY <1>4, <2>1, EndsKeeps, RestsOn
    <2>3. KeyList' <=> KeyList
        BY <2>1 DEF KeyList, Cols, Has, Columns
    <2>4. /\ phase' \in {"raised", "done"}
          /\ phase' = "done" => fsm'.rows = <<>> \/ ~KeyList
        BY <2>1 DEF Outcomes
    <2> QED
        BY <2>1, <2>2, <2>3, <2>4 DEF FsmInv
<1>5. CASE UNCHANGED fsmVars
    <2>1. UNCHANGED <<template, text, fsm, phase>>
        BY <1>5 DEF fsmVars
    <2>2. Rests(fsm)'
        BY <2>1, RestsOn DEF FsmInv
    <2>3. Valid(template)' <=> Valid(template)
        BY <2>1 DEF Valid
    <2>4. KeyList' <=> KeyList
        BY <2>1 DEF KeyList, Cols, Has, Columns
    <2> QED
        BY <2>1, <2>2, <2>3, <2>4 DEF FsmInv
<1> QED
    BY <1>1, <1>2, <1>3, <1>4, <1>5 DEF FsmNext

LEMMA FsmInvMeans == ASSUME FsmInv PROVE NoGaps /\ FsmTypeOK
<1>1. Gapless(fsm.rows)
    BY DEF FsmInv, Rests, Filled
<1>2. PICK rows \in Seq(Row) : rows = fsm.rows
    BY EngineParts DEF FsmInv, Rests
<1>3. PICK blocks \in Seq(Seq(1..Len(text))) : blocks = fsm.blocks
    BY DEF FsmInv, Rests, Refers
<1>4. \A r \in DOMAIN fsm.rows : fsm.rows[r].block \in 0..Len(fsm.blocks)
    <2> SUFFICES ASSUME NEW r \in DOMAIN rows PROVE rows[r].block \in 0..Len(blocks)
        BY <1>2, <1>3
    <2>1. rows[r].block \in Nat
        <3>1. PICK row \in Row : row = rows[r]
            BY ElementAt
        <3> QED
            BY <3>1 DEF Row
    <2>2. rows[r].block <= Len(blocks) /\ Len(blocks) \in Nat
        BY <1>2, <1>3 DEF FsmInv, Rests, Refers
    <2> QED
        BY <2>1, <2>2
<1>5. \A b \in DOMAIN fsm.blocks : \A i \in DOMAIN fsm.blocks[b] : fsm.blocks[b][i] \in DOMAIN text
    <2>1. DOMAIN text = 1..Len(text)
        BY TemplateTyped DEF FsmInv, TextTyped
    <2>2. \A b \in DOMAIN blocks : blocks[b] \in Seq(1..Len(text))
        BY <1>3
    <2>3. \A b \in DOMAIN blocks : \A i \in DOMAIN blocks[b] : blocks[b][i] \in 1..Len(text)
        BY <2>2, ElementAt
    <2> QED
        BY <1>3, <2>1, <2>3
<1>6. fsm.state \in States
    BY EngineParts DEF FsmInv, Rests
<1>7. fsm.line \in 1..Len(text) + 1 /\ fsm.raw \in 1..Len(text) + 1 /\ fsm.parser \in 1..Len(text) + 1
    <2>1. Len(text) \in Nat
        BY TemplateTyped DEF FsmInv, TextTyped
    <2> QED
        BY <2>1 DEF FsmInv, Rests
<1> QED
    BY <1>1, <1>4, <1>5, <1>6, <1>7 DEF FsmInv, NoGaps, Gapless, FsmTypeOK, States

\* The engine's line numbers stay within the text, its rows refer to blocks that exist and
\* its blocks to lines that do, for every template and text (TextFSM.ParseText).
THEOREM FsmTypes == FsmSpec => []FsmTypeOK
<1>1. FsmInit => FsmInv
    BY FsmBegins
<1>2. FsmInv /\ [FsmNext]_fsmVars => FsmInv'
    BY FsmSteps
<1>3. FsmInv => FsmTypeOK
    BY FsmInvMeans
<1> QED
    BY <1>1, <1>2, <1>3, PTL DEF FsmSpec

\* Rows have no gaps above a Fillup value nor in a Required column, whatever templates
\* assign, clear, skip and record, alone and beside the command's shell
\* (TextFSMOptions.Fillup, .Required, _AppendRecord).
THEOREM NoGapsAlways == (FsmSpec => []NoGaps) /\ (AgentSpec => []NoGaps)
<1>1. FsmInit => FsmInv
    BY FsmBegins
<1>2. FsmInv /\ [FsmNext]_fsmVars => FsmInv'
    BY FsmSteps
<1>3. FsmInv => NoGaps
    BY FsmInvMeans
<1>4. AgentInit => FsmInv
    BY FsmBegins DEF AgentInit, FsmRests
<1>5. [AgentNext]_<<turn, shellVars, fsmVars>> => [FsmNext]_fsmVars
    BY DEF AgentNext
<1> QED
    BY <1>1, <1>2, <1>3, <1>4, <1>5, PTL DEF FsmSpec, AgentSpec

-----------------------------------------------------------------------------
(* Folds: what FoldLeft makes of a sequence, step by step.                 *)

LEMMA MaxOf ==
    ASSUME NEW m \in Nat, NEW s \in SUBSET (1..m), m \in s
    PROVE  Max(s) = m
<1>1. \A y \in s : m >= y
    OBVIOUS
<1>2. Max(s) \in s /\ \A y \in s : Max(s) >= y
    BY <1>1 DEF Max
<1>3. PICK k : k = Max(s)
    OBVIOUS
<1>4. k \in 1..m /\ k >= m
    BY <1>2, <1>3
<1> QED
    BY <1>3, <1>4

LEMMA MaxIn ==
    ASSUME NEW n \in Nat, NEW s \in SUBSET (1..n), s # {}
    PROVE  Max(s) \in s /\ \A y \in s : Max(s) >= y
<1> DEFINE T == {n - i : i \in s}
<1>0. \A i \in s : i \in 1..n /\ i \in Nat /\ n - i \in Nat
    OBVIOUS
<1>1. T \in SUBSET Nat /\ T # {}
    BY <1>0
<1>2. PICK k \in T : \A j \in T : k <= j
    <2> HIDE DEF T
    <2> QED
        BY <1>1, Smallest
<1>3. PICK i \in s : k = n - i
    BY <1>2
<1>4. \A j \in s : i >= j
    <2> SUFFICES ASSUME NEW j \in s PROVE i >= j
        OBVIOUS
    <2>1. n - i <= n - j /\ i \in Nat /\ j \in Nat
        BY <1>0, <1>2, <1>3
    <2> QED
        BY <2>1
<1> QED
    BY <1>4 DEF Max

\* An operation on a set R that is repeated along the numbers up to n.
Repeats(g, n, b, Op) ==
    \A s \in SUBSET (1..n) : g[s] = IF s = {} THEN b ELSE Op[<<g[s \ {Max(s)}], Max(s)>>]
LEMMA Iterates ==
    ASSUME NEW n \in Nat, NEW R, NEW b \in R, NEW Op \in [R \X (1..n) -> R]
    PROVE  \E g \in [SUBSET (1..n) -> R] :
              Repeats(g, n, b, Op)
<1> DEFINE Some(m) == \E g \in [SUBSET (1..m) -> R] : Repeats(g, m, b, Op)
           Fails == {m \in 0..n : ~Some(m)}
<1>1. Fails = {}
    <2>1. SUFFICES ASSUME Fails # {} PROVE FALSE
        OBVIOUS
    <2>2. PICK m \in Fails : \A k \in Fails : m <= k
        <3>1. Fails \in SUBSET Nat
            OBVIOUS
        <3> HIDE DEF Fails
        <3> QED
            BY <2>1, <3>1, Smallest
    <2>3. CASE m = 0
        <3>1. 1..m = {} /\ SUBSET (1..m) = {{}}
            BY <2>3
        <3> DEFINE g == [s \in SUBSET (1..m) |-> b]
        <3>2. g \in [SUBSET (1..m) -> R]
            OBVIOUS
        <3>3. Repeats(g, m, b, Op)
            BY <3>1 DEF Repeats
        <3> QED
            BY <2>2, <3>2, <3>3
    <2>4. CASE m # 0
        <3>1. m \in 1..n /\ m - 1 \in 0..n /\ m - 1 \notin Fails
            <4>1. m \in 0..n
                BY DEF Fails
            <4> HIDE DEF Fails
            <4>2. m \in 1..n /\ m - 1 \in 0..n /\ ~(m <= m - 1)
                BY <2>4, <4>1
            <4> QED
                BY <2>2, <4>2
        <3>2. PICK g \in [SUBSET (1..(m - 1)) -> R] : Repeats(g, m - 1, b, Op)
            BY <3>1
        <3> DEFINE h == [s \in SUBSET (1..m) |-> IF m \in s THEN Op[<<g[s \ {m}], m>>] ELSE g[s]]
        <3>3. \A s \in SUBSET (1..m) : s \ {m} \in SUBSET (1..(m - 1))
            BY <3>1
        <3>4. \A s \in SUBSET (1..m) : m \notin s => s \in SUBSET (1..(m - 1))
            BY <3>1
        <3>5. h \in [SUBSET (1..m) -> R]
            <4> SUFFICES ASSUME NEW s \in SUBSET (1..m) PROVE h[s] \in R
                OBVIOUS
            <4>1. CASE m \in s
                <5>1. g[s \ {m}] \in R
                    BY <3>3
                <5> QED
                    BY <3>1, <4>1, <5>1
            <4>2. CASE m \notin s
                BY <3>4, <4>2
            <4> QED
                BY <4>1, <4>2
        <3>6. Repeats(h, m, b, Op)
            <4> SUFFICES ASSUME NEW s \in SUBSET (1..m)
                         PROVE h[s] = IF s = {} THEN b ELSE Op[<<h[s \ {Max(s)}], Max(s)>>]
                BY DEF Repeats
            <4>1. CASE m \in s
                <5>1. Max(s) = m
                    BY <3>1, <4>1, MaxOf
                <5>2. s \ {m} \in SUBSET (1..m) /\ m \notin s \ {m}
                    OBVIOUS
                <5>3. h[s \ {m}] = g[s \ {m}]
                    BY <5>2
                <5> QED
                    BY <4>1, <5>1, <5>3
            <4>2. CASE m \notin s
                <5>1. s \in SUBSET (1..(m - 1))
                    BY <3>4, <4>2
                <5>2. g[s] = IF s = {} THEN b ELSE Op[<<g[s \ {Max(s)}], Max(s)>>]
                    BY <3>2, <5>1 DEF Repeats
                <5>3. h[s] = g[s]
                    BY <4>2
                <5>4. s \ {Max(s)} \in SUBSET (1..m) /\ m \notin s \ {Max(s)}
                    BY <4>2
                <5>5. h[s \ {Max(s)}] = g[s \ {Max(s)}]
                    BY <5>4
                <5> QED
                    BY <5>2, <5>3, <5>5
            <4> QED
                BY <4>1, <4>2
        <3> HIDE DEF h
        <3> QED
            BY <2>2, <3>5, <3>6
    <2> QED
        BY <2>3, <2>4
<1>2. n \in 0..n
    OBVIOUS
<1>3. Some(n)
    <2> HIDE DEF Some
    <2> QED
        BY <1>1, <1>2
<1> QED
    BY <1>3

\* What holds of 0 and, if of a number below n, of the next, holds up to n.
LEMMA Along ==
    ASSUME NEW n \in Nat, NEW P, 0 \in P, \A m \in 1..n : m - 1 \in P => m \in P
    PROVE  \A m \in 0..n : m \in P
<1> DEFINE Q == {m \in 0..n : m \notin P}
<1>1. SUFFICES ASSUME Q # {} PROVE FALSE
    OBVIOUS
<1>2. Q \in SUBSET Nat
    OBVIOUS
<1>3. PICK m \in Q : \A k \in Q : m <= k
    <2> HIDE DEF Q
    <2> QED
        BY <1>1, <1>2, Smallest
<1>4. m \in 1..n /\ m - 1 \in 0..n /\ m - 1 \notin Q
    BY <1>3
<1> QED
    BY <1>3, <1>4

\* The beginnings of a sequence among the subsets of its domain.
LEMMA Beginnings ==
    ASSUME NEW n \in Nat
    PROVE  /\ 1..0 = {} /\ {} \in SUBSET (1..n)
           /\ \A m \in 1..n : /\ 1..m \in SUBSET (1..n) /\ 1..m # {}
                              /\ Max(1..m) = m /\ (1..m) \ {m} = 1..(m - 1)
<1>1. ASSUME NEW m \in 1..n PROVE Max(1..m) = m
    <2>1. m \in Nat /\ 1..m \in SUBSET (1..m) /\ m \in 1..m
        OBVIOUS
    <2> QED
        BY <2>1, MaxOf
<1> QED
    BY <1>1

LEMMA StaysIn ==
    ASSUME NEW n \in Nat, NEW R, NEW F, F = [m \in 0..n |-> F[m]], F[0] \in R,
           \A m \in 1..n : F[m - 1] \in R => F[m] \in R
    PROVE  F \in [0..n -> R]
<1> DEFINE P == {m \in 0..n : F[m] \in R}
<1>1. 0 \in P
    OBVIOUS
<1>2. ASSUME NEW m \in 1..n, m - 1 \in P PROVE m \in P
    BY <1>2
<1>3. \A m \in 0..n : m \in P
    <2> HIDE DEF P
    <2> QED
        BY <1>1, <1>2, Along
<1> QED
    BY <1>3

\* KeyMerge takes the rows one after the other.
KeyOf(row) == Strings(row, Cols("Key"))
LEMMA MergedTyped ==
    ASSUME NEW a \in Row, NEW b \in Row
    PROVE  Merged(a, b) \in Row
<1>1. /\ \A i \in Columns : a.cells[i] \in Cell /\ b.cells[i] \in Cell
      /\ a.block \in Nat /\ b.block \in Nat
    BY DEF Row
<1>2. \A i \in Columns : a.cells[i] \o b.cells[i] \in Cell
    BY <1>1 DEF Cell
<1>3. Merged(a, b).cells \in [Columns -> Cell]
    BY <1>1, <1>2 DEF Merged, Newer
<1>4. Merged(a, b).block \in Nat
    BY <1>1 DEF Merged, NewerBlock
<1>5. Merged(a, b) = [cells |-> Merged(a, b).cells, block |-> Merged(a, b).block]
    BY DEF Merged
<1> QED
    BY <1>3, <1>4, <1>5 DEF Row

LEMMA KeyedTyped ==
    ASSUME NEW out \in Seq(Row), NEW row \in Row
    PROVE  Keyed(out, row) \in Seq(Row)
<1>1. \A r \in DOMAIN out : out[r] \in Row
    OBVIOUS
<1>2. \A r \in DOMAIN out : Merged(out[r], row) \in Row
    BY <1>1, MergedTyped
<1>3. Append(out, row) \in Seq(Row)
    OBVIOUS
<1> DEFINE same == {r \in DOMAIN out : HasKey(out[r], Cols("Key"), KeyOf(row))}
           new == [r \in DOMAIN out |-> IF r \in same THEN Merged(out[r], row) ELSE out[r]]
<1>4. new \in [DOMAIN out -> Row]
    BY <1>1, <1>2
<1>5. new \in Seq(Row)
    <2>1. DOMAIN out = 1..Len(out) /\ Len(out) \in Nat
        OBVIOUS
    <2> HIDE DEF new
    <2> QED
        BY <1>4, <2>1
<1> QED
    BY <1>3, <1>5 DEF Keyed, KeyOf

KeyPath(F, rows) ==
    /\ F \in [0..Len(rows) -> Seq(Row)]
    /\ F[0] = <<>> /\ KeyMerge(rows) = F[Len(rows)]
    /\ \A m \in 1..Len(rows) : F[m] = Keyed(F[m - 1], rows[m])
LEMMA KeyFold ==
    ASSUME NEW rows \in Seq(Row)
    PROVE  \E F : KeyPath(F, rows)
<1>0. PICK it : it = CHOOSE h : h = [s \in SUBSET DOMAIN rows |->
                     IF s = {} THEN <<>> ELSE Keyed(h[s \ {Max(s)}], rows[Max(s)])]
    OBVIOUS
<1>1. PICK n \in Nat : n = Len(rows) /\ DOMAIN rows = 1..n /\ \A i \in 1..n : rows[i] \in Row
    OBVIOUS
<1>2. PICK R, b : R = Seq(Row) /\ b = <<>> /\ b \in R
    BY EmptySeq
<1>3. \A a \in R : \A i \in 1..n : Keyed(a, rows[i]) \in R
    BY <1>1, <1>2, KeyedTyped
<1>4. it = [s \in SUBSET (1..n) |-> IF s = {} THEN <<>> ELSE Keyed(it[s \ {Max(s)}], rows[Max(s)])]
    <2>1. PICK Op : Op = [p \in R \X (1..n) |-> Keyed(p[1], rows[p[2]])]
        OBVIOUS
    <2>2. /\ Op \in [R \X (1..n) -> R]
          /\ \A a \in R : \A i \in 1..n : Op[<<a, i>>] = Keyed(a, rows[i])
        BY <1>3, <2>1
    <2>3. PICK g \in [SUBSET (1..n) -> R] : Repeats(g, n, b, Op)
        BY <1>2, <2>2, Iterates
    <2>4. \A s \in SUBSET (1..n) : s # {} =>
             Op[<<g[s \ {Max(s)}], Max(s)>>] = Keyed(g[s \ {Max(s)}], rows[Max(s)])
        BY <2>2, MaxIn
    <2>5. g = [s \in SUBSET DOMAIN rows |->
                 IF s = {} THEN <<>> ELSE Keyed(g[s \ {Max(s)}], rows[Max(s)])]
        BY <1>1, <1>2, <2>3, <2>4 DEF Repeats
    <2> QED
        BY <1>0, <1>1, <2>5
<1>5. KeyMerge(rows) = it[1..n]
    BY <1>0, <1>1 DEF KeyMerge, FoldLeft, MapThenFoldSet
<1>6. it[1..0] = <<>>
    BY <1>4, Beginnings
<1>7. ASSUME NEW m \in 1..n PROVE it[1..m] = Keyed(it[1..(m - 1)], rows[m])
    <2>1. 1..m \in SUBSET (1..n) /\ 1..m # {} /\ Max(1..m) = m /\ (1..m) \ {m} = 1..(m - 1)
        BY Beginnings
    <2> QED
        BY <1>4, <2>1
<1>8. PICK F : F = [m \in 0..n |-> it[1..m]]
    OBVIOUS
<1>9. F[0] = <<>> /\ F[n] = KeyMerge(rows)
    BY <1>5, <1>6, <1>8
<1>10. ASSUME NEW m \in 1..n PROVE F[m] = Keyed(F[m - 1], rows[m])
    <2>1. m \in 0..n /\ m - 1 \in 0..n
        OBVIOUS
    <2>2. F[m] = it[1..m] /\ F[m - 1] = it[1..(m - 1)]
        BY <1>8, <2>1
    <2> QED
        BY <1>7, <2>2
<1>11. F \in [0..n -> R]
    <2>1. F = [m \in 0..n |-> F[m]]
        BY <1>8
    <2>2. \A m \in 1..n : F[m - 1] \in R => F[m] \in R
        BY <1>3, <1>10
    <2>3. F[0] \in R
        BY <1>2, <1>9
    <2> QED
        BY <2>1, <2>2, <2>3, StaysIn
<1>12. KeyPath(F, rows)
    BY <1>1, <1>2, <1>9, <1>10, <1>11 DEF KeyPath
<1> QED
    BY <1>12

\* The values of a column of the rows with a key, one row after the other.
ListPath(G, rows, key, i) ==
    /\ G \in [0..Len(rows) -> Cell]
    /\ G[0] = <<>> /\ Lists(rows, key, i) = G[Len(rows)]
    /\ \A m \in 1..Len(rows) :
          G[m] = IF Bears(rows[m], Cols("Key"), key) THEN G[m - 1] \o rows[m].cells[i] ELSE G[m - 1]
LEMMA ListFold ==
    ASSUME NEW rows \in Seq(Row), NEW key, NEW i \in Columns
    PROVE  \E G : ListPath(G, rows, key, i)
<1> DEFINE Piled(a, row) == IF Bears(row, Cols("Key"), key) THEN a \o row.cells[i] ELSE a
<1>0. PICK it : it = CHOOSE h : h = [s \in SUBSET DOMAIN rows |->
                     IF s = {} THEN <<>> ELSE Piled(h[s \ {Max(s)}], rows[Max(s)])]
    OBVIOUS
<1>1. PICK n \in Nat : n = Len(rows) /\ DOMAIN rows = 1..n /\ \A j \in 1..n : rows[j] \in Row
    OBVIOUS
<1>2. PICK R, b : R = Cell /\ b = <<>> /\ b \in R
    BY EmptySeq DEF Cell
<1>3. \A a \in R : \A j \in 1..n : Piled(a, rows[j]) \in R
    <2>1. \A j \in 1..n : rows[j].cells[i] \in Cell
        BY <1>1 DEF Row
    <2> SUFFICES ASSUME NEW a \in R, NEW j \in 1..n PROVE Piled(a, rows[j]) \in R
        OBVIOUS
    <2>2. PICK c \in Seq(STRING) : c = rows[j].cells[i]
        BY <2>1 DEF Cell
    <2>3. a \o c \in Seq(STRING)
        BY <1>2 DEF Cell
    <2> QED
        BY <1>2, <2>2, <2>3 DEF Cell
<1>5. Lists(rows, key, i) = it[1..n]
    BY <1>0, <1>1 DEF Lists, FoldLeft, MapThenFoldSet
<1> HIDE DEF Piled
<1>4. it = [s \in SUBSET (1..n) |-> IF s = {} THEN <<>> ELSE Piled(it[s \ {Max(s)}], rows[Max(s)])]
    <2>1. PICK Op : Op = [p \in R \X (1..n) |-> Piled(p[1], rows[p[2]])]
        OBVIOUS
    <2>2. /\ Op \in [R \X (1..n) -> R]
          /\ \A a \in R : \A j \in 1..n : Op[<<a, j>>] = Piled(a, rows[j])
        BY <1>3, <2>1
    <2>3. PICK g \in [SUBSET (1..n) -> R] : Repeats(g, n, b, Op)
        BY <1>2, <2>2, Iterates
    <2>4. \A s \in SUBSET (1..n) : s # {} =>
             Op[<<g[s \ {Max(s)}], Max(s)>>] = Piled(g[s \ {Max(s)}], rows[Max(s)])
        BY <2>2, MaxIn
    <2>5. g = [s \in SUBSET DOMAIN rows |->
                 IF s = {} THEN <<>> ELSE Piled(g[s \ {Max(s)}], rows[Max(s)])]
        BY <1>1, <1>2, <2>3, <2>4 DEF Repeats
    <2> QED
        BY <1>0, <1>1, <2>5
<1>6. it[1..0] = <<>>
    BY <1>4, Beginnings
<1>7. ASSUME NEW m \in 1..n PROVE it[1..m] = Piled(it[1..(m - 1)], rows[m])
    <2>1. 1..m \in SUBSET (1..n) /\ 1..m # {} /\ Max(1..m) = m /\ (1..m) \ {m} = 1..(m - 1)
        BY Beginnings
    <2> QED
        BY <1>4, <2>1
<1>8. PICK G : G = [m \in 0..n |-> it[1..m]]
    OBVIOUS
<1>9. G[0] = <<>> /\ G[n] = Lists(rows, key, i)
    BY <1>5, <1>6, <1>8
<1>10. ASSUME NEW m \in 1..n PROVE G[m] = Piled(G[m - 1], rows[m])
    <2>1. m \in 0..n /\ m - 1 \in 0..n
        OBVIOUS
    <2>2. G[m] = it[1..m] /\ G[m - 1] = it[1..(m - 1)]
        BY <1>8, <2>1
    <2> QED
        BY <1>7, <2>2
<1>11. G \in [0..n -> R]
    <2>1. G = [m \in 0..n |-> G[m]]
        BY <1>8
    <2>2. \A m \in 1..n : G[m - 1] \in R => G[m] \in R
        BY <1>3, <1>10
    <2>3. G[0] \in R
        BY <1>2, <1>9
    <2> QED
        BY <2>1, <2>2, <2>3, StaysIn
<1>12. ListPath(G, rows, key, i)
    BY <1>1, <1>2, <1>9, <1>10, <1>11 DEF ListPath, Piled
<1> QED
    BY <1>12

-----------------------------------------------------------------------------
(* Merging by key.                                                         *)

\* LastOf of the first m rows.
SameUpTo(rows, m, cols, key) == {r \in 1..m : Bears(rows[r], cols, key)}
FullUpTo(rows, m, cols, key, i) == {r \in SameUpTo(rows, m, cols, key) : Full(i, rows[r].cells[i])}
LastUpTo(rows, m, cols, key, i) ==
    LET same == SameUpTo(rows, m, cols, key)
        full == FullUpTo(rows, m, cols, key, i)
    IN  IF full = {} THEN rows[CHOOSE r \in same : \A s \in same : r <= s].cells[i]
        ELSE rows[CHOOSE r \in full : \A s \in full : s <= r].cells[i]

LEMMA LastWhole ==
    ASSUME NEW rows \in Seq(Row), NEW cols, NEW key, NEW i
    PROVE  LastOf(rows, cols, key, i) = LastUpTo(rows, Len(rows), cols, key, i)
<1>1. DOMAIN rows = 1..Len(rows)
    OBVIOUS
<1> QED
    BY <1>1 DEF LastOf, LastUpTo, SameUpTo, FullUpTo

LEMMA LastStep ==
    ASSUME NEW rows \in Seq(Row), NEW cols, NEW key, NEW i, NEW m \in 1..Len(rows)
    PROVE  /\ ~Bears(rows[m], cols, key) =>
                 LastUpTo(rows, m, cols, key, i) = LastUpTo(rows, m - 1, cols, key, i)
           /\ Bears(rows[m], cols, key) =>
                 LastUpTo(rows, m, cols, key, i) =
                    IF Full(i, rows[m].cells[i]) \/ SameUpTo(rows, m - 1, cols, key) = {}
                    THEN rows[m].cells[i] ELSE LastUpTo(rows, m - 1, cols, key, i)
<1> DEFINE A == SameUpTo(rows, m - 1, cols, key)
           B == SameUpTo(rows, m, cols, key)
           FA == FullUpTo(rows, m - 1, cols, key, i)
           FB == FullUpTo(rows, m, cols, key, i)
<1>0. m \in Nat /\ m \in 1..m /\ m \notin 1..(m - 1) /\ 1..m = (1..(m - 1)) \cup {m}
    OBVIOUS
<1>1. B = IF Bears(rows[m], cols, key) THEN A \cup {m} ELSE A
    BY <1>0 DEF SameUpTo
<1>2. FB = IF Bears(rows[m], cols, key) /\ Full(i, rows[m].cells[i]) THEN FA \cup {m} ELSE FA
    BY <1>0, <1>1 DEF FullUpTo
<1>3. A \subseteq 1..(m - 1) /\ FA \subseteq A
    BY DEF SameUpTo, FullUpTo
<1>4. LastUpTo(rows, m - 1, cols, key, i) =
         IF FA = {} THEN rows[CHOOSE r \in A : \A s \in A : r <= s].cells[i]
         ELSE rows[CHOOSE r \in FA : \A s \in FA : s <= r].cells[i]
    BY DEF LastUpTo
<1>5. LastUpTo(rows, m, cols, key, i) =
         IF FB = {} THEN rows[CHOOSE r \in B : \A s \in B : r <= s].cells[i]
         ELSE rows[CHOOSE r \in FB : \A s \in FB : s <= r].cells[i]
    BY DEF LastUpTo
<1> HIDE DEF A, B, FA, FB
<1>6. CASE ~Bears(rows[m], cols, key)
    BY <1>1, <1>2, <1>4, <1>5, <1>6 DEF A
<1>7. CASE Bears(rows[m], cols, key) /\ Full(i, rows[m].cells[i])
    <2>1. m \in FB /\ \A s \in FB : s <= m /\ s \in Nat
        BY <1>0, <1>2, <1>3, <1>7
    <2>2. (CHOOSE r \in FB : \A s \in FB : s <= r) = m
        <3>1. PICK r : r = CHOOSE q \in FB : \A s \in FB : s <= q
            OBVIOUS
        <3>2. r \in FB /\ \A s \in FB : s <= r
            BY <2>1, <3>1
        <3>3. r <= m /\ m <= r /\ r \in Nat
            BY <2>1, <3>2
        <3> QED
            BY <1>0, <3>1, <3>3
    <2> QED
        BY <1>5, <1>7, <2>1, <2>2 DEF A
<1>8. CASE Bears(rows[m], cols, key) /\ ~Full(i, rows[m].cells[i]) /\ A = {}
    <2>1. B = {m} /\ FB = {}
        BY <1>1, <1>2, <1>3, <1>8
    <2>2. (CHOOSE r \in B : \A s \in B : r <= s) = m
        BY <1>0, <2>1
    <2> QED
        BY <1>5, <1>8, <2>1, <2>2 DEF A
<1>9. CASE Bears(rows[m], cols, key) /\ ~Full(i, rows[m].cells[i]) /\ A # {}
    <2>1. FB = FA /\ B = A \cup {m}
        BY <1>1, <1>2, <1>9
    <2>2. PICK a \in A : \A s \in A : a <= s
        BY <1>3, <1>9, Smallest
    <2>3. a \in B /\ \A s \in B : a <= s
        BY <1>0, <1>3, <2>1, <2>2
    <2>4. (CHOOSE r \in A : \A s \in A : r <= s) = a
        <3>1. PICK r : r = CHOOSE q \in A : \A s \in A : q <= s
            OBVIOUS
        <3>2. r \in A /\ \A s \in A : r <= s
            BY <2>2, <3>1
        <3>3. r <= a /\ a <= r /\ r \in Nat /\ a \in Nat
            BY <1>3, <2>2, <3>2
        <3> QED
            BY <3>1, <3>3
    <2>5. (CHOOSE r \in B : \A s \in B : r <= s) = a
        <3>1. PICK r : r = CHOOSE q \in B : \A s \in B : q <= s
            OBVIOUS
        <3>2. r \in B /\ \A s \in B : r <= s
            BY <2>3, <3>1
        <3>3. r <= a /\ a <= r /\ r \in Nat /\ a \in Nat
            BY <1>0, <1>3, <2>1, <2>3, <3>2
        <3> QED
            BY <3>1, <3>3
    <2>6. LastUpTo(rows, m, cols, key, i) = LastUpTo(rows, m - 1, cols, key, i)
        <3>1. CASE FA = {}
            BY <1>4, <1>5, <2>1, <2>4, <2>5, <3>1
        <3>2. CASE FA # {}
            BY <1>4, <1>5, <2>1, <3>2
        <3> QED
            BY <3>1, <3>2
    <2> QED
        BY <1>9, <2>6 DEF A
<1> QED
    BY <1>6, <1>7, <1>8, <1>9 DEF A

\* No key collects a list.
NoListKeys == \A i \in Columns : Has("Key", i) => ~Has("List", i)

TellsKeys(out, row) ==
    \A r \in DOMAIN out : JoinedKey(KeyOf(out[r])) = JoinedKey(KeyOf(row)) =>
        KeyOf(out[r]) = KeyOf(row)
\* A row is put behind the others or merged into those with its key, which they keep.
LEMMA KeyedStep ==
    ASSUME NEW out \in Seq(Row), NEW row \in Row, NoListKeys, TellsKeys(out, row)
    PROVE  \/ /\ \A r \in DOMAIN out : KeyOf(out[r]) # KeyOf(row)
              /\ Keyed(out, row) = Append(out, row)
           \/ /\ \E r \in DOMAIN out : KeyOf(out[r]) = KeyOf(row)
              /\ DOMAIN Keyed(out, row) = DOMAIN out
              /\ \A r \in DOMAIN out :
                    /\ KeyOf(Keyed(out, row)[r]) = KeyOf(out[r])
                    /\ Keyed(out, row)[r] = IF KeyOf(out[r]) = KeyOf(row) THEN Merged(out[r], row)
                                            ELSE out[r]
<1> DEFINE same == {r \in DOMAIN out : HasKey(out[r], Cols("Key"), KeyOf(row))}
<1>1. \A r \in DOMAIN out : r \in same <=> KeyOf(out[r]) = KeyOf(row)
    BY DEF HasKey, KeyOf, TellsKeys
<1>2. CASE same = {}
    BY <1>1, <1>2 DEF Keyed, KeyOf
<1>3. CASE same # {}
    <2>1. Keyed(out, row) = [r \in DOMAIN out |-> IF r \in same THEN Merged(out[r], row) ELSE out[r]]
        BY <1>3 DEF Keyed, KeyOf
    <2>2. \A r \in DOMAIN out : KeyOf(Merged(out[r], row)) = KeyOf(out[r])
        <3> SUFFICES ASSUME NEW r \in DOMAIN out, NEW i \in Cols("Key")
                     PROVE  Merged(out[r], row).cells[i] = out[r].cells[i]
            BY DEF KeyOf, Strings
        <3> QED
            BY DEF Merged, Cols, NoListKeys
    <2> HIDE DEF same
    <2>3. \E r \in DOMAIN out : KeyOf(out[r]) = KeyOf(row)
        <3>1. same \subseteq DOMAIN out
            BY DEF same
        <3> QED
            BY <1>1, <1>3, <3>1
    <2>4. DOMAIN Keyed(out, row) = DOMAIN out
        BY <2>1
    <2>5. ASSUME NEW r \in DOMAIN out
          PROVE  /\ KeyOf(Keyed(out, row)[r]) = KeyOf(out[r])
                 /\ Keyed(out, row)[r] = IF KeyOf(out[r]) = KeyOf(row) THEN Merged(out[r], row)
                                         ELSE out[r]
        <3>1. Keyed(out, row)[r] = IF r \in same THEN Merged(out[r], row) ELSE out[r]
            BY <2>1
        <3> QED
            BY <1>1, <2>2, <3>1
    <2> QED
        BY <2>3, <2>4, <2>5
<1> QED
    BY <1>2, <1>3

\* Of the first m rows: one row for each of their keys, and in it what they say.
KeysUpTo(F, rows, m) ==
    /\ \A r, s \in DOMAIN F[m] : KeyOf(F[m][r]) = KeyOf(F[m][s]) => r = s
    /\ \A r \in DOMAIN F[m] : \E j \in 1..m : KeyOf(F[m][r]) = KeyOf(rows[j])
    /\ \A j \in 1..m : \E r \in DOMAIN F[m] : KeyOf(F[m][r]) = KeyOf(rows[j])
CellsUpTo(F, rows, m) ==
    \A r \in DOMAIN F[m] : \A i \in Columns \ Cols("Key") :
        /\ Has("List", i) => \A G : ListPath(G, rows, KeyOf(F[m][r]), i) => F[m][r].cells[i] = G[m]
        /\ ~Has("List", i) => F[m][r].cells[i] = LastUpTo(rows, m, Cols("Key"), KeyOf(F[m][r]), i)
\* A key that none of them has has no list.
NoneUpTo(rows, m) ==
    \A key : (\A j \in 1..m : KeyOf(rows[j]) # key) =>
        \A i \in Columns : \A G : ListPath(G, rows, key, i) => G[m] = <<>>

LEMMA NoneStep ==
    ASSUME NEW rows \in Seq(Row), NEW m \in 1..Len(rows), NoneUpTo(rows, m - 1)
    PROVE  NoneUpTo(rows, m)
<1> SUFFICES ASSUME NEW key, \A j \in 1..m : KeyOf(rows[j]) # key,
                    NEW i \in Columns, NEW G, ListPath(G, rows, key, i)
             PROVE  G[m] = <<>>
    BY DEF NoneUpTo
<1>1. m \in 1..m /\ \A j \in 1..(m - 1) : j \in 1..m
    OBVIOUS
<1>2. G[m - 1] = <<>>
    BY <1>1 DEF NoneUpTo
<1>3. ~Bears(rows[m], Cols("Key"), key)
    BY <1>1 DEF Bears, KeyOf
<1> QED
    BY <1>2, <1>3 DEF ListPath

LEMMA KeysStep ==
    ASSUME NEW rows \in Seq(Row), NEW F, KeyPath(F, rows), NoListKeys, NEW m \in 1..Len(rows),
           Apart(rows, Cols("Key")), KeysUpTo(F, rows, m - 1)
    PROVE  KeysUpTo(F, rows, m)
<1>1. PICK out \in Seq(Row), row \in Row, new \in Seq(Row) :
         out = F[m - 1] /\ row = rows[m] /\ new = F[m] /\ new = Keyed(out, row)
    <2>1. rows[m] \in Row /\ m - 1 \in 0..Len(rows) /\ m \in 0..Len(rows)
        OBVIOUS
    <2> QED
        BY <2>1 DEF KeyPath
<1>2. m \in 1..m /\ \A j \in 1..m : j = m \/ j \in 1..(m - 1)
    OBVIOUS
<1>3. \A j \in 1..(m - 1) : j \in 1..m
    OBVIOUS
<1>4. /\ \A r, s \in DOMAIN out : KeyOf(out[r]) = KeyOf(out[s]) => r = s
      /\ \A r \in DOMAIN out : \E j \in 1..(m - 1) : KeyOf(out[r]) = KeyOf(rows[j])
      /\ \A j \in 1..(m - 1) : \E r \in DOMAIN out : KeyOf(out[r]) = KeyOf(rows[j])
    BY <1>1 DEF KeysUpTo
<1>5. CASE /\ \A r \in DOMAIN out : KeyOf(out[r]) # KeyOf(row)
           /\ new = Append(out, row)
    <2>1. PICK k \in Nat : k = Len(out) /\ DOMAIN out = 1..k
        OBVIOUS
    <2>2. /\ DOMAIN new = 1..k \cup {k + 1} /\ new[k + 1] = row
          /\ \A r \in 1..k : new[r] = out[r]
        <3>1. Len(new) = k + 1 /\ DOMAIN new = 1..(k + 1)
            BY <1>5, <2>1
        <3>2. new[k + 1] = row /\ \A r \in 1..k : new[r] = out[r]
            BY <1>5, <2>1, AppendProperties
        <3> QED
            BY <3>1, <3>2
    <2>3. \A r, s \in DOMAIN new : KeyOf(new[r]) = KeyOf(new[s]) => r = s
        BY <1>4, <1>5, <2>1, <2>2
    <2>4. ASSUME NEW r \in DOMAIN new PROVE \E j \in 1..m : KeyOf(new[r]) = KeyOf(rows[j])
        <3>1. CASE r = k + 1
            BY <1>1, <1>2, <2>2, <3>1
        <3>2. CASE r \in DOMAIN out
            <4>1. PICK j \in 1..(m - 1) : KeyOf(out[r]) = KeyOf(rows[j])
                BY <1>4, <3>2
            <4>2. new[r] = out[r] /\ j \in 1..m
                BY <1>3, <2>1, <2>2, <3>2
            <4> QED
                BY <4>1, <4>2
        <3> QED
            BY <2>1, <2>2, <3>1, <3>2
    <2>5. ASSUME NEW j \in 1..m PROVE \E r \in DOMAIN new : KeyOf(new[r]) = KeyOf(rows[j])
        <3>1. CASE j = m
            BY <1>1, <2>2, <3>1
        <3>2. CASE j \in 1..(m - 1)
            <4>1. PICK r \in DOMAIN out : KeyOf(out[r]) = KeyOf(rows[j])
                BY <1>4, <3>2
            <4> QED
                BY <2>1, <2>2, <4>1
        <3> QED
            BY <1>2, <3>1, <3>2
    <2> QED
        BY <1>1, <2>3, <2>4, <2>5 DEF KeysUpTo
<1>6. CASE /\ \E r \in DOMAIN out : KeyOf(out[r]) = KeyOf(row)
           /\ DOMAIN new = DOMAIN out
           /\ \A r \in DOMAIN out : KeyOf(new[r]) = KeyOf(out[r])
    <2>1. \A r, s \in DOMAIN new : KeyOf(new[r]) = KeyOf(new[s]) => r = s
        BY <1>4, <1>6
    <2>2. \A r \in DOMAIN new : \E j \in 1..m : KeyOf(new[r]) = KeyOf(rows[j])
        BY <1>3, <1>4, <1>6
    <2>3. \A j \in 1..m : \E r \in DOMAIN new : KeyOf(new[r]) = KeyOf(rows[j])
        BY <1>1, <1>2, <1>4, <1>6
    <2> QED
        BY <1>1, <2>1, <2>2, <2>3 DEF KeysUpTo
<1>7. ASSUME NEW r \in DOMAIN out, JoinedKey(KeyOf(out[r])) = JoinedKey(KeyOf(row))
      PROVE  KeyOf(out[r]) = KeyOf(row)
    <2>1. PICK j \in 1..(m - 1) : KeyOf(out[r]) = KeyOf(rows[j])
        BY <1>4
    <2>2. j \in DOMAIN rows /\ m \in DOMAIN rows
        OBVIOUS
    <2> QED
        BY <1>1, <1>7, <2>1, <2>2 DEF Apart, KeyOf
<1>8. TellsKeys(out, row)
    BY <1>7 DEF TellsKeys
<1>9. \/ /\ \A r \in DOMAIN out : KeyOf(out[r]) # KeyOf(row)
         /\ new = Append(out, row)
      \/ /\ \E r \in DOMAIN out : KeyOf(out[r]) = KeyOf(row)
         /\ DOMAIN new = DOMAIN out
         /\ \A r \in DOMAIN out : KeyOf(new[r]) = KeyOf(out[r])
    BY <1>1, <1>8, KeyedStep
<1> QED
    BY <1>5, <1>6, <1>9

LEMMA CellsStep ==
    ASSUME NEW rows \in Seq(Row), NEW F, KeyPath(F, rows), NoListKeys, NEW m \in 1..Len(rows),
           Apart(rows, Cols("Key")), KeysUpTo(F, rows, m - 1), CellsUpTo(F, rows, m - 1), NoneUpTo(rows, m - 1)
    PROVE  CellsUpTo(F, rows, m)
<1>1. PICK out \in Seq(Row), row \in Row, new \in Seq(Row) :
         out = F[m - 1] /\ row = rows[m] /\ new = F[m] /\ new = Keyed(out, row)
    <2>1. rows[m] \in Row /\ m - 1 \in 0..Len(rows) /\ m \in 0..Len(rows)
        OBVIOUS
    <2> QED
        BY <2>1 DEF KeyPath
<1> DEFINE CellsAre(x, n) ==
        \A i \in Columns \ Cols("Key") :
            /\ Has("List", i) => \A G : ListPath(G, rows, KeyOf(x), i) => x.cells[i] = G[n]
            /\ ~Has("List", i) => x.cells[i] = LastUpTo(rows, n, Cols("Key"), KeyOf(x), i)
<1>2. \A r \in DOMAIN out : CellsAre(out[r], m - 1)
    BY <1>1 DEF CellsUpTo
<1>3. ASSUME NEW x \in Row, CellsAre(x, m - 1), KeyOf(x) # KeyOf(row)
      PROVE  CellsAre(x, m)
    <2> SUFFICES ASSUME NEW i \in Columns \ Cols("Key")
                 PROVE  /\ Has("List", i) =>
                              \A G : ListPath(G, rows, KeyOf(x), i) => x.cells[i] = G[m]
                        /\ ~Has("List", i) =>
                              x.cells[i] = LastUpTo(rows, m, Cols("Key"), KeyOf(x), i)
        OBVIOUS
    <2>1. ~Bears(rows[m], Cols("Key"), KeyOf(x))
        BY <1>1, <1>3 DEF Bears, KeyOf
    <2>2. ASSUME Has("List", i), NEW G, ListPath(G, rows, KeyOf(x), i) PROVE x.cells[i] = G[m]
        BY <1>3, <2>1, <2>2 DEF ListPath
    <2>3. ASSUME ~Has("List", i) PROVE x.cells[i] = LastUpTo(rows, m, Cols("Key"), KeyOf(x), i)
        BY <1>3, <2>1, <2>3, LastStep
    <2> QED
        BY <2>2, <2>3
<1>4. Bears(rows[m], Cols("Key"), KeyOf(row))
    BY <1>1 DEF Bears, KeyOf
<1>5. ASSUME NEW x \in Row, CellsAre(x, m - 1), KeyOf(x) = KeyOf(row),
             SameUpTo(rows, m - 1, Cols("Key"), KeyOf(row)) # {}, KeyOf(Merged(x, row)) = KeyOf(x)
      PROVE  CellsAre(Merged(x, row), m)
    <2> SUFFICES ASSUME NEW i \in Columns \ Cols("Key")
                 PROVE  /\ Has("List", i) =>
                              \A G : ListPath(G, rows, KeyOf(row), i) => Merged(x, row).cells[i] = G[m]
                        /\ ~Has("List", i) =>
                              Merged(x, row).cells[i] = LastUpTo(rows, m, Cols("Key"), KeyOf(row), i)
        BY <1>5
    <2>1. ASSUME Has("List", i), NEW G, ListPath(G, rows, KeyOf(row), i)
          PROVE  Merged(x, row).cells[i] = G[m]
        <3>1. x.cells[i] = G[m - 1]
            BY <1>5, <2>1
        <3>2. G[m] = G[m - 1] \o rows[m].cells[i]
            BY <1>4, <2>1 DEF ListPath
        <3>3. Merged(x, row).cells[i] = x.cells[i] \o row.cells[i]
            BY <2>1 DEF Merged
        <3> QED
            BY <1>1, <3>1, <3>2, <3>3
    <2>2. ASSUME ~Has("List", i)
          PROVE  Merged(x, row).cells[i] = LastUpTo(rows, m, Cols("Key"), KeyOf(row), i)
        <3>1. x.cells[i] = LastUpTo(rows, m - 1, Cols("Key"), KeyOf(row), i)
            BY <1>5, <2>2
        <3>2. LastUpTo(rows, m, Cols("Key"), KeyOf(row), i) =
                 IF Full(i, row.cells[i]) THEN row.cells[i] ELSE x.cells[i]
            BY <1>1, <1>4, <1>5, <3>1, LastStep
        <3>3. Merged(x, row).cells[i] =
                 IF Full(i, row.cells[i]) THEN row.cells[i] ELSE x.cells[i]
            BY <2>2 DEF Merged, Newer, Cols
        <3> QED
            BY <3>2, <3>3
    <2> QED
        BY <2>1, <2>2
<1>6. ASSUME \A j \in 1..(m - 1) : KeyOf(rows[j]) # KeyOf(row)
      PROVE  CellsAre(row, m)
    <2> SUFFICES ASSUME NEW i \in Columns \ Cols("Key")
                 PROVE  /\ Has("List", i) =>
                              \A G : ListPath(G, rows, KeyOf(row), i) => row.cells[i] = G[m]
                        /\ ~Has("List", i) =>
                              row.cells[i] = LastUpTo(rows, m, Cols("Key"), KeyOf(row), i)
        OBVIOUS
    <2>1. ASSUME NEW G, ListPath(G, rows, KeyOf(row), i) PROVE row.cells[i] = G[m]
        <3>1. G[m - 1] = <<>>
            BY <1>6, <2>1 DEF NoneUpTo
        <3>2. G[m] = <<>> \o row.cells[i]
            BY <1>1, <1>4, <2>1, <3>1 DEF ListPath
        <3>3. row.cells[i] \in Seq(STRING)
            BY DEF Row, Cell
        <3> QED
            BY <3>2, <3>3, ConcatEmptySeq
    <2>2. row.cells[i] = LastUpTo(rows, m, Cols("Key"), KeyOf(row), i)
        <3>1. SameUpTo(rows, m - 1, Cols("Key"), KeyOf(row)) = {}
            BY <1>6 DEF SameUpTo, Bears, KeyOf
        <3> QED
            BY <1>1, <1>4, <3>1, LastStep
    <2> QED
        BY <2>1, <2>2
<1>7. /\ \A r \in DOMAIN out : \E j \in 1..(m - 1) : KeyOf(out[r]) = KeyOf(rows[j])
      /\ \A j \in 1..(m - 1) : \E r \in DOMAIN out : KeyOf(out[r]) = KeyOf(rows[j])
    BY <1>1 DEF KeysUpTo
<1>8. ASSUME NEW r \in DOMAIN out, JoinedKey(KeyOf(out[r])) = JoinedKey(KeyOf(row))
      PROVE  KeyOf(out[r]) = KeyOf(row)
    <2>1. PICK j \in 1..(m - 1) : KeyOf(out[r]) = KeyOf(rows[j])
        BY <1>7
    <2>2. j \in DOMAIN rows /\ m \in DOMAIN rows
        OBVIOUS
    <2> QED
        BY <1>1, <1>8, <2>1, <2>2 DEF Apart, KeyOf
<1>9. ASSUME NEW r \in DOMAIN new PROVE CellsAre(new[r], m)
    <2> HIDE DEF CellsAre
    <2>1. CASE /\ \A s \in DOMAIN out : KeyOf(out[s]) # KeyOf(row)
               /\ new = Append(out, row)
        <3>1. new[r] = row \/ (r \in DOMAIN out /\ new[r] = out[r])
            BY <2>1
        <3>2. \A s \in DOMAIN out : out[s] \in Row
            OBVIOUS
        <3> QED
            BY <1>2, <1>3, <1>6, <1>7, <2>1, <3>1, <3>2
    <2>2. CASE /\ \E s \in DOMAIN out : KeyOf(out[s]) = KeyOf(row)
               /\ DOMAIN new = DOMAIN out
               /\ \A s \in DOMAIN out :
                     /\ KeyOf(new[s]) = KeyOf(out[s])
                     /\ new[s] = IF KeyOf(out[s]) = KeyOf(row) THEN Merged(out[s], row) ELSE out[s]
        <3>1. r \in DOMAIN out /\ out[r] \in Row
            BY <2>2
        <3>2. CASE KeyOf(out[r]) # KeyOf(row)
            BY <1>2, <1>3, <2>2, <3>1, <3>2
        <3>3. CASE KeyOf(out[r]) = KeyOf(row)
            <4>1. PICK j \in 1..(m - 1) : KeyOf(row) = KeyOf(rows[j])
                BY <1>7, <3>1, <3>3
            <4>2. j \in SameUpTo(rows, m - 1, Cols("Key"), KeyOf(row))
                BY <4>1 DEF SameUpTo, Bears, KeyOf
            <4> QED
                BY <1>2, <1>5, <2>2, <3>1, <3>3, <4>2
        <3> QED
            BY <3>2, <3>3
    <2> QED
        <3>1. TellsKeys(out, row)
            BY <1>8 DEF TellsKeys
        <3>2. new = Keyed(out, row)
            BY <1>1
        <3>3. \/ /\ \A s \in DOMAIN out : KeyOf(out[s]) # KeyOf(row)
                 /\ new = Append(out, row)
              \/ /\ \E s \in DOMAIN out : KeyOf(out[s]) = KeyOf(row)
                 /\ DOMAIN new = DOMAIN out
                 /\ \A s \in DOMAIN out :
                       /\ KeyOf(new[s]) = KeyOf(out[s])
                       /\ new[s] = IF KeyOf(out[s]) = KeyOf(row) THEN Merged(out[s], row) ELSE out[s]
            BY <3>1, <3>2, KeyedStep
        <3> QED
            BY <2>1, <2>2, <3>3
<1> QED
    BY <1>1, <1>9 DEF CellsUpTo

\* Merging by key, all rows.
KeysSaid(rows, out) ==
    /\ \A r, s \in DOMAIN out : KeyOf(out[r]) = KeyOf(out[s]) => r = s
    /\ {KeyOf(out[r]) : r \in DOMAIN out} = {KeyOf(rows[n]) : n \in DOMAIN rows}
    /\ \A r \in DOMAIN out : \A i \in Columns \ Cols("Key") :
          out[r].cells[i] = IF Has("List", i) THEN Lists(rows, KeyOf(out[r]), i)
                            ELSE LastOf(rows, Cols("Key"), KeyOf(out[r]), i)
LEMMA KeysTyped ==
    ASSUME NEW rows \in Seq(Row)
    PROVE  KeyMerge(rows) \in Seq(Row)
BY KeyFold DEF KeyPath
LEMMA KeysWhole ==
    ASSUME NEW rows \in Seq(Row), rows = <<>> \/ NoListKeys, Apart(rows, Cols("Key"))
    PROVE  KeysSaid(rows, KeyMerge(rows))
<1>1. PICK F : KeyPath(F, rows)
    BY KeyFold
<1>2. PICK n \in Nat : n = Len(rows) /\ DOMAIN rows = 1..n
    OBVIOUS
<1> DEFINE P == {m \in 0..n : KeysUpTo(F, rows, m) /\ CellsUpTo(F, rows, m) /\ NoneUpTo(rows, m)}
<1>3. 0 \in P
    <2>1. F[0] = <<>> /\ 1..0 = {} /\ DOMAIN F[0] = {}
        BY <1>1 DEF KeyPath
    <2>2. KeysUpTo(F, rows, 0) /\ CellsUpTo(F, rows, 0)
        BY <2>1 DEF KeysUpTo, CellsUpTo
    <2>3. NoneUpTo(rows, 0)
        BY DEF NoneUpTo, ListPath
    <2> QED
        BY <2>2, <2>3
<1>4. ASSUME NEW m \in 1..n, m - 1 \in P PROVE m \in P
    <2>1. NoListKeys
        BY <1>2
    <2>2. KeysUpTo(F, rows, m) /\ CellsUpTo(F, rows, m) /\ NoneUpTo(rows, m)
        BY <1>1, <1>2, <1>4, <2>1, KeysStep, CellsStep, NoneStep
    <2> QED
        BY <2>2
<1>5. n \in P
    <2>1. \A m \in 0..n : m \in P
        <3> HIDE DEF P
        <3> QED
            BY <1>3, <1>4, Along
    <2>2. n \in 0..n
        OBVIOUS
    <2> HIDE DEF P
    <2> QED
        BY <2>1, <2>2
<1>a. KeysUpTo(F, rows, n) /\ CellsUpTo(F, rows, n)
    BY <1>5
<1> HIDE DEF P
<1>6. PICK out \in Seq(Row) : out = KeyMerge(rows) /\ out = F[n]
    BY <1>1, <1>2 DEF KeyPath
<1>7. /\ \A r, s \in DOMAIN out : KeyOf(out[r]) = KeyOf(out[s]) => r = s
      /\ \A r \in DOMAIN out : \E j \in DOMAIN rows : KeyOf(out[r]) = KeyOf(rows[j])
      /\ \A j \in DOMAIN rows : \E r \in DOMAIN out : KeyOf(out[r]) = KeyOf(rows[j])
    <2>1. /\ \A r, s \in DOMAIN F[n] : KeyOf(F[n][r]) = KeyOf(F[n][s]) => r = s
          /\ \A r \in DOMAIN F[n] : \E j \in 1..n : KeyOf(F[n][r]) = KeyOf(rows[j])
          /\ \A j \in 1..n : \E r \in DOMAIN F[n] : KeyOf(F[n][r]) = KeyOf(rows[j])
        BY <1>a DEF KeysUpTo
    <2>2. \A r, s \in DOMAIN out : KeyOf(out[r]) = KeyOf(out[s]) => r = s
        BY <1>6, <2>1
    <2>3. \A r \in DOMAIN out : \E j \in 1..n : KeyOf(out[r]) = KeyOf(rows[j])
        BY <1>6, <2>1
    <2>4. \A j \in 1..n : \E r \in DOMAIN out : KeyOf(out[r]) = KeyOf(rows[j])
        BY <1>6, <2>1
    <2> QED
        BY <1>2, <2>2, <2>3, <2>4
<1>8. {KeyOf(out[r]) : r \in DOMAIN out} = {KeyOf(rows[j]) : j \in DOMAIN rows}
    BY <1>7
<1>9. ASSUME NEW r \in DOMAIN out, NEW i \in Columns \ Cols("Key")
      PROVE  out[r].cells[i] = IF Has("List", i) THEN Lists(rows, KeyOf(out[r]), i)
                               ELSE LastOf(rows, Cols("Key"), KeyOf(out[r]), i)
    <2>1. PICK G : ListPath(G, rows, KeyOf(out[r]), i)
        BY ListFold
    <2>2. G[n] = Lists(rows, KeyOf(out[r]), i)
        BY <1>2, <2>1 DEF ListPath
    <2>3. Has("List", i) => out[r].cells[i] = G[n]
        BY <1>a, <1>6, <2>1 DEF CellsUpTo
    <2>4. ~Has("List", i) => out[r].cells[i] = LastOf(rows, Cols("Key"), KeyOf(out[r]), i)
        BY <1>2, <1>a, <1>6, LastWhole DEF CellsUpTo
    <2> QED
        BY <2>2, <2>3, <2>4
<1>10. KeysSaid(rows, out)
    BY <1>7, <1>8, <1>9 DEF KeysSaid
<1> QED
    BY <1>6, <1>10

-----------------------------------------------------------------------------
(* Grouping.                                                               *)

GroupOf(row) == Strings(row, Cols("GroupBy"))
Group == [key : [Cols("GroupBy") -> {Str(c) : c \in Cell}], also : [Cols("ExcludeGroup") -> Cell],
          groups : Seq([Others -> Cell])]

LEMMA RowOn ==
    ASSUME NEW row \in Row, NEW cols, cols \subseteq Columns
    PROVE  On(row, cols) \in [cols -> Cell]
BY DEF On, Row

LEMMA RowStrings ==
    ASSUME NEW row \in Row, NEW cols, cols \subseteq Columns
    PROVE  Strings(row, cols) \in [cols -> {Str(c) : c \in Cell}]
BY DEF Strings, Row

LEMMA MemberTyped ==
    ASSUME NEW row \in Row
    PROVE  Member(row) \in Seq([Others -> Cell])
<1>1. PICK x, T : x = On(row, Others) /\ T = [Others -> Cell] /\ x \in T
    BY RowOn DEF Others
<1>2. <<x>> \in Seq(T) /\ <<>> \in Seq(T)
    BY <1>1
<1> QED
    BY <1>1, <1>2 DEF Member

LEMMA GroupedTyped ==
    ASSUME NEW out \in Seq(Group), NEW row \in Row
    PROVE  /\ Fresh(row) \in Group
           /\ \A r \in DOMAIN out : Joined(out[r], row) \in Group
           /\ Grouped(out, row) \in Seq(Group)
<1>1. Fresh(row) \in Group
    <2>1. /\ Strings(row, Cols("GroupBy")) \in [Cols("GroupBy") -> {Str(c) : c \in Cell}]
          /\ On(row, Cols("ExcludeGroup")) \in [Cols("ExcludeGroup") -> Cell]
        BY RowOn, RowStrings DEF Cols
    <2> QED
        BY <2>1, MemberTyped DEF Fresh, Group
<1>2. ASSUME NEW r \in DOMAIN out PROVE Joined(out[r], row) \in Group
    <2>1. PICK g \in Group : g = out[r]
        OBVIOUS
    <2>2. PICK also : also = [i \in Cols("ExcludeGroup") |-> Newer(i, g.also[i], row.cells[i])]
        OBVIOUS
    <2>3. also \in [Cols("ExcludeGroup") -> Cell]
        <3>1. \A i \in Cols("ExcludeGroup") : g.also[i] \in Cell /\ row.cells[i] \in Cell
            BY DEF Group, Row, Cols
        <3> QED
            BY <2>2, <3>1 DEF Newer
    <2>4. PICK groups : groups = g.groups \o Member(row)
        OBVIOUS
    <2>5. groups \in Seq([Others -> Cell])
        <3>1. g.groups \in Seq([Others -> Cell])
            BY DEF Group
        <3> QED
            BY <2>4, <3>1, MemberTyped, ConcatProperties
    <2>6. Joined(g, row) = [g EXCEPT !.also = also, !.groups = groups]
        <3>1. DOMAIN g.also = Cols("ExcludeGroup")
            BY DEF Group
        <3> QED
            BY <2>2, <2>4, <3>1 DEF Joined
    <2> QED
        BY <2>1, <2>3, <2>5, <2>6 DEF Group
<1>3. Append(out, Fresh(row)) \in Seq(Group)
    BY <1>1
<1> DEFINE same == {r \in DOMAIN out : HasKey(row, Cols("GroupBy"), out[r].key)}
           new == [r \in DOMAIN out |-> IF r \in same THEN Joined(out[r], row) ELSE out[r]]
<1>4. new \in [DOMAIN out -> Group]
    BY <1>2
<1>5. new \in Seq(Group)
    <2>1. DOMAIN out = 1..Len(out) /\ Len(out) \in Nat
        OBVIOUS
    <2> HIDE DEF new
    <2> QED
        BY <1>4, <2>1
<1>6. Grouped(out, row) \in Seq(Group)
    BY <1>3, <1>5 DEF Grouped
<1> QED
    BY <1>1, <1>2, <1>6

\* ByGroup takes the rows one after the other, and so do the members of a group.
GroupPath(F, rows) ==
    /\ F \in [0..Len(rows) -> Seq(Group)]
    /\ F[0] = <<>> /\ ByGroup(rows) = F[Len(rows)]
    /\ \A m \in 1..Len(rows) : F[m] = Grouped(F[m - 1], rows[m])
LEMMA GroupFold ==
    ASSUME NEW rows \in Seq(Row)
    PROVE  \E F : GroupPath(F, rows)
<1>0. PICK it : it = CHOOSE h : h = [s \in SUBSET DOMAIN rows |->
                     IF s = {} THEN <<>> ELSE Grouped(h[s \ {Max(s)}], rows[Max(s)])]
    OBVIOUS
<1>1. PICK n \in Nat : n = Len(rows) /\ DOMAIN rows = 1..n /\ \A i \in 1..n : rows[i] \in Row
    OBVIOUS
<1>2. PICK R, b : R = Seq(Group) /\ b = <<>> /\ b \in R
    BY EmptySeq
<1>3. \A a \in R : \A i \in 1..n : Grouped(a, rows[i]) \in R
    BY <1>1, <1>2, GroupedTyped
<1>4. it = [s \in SUBSET (1..n) |-> IF s = {} THEN <<>> ELSE Grouped(it[s \ {Max(s)}], rows[Max(s)])]
    <2>1. PICK Op : Op = [p \in R \X (1..n) |-> Grouped(p[1], rows[p[2]])]
        OBVIOUS
    <2>2. /\ Op \in [R \X (1..n) -> R]
          /\ \A a \in R : \A i \in 1..n : Op[<<a, i>>] = Grouped(a, rows[i])
        BY <1>3, <2>1
    <2>3. PICK g \in [SUBSET (1..n) -> R] : Repeats(g, n, b, Op)
        BY <1>2, <2>2, Iterates
    <2>4. \A s \in SUBSET (1..n) : s # {} =>
             Op[<<g[s \ {Max(s)}], Max(s)>>] = Grouped(g[s \ {Max(s)}], rows[Max(s)])
        BY <2>2, MaxIn
    <2>5. g = [s \in SUBSET DOMAIN rows |->
                 IF s = {} THEN <<>> ELSE Grouped(g[s \ {Max(s)}], rows[Max(s)])]
        BY <1>1, <1>2, <2>3, <2>4 DEF Repeats
    <2> QED
        BY <1>0, <1>1, <2>5
<1>5. ByGroup(rows) = it[1..n]
    BY <1>0, <1>1 DEF ByGroup, FoldLeft, MapThenFoldSet
<1>6. it[1..0] = <<>>
    BY <1>4, Beginnings
<1>7. ASSUME NEW m \in 1..n PROVE it[1..m] = Grouped(it[1..(m - 1)], rows[m])
    <2>1. 1..m \in SUBSET (1..n) /\ 1..m # {} /\ Max(1..m) = m /\ (1..m) \ {m} = 1..(m - 1)
        BY Beginnings
    <2> QED
        BY <1>4, <2>1
<1>8. PICK F : F = [m \in 0..n |-> it[1..m]]
    OBVIOUS
<1>9. F[0] = <<>> /\ F[n] = ByGroup(rows)
    BY <1>5, <1>6, <1>8
<1>10. ASSUME NEW m \in 1..n PROVE F[m] = Grouped(F[m - 1], rows[m])
    <2>1. m \in 0..n /\ m - 1 \in 0..n
        OBVIOUS
    <2>2. F[m] = it[1..m] /\ F[m - 1] = it[1..(m - 1)]
        BY <1>8, <2>1
    <2> QED
        BY <1>7, <2>2
<1>11. F \in [0..n -> R]
    <2>1. F = [m \in 0..n |-> F[m]]
        BY <1>8
    <2>2. \A m \in 1..n : F[m - 1] \in R => F[m] \in R
        BY <1>3, <1>10
    <2>3. F[0] \in R
        BY <1>2, <1>9
    <2> QED
        BY <2>1, <2>2, <2>3, StaysIn
<1>12. GroupPath(F, rows)
    BY <1>1, <1>2, <1>9, <1>10, <1>11 DEF GroupPath
<1> QED
    BY <1>12

MemberPath(G, rows, key) ==
    /\ G \in [0..Len(rows) -> Seq([Others -> Cell])]
    /\ G[0] = <<>> /\ Members(rows, key) = G[Len(rows)]
    /\ \A m \in 1..Len(rows) :
          G[m] = IF Bears(rows[m], Cols("GroupBy"), key)
                    /\ \E i \in Others : Full(i, rows[m].cells[i])
                 THEN Append(G[m - 1], On(rows[m], Others)) ELSE G[m - 1]
LEMMA MemberFold ==
    ASSUME NEW rows \in Seq(Row), NEW key
    PROVE  \E G : MemberPath(G, rows, key)
<1> DEFINE Piled(a, row) == IF Bears(row, Cols("GroupBy"), key) /\ \E i \in Others : Full(i, row.cells[i])
                        THEN Append(a, On(row, Others)) ELSE a
<1>0. PICK it : it = CHOOSE h : h = [s \in SUBSET DOMAIN rows |->
                     IF s = {} THEN <<>> ELSE Piled(h[s \ {Max(s)}], rows[Max(s)])]
    OBVIOUS
<1>1. PICK n \in Nat : n = Len(rows) /\ DOMAIN rows = 1..n /\ \A j \in 1..n : rows[j] \in Row
    OBVIOUS
<1>2. PICK R, b : R = Seq([Others -> Cell]) /\ b = <<>> /\ b \in R
    BY EmptySeq
<1>3. \A a \in R : \A j \in 1..n : Piled(a, rows[j]) \in R
    <2> SUFFICES ASSUME NEW a \in R, NEW j \in 1..n PROVE Piled(a, rows[j]) \in R
        OBVIOUS
    <2>1. PICK x, T : x = On(rows[j], Others) /\ T = [Others -> Cell] /\ x \in T
        <3>1. Others \subseteq Columns /\ rows[j] \in Row
            BY <1>1 DEF Others
        <3>2. On(rows[j], Others) \in [Others -> Cell]
            BY <3>1, RowOn
        <3> QED
            BY <3>2
    <2>2. a \in Seq(T) /\ Append(a, x) \in Seq(T)
        BY <1>2, <2>1
    <2> QED
        BY <1>2, <2>1, <2>2
<1>5. Members(rows, key) = it[1..n]
    BY <1>0, <1>1 DEF Members, FoldLeft, MapThenFoldSet
<1> HIDE DEF Piled
<1>4. it = [s \in SUBSET (1..n) |-> IF s = {} THEN <<>> ELSE Piled(it[s \ {Max(s)}], rows[Max(s)])]
    <2>1. PICK Op : Op = [p \in R \X (1..n) |-> Piled(p[1], rows[p[2]])]
        OBVIOUS
    <2>2. /\ Op \in [R \X (1..n) -> R]
          /\ \A a \in R : \A j \in 1..n : Op[<<a, j>>] = Piled(a, rows[j])
        BY <1>3, <2>1
    <2>3. PICK g \in [SUBSET (1..n) -> R] : Repeats(g, n, b, Op)
        BY <1>2, <2>2, Iterates
    <2>4. \A s \in SUBSET (1..n) : s # {} =>
             Op[<<g[s \ {Max(s)}], Max(s)>>] = Piled(g[s \ {Max(s)}], rows[Max(s)])
        BY <2>2, MaxIn
    <2>5. g = [s \in SUBSET DOMAIN rows |->
                 IF s = {} THEN <<>> ELSE Piled(g[s \ {Max(s)}], rows[Max(s)])]
        BY <1>1, <1>2, <2>3, <2>4 DEF Repeats
    <2> QED
        BY <1>0, <1>1, <2>5
<1>6. it[1..0] = <<>>
    BY <1>4, Beginnings
<1>7. ASSUME NEW m \in 1..n PROVE it[1..m] = Piled(it[1..(m - 1)], rows[m])
    <2>1. 1..m \in SUBSET (1..n) /\ 1..m # {} /\ Max(1..m) = m /\ (1..m) \ {m} = 1..(m - 1)
        BY Beginnings
    <2> QED
        BY <1>4, <2>1
<1>8. PICK G : G = [m \in 0..n |-> it[1..m]]
    OBVIOUS
<1>9. G[0] = <<>> /\ G[n] = Members(rows, key)
    BY <1>5, <1>6, <1>8
<1>10. ASSUME NEW m \in 1..n PROVE G[m] = Piled(G[m - 1], rows[m])
    <2>1. m \in 0..n /\ m - 1 \in 0..n
        OBVIOUS
    <2>2. G[m] = it[1..m] /\ G[m - 1] = it[1..(m - 1)]
        BY <1>8, <2>1
    <2> QED
        BY <1>7, <2>2
<1>11. G \in [0..n -> R]
    <2>1. G = [m \in 0..n |-> G[m]]
        BY <1>8
    <2>2. \A m \in 1..n : G[m - 1] \in R => G[m] \in R
        BY <1>3, <1>10
    <2>3. G[0] \in R
        BY <1>2, <1>9
    <2> QED
        BY <2>1, <2>2, <2>3, StaysIn
<1>12. MemberPath(G, rows, key)
    BY <1>1, <1>2, <1>9, <1>10, <1>11 DEF MemberPath, Piled
<1> QED
    BY <1>12


TellsGroups(out, row) ==
    \A r \in DOMAIN out : JoinedKey(GroupOf(row)) = JoinedKey(out[r].key) =>
        GroupOf(row) = out[r].key
\* A row begins a group or joins its own, whose key stays.
LEMMA GroupedStep ==
    ASSUME NEW out \in Seq(Group), NEW row \in Row, TellsGroups(out, row)
    PROVE  \/ /\ \A r \in DOMAIN out : out[r].key # GroupOf(row)
              /\ Grouped(out, row) = Append(out, Fresh(row))
           \/ /\ \E r \in DOMAIN out : out[r].key = GroupOf(row)
              /\ DOMAIN Grouped(out, row) = DOMAIN out
              /\ \A r \in DOMAIN out :
                    /\ Grouped(out, row)[r].key = out[r].key
                    /\ Grouped(out, row)[r] = IF out[r].key = GroupOf(row) THEN Joined(out[r], row)
                                              ELSE out[r]
<1> DEFINE same == {r \in DOMAIN out : HasKey(row, Cols("GroupBy"), out[r].key)}
<1>1. \A r \in DOMAIN out : r \in same <=> out[r].key = GroupOf(row)
    BY DEF HasKey, GroupOf, TellsGroups
<1>2. CASE same = {}
    BY <1>1, <1>2 DEF Grouped
<1>3. CASE same # {}
    <2>1. Grouped(out, row) = [r \in DOMAIN out |-> IF r \in same THEN Joined(out[r], row) ELSE out[r]]
        BY <1>3 DEF Grouped
    <2>2. \A r \in DOMAIN out : Joined(out[r], row).key = out[r].key
        <3> SUFFICES ASSUME NEW r \in DOMAIN out PROVE Joined(out[r], row).key = out[r].key
            OBVIOUS
        <3>1. out[r] \in Group
            OBVIOUS
        <3> QED
            BY <3>1 DEF Joined, Group
    <2> HIDE DEF same
    <2>3. \E r \in DOMAIN out : out[r].key = GroupOf(row)
        <3>1. same \subseteq DOMAIN out
            BY DEF same
        <3> QED
            BY <1>1, <1>3, <3>1
    <2>4. DOMAIN Grouped(out, row) = DOMAIN out
        BY <2>1
    <2>5. ASSUME NEW r \in DOMAIN out
          PROVE  /\ Grouped(out, row)[r].key = out[r].key
                 /\ Grouped(out, row)[r] = IF out[r].key = GroupOf(row) THEN Joined(out[r], row)
                                           ELSE out[r]
        <3>1. Grouped(out, row)[r] = IF r \in same THEN Joined(out[r], row) ELSE out[r]
            BY <2>1
        <3> QED
            BY <1>1, <2>2, <3>1
    <2> QED
        BY <2>3, <2>4, <2>5
<1> QED
    BY <1>2, <1>3

\* Of the first m rows: one group for each of their keys, and in it what they say.
GroupsUpTo(F, rows, m) ==
    /\ \A r, s \in DOMAIN F[m] : F[m][r].key = F[m][s].key => r = s
    /\ \A r \in DOMAIN F[m] : \E j \in 1..m : F[m][r].key = GroupOf(rows[j])
    /\ \A j \in 1..m : \E r \in DOMAIN F[m] : F[m][r].key = GroupOf(rows[j])
Holds(rows, g, m) ==
    /\ \A G : MemberPath(G, rows, g.key) => g.groups = G[m]
    /\ \A i \in Cols("ExcludeGroup") :
          g.also[i] = LastUpTo(rows, m, Cols("GroupBy"), g.key, i)
NoMemberUpTo(rows, m) ==
    \A key : (\A j \in 1..m : GroupOf(rows[j]) # key) =>
        \A G : MemberPath(G, rows, key) => G[m] = <<>>

LEMMA NoMemberStep ==
    ASSUME NEW rows \in Seq(Row), NEW m \in 1..Len(rows), NoMemberUpTo(rows, m - 1)
    PROVE  NoMemberUpTo(rows, m)
<1> SUFFICES ASSUME NEW key, \A j \in 1..m : GroupOf(rows[j]) # key,
                    NEW G, MemberPath(G, rows, key)
             PROVE  G[m] = <<>>
    BY DEF NoMemberUpTo
<1>1. m \in 1..m /\ \A j \in 1..(m - 1) : j \in 1..m
    OBVIOUS
<1>2. G[m - 1] = <<>>
    BY <1>1 DEF NoMemberUpTo
<1>3. ~Bears(rows[m], Cols("GroupBy"), key)
    BY <1>1 DEF Bears, GroupOf
<1> QED
    BY <1>2, <1>3 DEF MemberPath

LEMMA GroupsStep ==
    ASSUME NEW rows \in Seq(Row), NEW F, GroupPath(F, rows), NEW m \in 1..Len(rows),
           Apart(rows, Cols("GroupBy")),
           GroupsUpTo(F, rows, m - 1)
    PROVE  GroupsUpTo(F, rows, m)
<1>1. PICK out \in Seq(Group), row \in Row, new \in Seq(Group) :
         out = F[m - 1] /\ row = rows[m] /\ new = F[m] /\ new = Grouped(out, row)
    <2>1. rows[m] \in Row /\ m - 1 \in 0..Len(rows) /\ m \in 0..Len(rows)
        OBVIOUS
    <2> QED
        BY <2>1 DEF GroupPath
<1>2. m \in 1..m /\ \A j \in 1..m : j = m \/ j \in 1..(m - 1)
    OBVIOUS
<1>3. \A j \in 1..(m - 1) : j \in 1..m
    OBVIOUS
<1>4. /\ \A r, s \in DOMAIN out : out[r].key = out[s].key => r = s
      /\ \A r \in DOMAIN out : \E j \in 1..(m - 1) : out[r].key = GroupOf(rows[j])
      /\ \A j \in 1..(m - 1) : \E r \in DOMAIN out : out[r].key = GroupOf(rows[j])
    BY <1>1 DEF GroupsUpTo
<1>5. CASE /\ \A r \in DOMAIN out : out[r].key # GroupOf(row)
           /\ new = Append(out, Fresh(row))
    <2>1. PICK k \in Nat : k = Len(out) /\ DOMAIN out = 1..k
        OBVIOUS
    <2>2. /\ DOMAIN new = 1..k \cup {k + 1} /\ new[k + 1].key = GroupOf(row)
          /\ \A r \in 1..k : new[r] = out[r]
        <3>1. Len(new) = k + 1 /\ DOMAIN new = 1..(k + 1)
            BY <1>5, <2>1
        <3>2. new[k + 1] = Fresh(row) /\ \A r \in 1..k : new[r] = out[r]
            BY <1>5, <2>1, GroupedTyped, AppendProperties
        <3>3. Fresh(row).key = GroupOf(row)
            BY DEF Fresh, GroupOf
        <3> QED
            BY <3>1, <3>2, <3>3
    <2>3. ASSUME NEW r \in DOMAIN new, NEW s \in DOMAIN new, new[r].key = new[s].key PROVE r = s
        <3>1. \A t \in DOMAIN new : t = k + 1 \/ (t \in DOMAIN out /\ new[t] = out[t])
            BY <2>1, <2>2
        <3>2. CASE r = k + 1
            BY <1>5, <2>2, <2>3, <3>1, <3>2
        <3>3. CASE s = k + 1
            BY <1>5, <2>2, <2>3, <3>1, <3>3
        <3>4. CASE r \in DOMAIN out /\ new[r] = out[r] /\ s \in DOMAIN out /\ new[s] = out[s]
            BY <1>4, <2>3, <3>4
        <3> QED
            BY <3>1, <3>2, <3>3, <3>4
    <2>4. ASSUME NEW r \in DOMAIN new PROVE \E j \in 1..m : new[r].key = GroupOf(rows[j])
        <3>1. CASE r = k + 1
            BY <1>1, <1>2, <2>2, <3>1
        <3>2. CASE r \in DOMAIN out
            <4>1. PICK j \in 1..(m - 1) : out[r].key = GroupOf(rows[j])
                BY <1>4, <3>2
            <4>2. new[r] = out[r] /\ j \in 1..m
                BY <1>3, <2>1, <2>2, <3>2
            <4> QED
                BY <4>1, <4>2
        <3> QED
            BY <2>1, <2>2, <3>1, <3>2
    <2>5. ASSUME NEW j \in 1..m PROVE \E r \in DOMAIN new : new[r].key = GroupOf(rows[j])
        <3>1. CASE j = m
            BY <1>1, <2>2, <3>1
        <3>2. CASE j \in 1..(m - 1)
            <4>1. PICK r \in DOMAIN out : out[r].key = GroupOf(rows[j])
                BY <1>4, <3>2
            <4> QED
                BY <2>1, <2>2, <4>1
        <3> QED
            BY <1>2, <3>1, <3>2
    <2> QED
        BY <1>1, <2>3, <2>4, <2>5 DEF GroupsUpTo
<1>6. CASE /\ \E r \in DOMAIN out : out[r].key = GroupOf(row)
           /\ DOMAIN new = DOMAIN out
           /\ \A r \in DOMAIN out : new[r].key = out[r].key
    <2>1. \A r, s \in DOMAIN new : new[r].key = new[s].key => r = s
        BY <1>4, <1>6
    <2>2. \A r \in DOMAIN new : \E j \in 1..m : new[r].key = GroupOf(rows[j])
        BY <1>3, <1>4, <1>6
    <2>3. \A j \in 1..m : \E r \in DOMAIN new : new[r].key = GroupOf(rows[j])
        BY <1>1, <1>2, <1>4, <1>6
    <2> QED
        BY <1>1, <2>1, <2>2, <2>3 DEF GroupsUpTo
<1>7. ASSUME NEW r \in DOMAIN out, JoinedKey(GroupOf(row)) = JoinedKey(out[r].key)
      PROVE  GroupOf(row) = out[r].key
    <2>1. PICK j \in 1..(m - 1) : out[r].key = GroupOf(rows[j])
        BY <1>4
    <2>2. j \in DOMAIN rows /\ m \in DOMAIN rows
        OBVIOUS
    <2> QED
        BY <1>1, <1>7, <2>1, <2>2 DEF Apart, GroupOf
<1>8. TellsGroups(out, row)
    BY <1>7 DEF TellsGroups
<1>9. \/ /\ \A r \in DOMAIN out : out[r].key # GroupOf(row)
         /\ new = Append(out, Fresh(row))
      \/ /\ \E r \in DOMAIN out : out[r].key = GroupOf(row)
         /\ DOMAIN new = DOMAIN out
         /\ \A r \in DOMAIN out : new[r].key = out[r].key
    BY <1>1, <1>8, GroupedStep
<1> QED
    BY <1>5, <1>6, <1>9

LEMMA HoldsStep ==
    ASSUME NEW rows \in Seq(Row), NEW F, GroupPath(F, rows), NEW m \in 1..Len(rows),
           Apart(rows, Cols("GroupBy")),
           GroupsUpTo(F, rows, m - 1), NoMemberUpTo(rows, m - 1),
           \A r \in DOMAIN F[m - 1] : Holds(rows, F[m - 1][r], m - 1)
    PROVE  \A r \in DOMAIN F[m] : Holds(rows, F[m][r], m)
<1>1. PICK out \in Seq(Group), row \in Row, new \in Seq(Group) :
         out = F[m - 1] /\ row = rows[m] /\ new = F[m] /\ new = Grouped(out, row)
    <2>1. rows[m] \in Row /\ m - 1 \in 0..Len(rows) /\ m \in 0..Len(rows)
        OBVIOUS
    <2> QED
        BY <2>1 DEF GroupPath
<1>2. Bears(rows[m], Cols("GroupBy"), GroupOf(row))
    BY <1>1 DEF Bears, GroupOf
<1>3. ASSUME NEW g \in Group, Holds(rows, g, m - 1), g.key # GroupOf(row)
      PROVE  Holds(rows, g, m)
    <2>1. ~Bears(rows[m], Cols("GroupBy"), g.key)
        BY <1>1, <1>3 DEF Bears, GroupOf
    <2>2. ASSUME NEW G, MemberPath(G, rows, g.key) PROVE g.groups = G[m]
        BY <1>3, <2>1, <2>2 DEF MemberPath, Holds
    <2>3. ASSUME NEW i \in Cols("ExcludeGroup")
          PROVE  g.also[i] = LastUpTo(rows, m, Cols("GroupBy"), g.key, i)
        BY <1>3, <2>1, LastStep DEF Holds
    <2> QED
        BY <2>2, <2>3 DEF Holds
<1>4. ASSUME NEW g \in Group, Holds(rows, g, m - 1), g.key = GroupOf(row),
             SameUpTo(rows, m - 1, Cols("GroupBy"), GroupOf(row)) # {}
      PROVE  Holds(rows, Joined(g, row), m)
    <2>1. /\ Joined(g, row).key = GroupOf(row)
          /\ Joined(g, row).groups = g.groups \o Member(row)
          /\ \A i \in Cols("ExcludeGroup") :
                Joined(g, row).also[i] = Newer(i, g.also[i], row.cells[i])
        BY <1>4 DEF Joined, Group
    <2>2. ASSUME NEW G, MemberPath(G, rows, GroupOf(row)) PROVE Joined(g, row).groups = G[m]
        <3>1. g.groups = G[m - 1]
            BY <1>4, <2>2 DEF Holds
        <3>2. PICK q, T : q = g.groups /\ T = [Others -> Cell] /\ q \in Seq(T)
            BY DEF Group
        <3>3. PICK x \in T : x = On(row, Others)
            <4>1. Others \subseteq Columns
                BY DEF Others
            <4> QED
                BY <3>2, <4>1, RowOn
        <3>4. CASE \E i \in Others : Full(i, row.cells[i])
            <4>1. G[m] = Append(q, x)
                BY <1>1, <1>2, <2>2, <3>1, <3>2, <3>3, <3>4 DEF MemberPath
            <4>2. Joined(g, row).groups = q \o <<x>>
                BY <2>1, <3>2, <3>3, <3>4 DEF Member
            <4> QED
                BY <3>2, <4>1, <4>2, AppendIsConcat
        <3>5. CASE ~\E i \in Others : Full(i, row.cells[i])
            <4>1. G[m] = q
                BY <1>1, <1>2, <2>2, <3>1, <3>2, <3>5 DEF MemberPath
            <4>2. Joined(g, row).groups = q \o <<>>
                BY <2>1, <3>2, <3>5 DEF Member
            <4> QED
                BY <3>2, <4>1, <4>2, ConcatEmptySeq
        <3> QED
            BY <3>4, <3>5
    <2>3. ASSUME NEW i \in Cols("ExcludeGroup")
          PROVE  Joined(g, row).also[i] = LastUpTo(rows, m, Cols("GroupBy"), GroupOf(row), i)
        <3>1. g.also[i] = LastUpTo(rows, m - 1, Cols("GroupBy"), GroupOf(row), i)
            BY <1>4 DEF Holds
        <3>2. LastUpTo(rows, m, Cols("GroupBy"), GroupOf(row), i) =
                 IF Full(i, row.cells[i]) THEN row.cells[i] ELSE g.also[i]
            BY <1>1, <1>2, <1>4, <3>1, LastStep
        <3> QED
            BY <2>1, <3>2 DEF Newer
    <2> QED
        BY <2>1, <2>2, <2>3 DEF Holds
<1>5. ASSUME \A j \in 1..(m - 1) : GroupOf(rows[j]) # GroupOf(row)
      PROVE  Holds(rows, Fresh(row), m)
    <2>1. /\ Fresh(row).key = GroupOf(row) /\ Fresh(row).groups = Member(row)
          /\ \A i \in Cols("ExcludeGroup") : Fresh(row).also[i] = row.cells[i]
        BY DEF Fresh, GroupOf, On
    <2>2. ASSUME NEW G, MemberPath(G, rows, GroupOf(row)) PROVE Fresh(row).groups = G[m]
        <3>1. G[m - 1] = <<>>
            BY <1>5, <2>2 DEF NoMemberUpTo
        <3>2. G[m] = IF \E i \in Others : Full(i, row.cells[i]) THEN Append(<<>>, On(row, Others))
                     ELSE <<>>
            BY <1>1, <1>2, <2>2, <3>1 DEF MemberPath
        <3>3. PICK x : x = On(row, Others)
            OBVIOUS
        <3>4. Append(<<>>, x) = <<x>>
            OBVIOUS
        <3> QED
            BY <2>1, <3>2, <3>3, <3>4 DEF Member
    <2>3. ASSUME NEW i \in Cols("ExcludeGroup")
          PROVE  Fresh(row).also[i] = LastUpTo(rows, m, Cols("GroupBy"), GroupOf(row), i)
        <3>1. SameUpTo(rows, m - 1, Cols("GroupBy"), GroupOf(row)) = {}
            BY <1>5 DEF SameUpTo, Bears, GroupOf
        <3> QED
            BY <1>1, <1>2, <2>1, <3>1, LastStep
    <2> QED
        BY <2>1, <2>2, <2>3 DEF Holds
<1>6. /\ \A r \in DOMAIN out : \E j \in 1..(m - 1) : out[r].key = GroupOf(rows[j])
      /\ \A j \in 1..(m - 1) : \E r \in DOMAIN out : out[r].key = GroupOf(rows[j])
    BY <1>1 DEF GroupsUpTo
<1>7. ASSUME NEW r \in DOMAIN out, JoinedKey(GroupOf(row)) = JoinedKey(out[r].key)
      PROVE  GroupOf(row) = out[r].key
    <2>1. PICK j \in 1..(m - 1) : out[r].key = GroupOf(rows[j])
        BY <1>6
    <2>2. j \in DOMAIN rows /\ m \in DOMAIN rows
        OBVIOUS
    <2> QED
        BY <1>1, <1>7, <2>1, <2>2 DEF Apart, GroupOf
<1>8. ASSUME NEW r \in DOMAIN new PROVE Holds(rows, new[r], m)
    <2>1. CASE /\ \A s \in DOMAIN out : out[s].key # GroupOf(row)
               /\ new = Append(out, Fresh(row))
        <3>1. Fresh(row) \in Group
            BY GroupedTyped
        <3>2. new[r] = Fresh(row) \/ (r \in DOMAIN out /\ new[r] = out[r])
            BY <2>1, <3>1
        <3>3. \A s \in DOMAIN out : out[s] \in Group
            OBVIOUS
        <3> QED
            BY <1>1, <1>3, <1>5, <1>6, <2>1, <3>2, <3>3
    <2>2. CASE /\ \E s \in DOMAIN out : out[s].key = GroupOf(row)
               /\ DOMAIN new = DOMAIN out
               /\ \A s \in DOMAIN out :
                     /\ new[s].key = out[s].key
                     /\ new[s] = IF out[s].key = GroupOf(row) THEN Joined(out[s], row) ELSE out[s]
        <3>1. r \in DOMAIN out /\ out[r] \in Group
            BY <2>2
        <3>2. CASE out[r].key # GroupOf(row)
            BY <1>1, <1>3, <2>2, <3>1, <3>2
        <3>3. CASE out[r].key = GroupOf(row)
            <4>1. PICK j \in 1..(m - 1) : GroupOf(row) = GroupOf(rows[j])
                BY <1>6, <3>1, <3>3
            <4>2. j \in SameUpTo(rows, m - 1, Cols("GroupBy"), GroupOf(row))
                BY <4>1 DEF SameUpTo, Bears, GroupOf
            <4> QED
                BY <1>1, <1>4, <2>2, <3>1, <3>3, <4>2
        <3> QED
            BY <3>2, <3>3
    <2>3. \/ /\ \A s \in DOMAIN out : out[s].key # GroupOf(row)
             /\ new = Append(out, Fresh(row))
          \/ /\ \E s \in DOMAIN out : out[s].key = GroupOf(row)
             /\ DOMAIN new = DOMAIN out
             /\ \A s \in DOMAIN out :
                   /\ new[s].key = out[s].key
                   /\ new[s] = IF out[s].key = GroupOf(row) THEN Joined(out[s], row) ELSE out[s]
        <3>1. new = Grouped(out, row)
            BY <1>1
        <3>2. TellsGroups(out, row)
            BY <1>7 DEF TellsGroups
        <3> QED
            BY <3>1, <3>2, GroupedStep
    <2> QED
        BY <2>1, <2>2, <2>3
<1> QED
    BY <1>1, <1>8

\* Grouping, all rows.
GroupsSaid(rows, out) ==
    /\ \A r, s \in DOMAIN out : out[r].key = out[s].key => r = s
    /\ {out[r].key : r \in DOMAIN out} = {GroupOf(rows[n]) : n \in DOMAIN rows}
    /\ \A r \in DOMAIN out :
          /\ out[r].groups = Members(rows, out[r].key)
          /\ \A i \in Cols("ExcludeGroup") :
                out[r].also[i] = LastOf(rows, Cols("GroupBy"), out[r].key, i)
LEMMA GroupsWhole ==
    ASSUME NEW rows \in Seq(Row), Apart(rows, Cols("GroupBy"))
    PROVE  GroupsSaid(rows, ByGroup(rows))
<1>1. PICK F : GroupPath(F, rows)
    BY GroupFold
<1>2. PICK n \in Nat : n = Len(rows) /\ DOMAIN rows = 1..n
    OBVIOUS
<1> DEFINE P == {m \in 0..n : /\ GroupsUpTo(F, rows, m) /\ NoMemberUpTo(rows, m)
                              /\ \A r \in DOMAIN F[m] : Holds(rows, F[m][r], m)}
<1>3. 0 \in P
    <2>1. F[0] = <<>> /\ 1..0 = {} /\ DOMAIN F[0] = {}
        BY <1>1 DEF GroupPath
    <2>2. GroupsUpTo(F, rows, 0) /\ \A r \in DOMAIN F[0] : Holds(rows, F[0][r], 0)
        BY <2>1 DEF GroupsUpTo
    <2>3. NoMemberUpTo(rows, 0)
        BY DEF NoMemberUpTo, MemberPath
    <2> QED
        BY <2>2, <2>3
<1>4. ASSUME NEW m \in 1..n, m - 1 \in P PROVE m \in P
    <2>1. /\ GroupsUpTo(F, rows, m) /\ NoMemberUpTo(rows, m)
          /\ \A r \in DOMAIN F[m] : Holds(rows, F[m][r], m)
        BY <1>1, <1>2, <1>4, GroupsStep, HoldsStep, NoMemberStep
    <2> QED
        BY <2>1
<1>5. n \in P
    <2>1. \A m \in 0..n : m \in P
        <3> HIDE DEF P
        <3> QED
            BY <1>3, <1>4, Along
    <2>2. n \in 0..n
        OBVIOUS
    <2> HIDE DEF P
    <2> QED
        BY <2>1, <2>2
<1>6. GroupsUpTo(F, rows, n) /\ \A r \in DOMAIN F[n] : Holds(rows, F[n][r], n)
    BY <1>5
<1> HIDE DEF P
<1>7. PICK out \in Seq(Group) : out = ByGroup(rows) /\ out = F[n]
    BY <1>1, <1>2 DEF GroupPath
<1>8. /\ \A r, s \in DOMAIN out : out[r].key = out[s].key => r = s
      /\ {out[r].key : r \in DOMAIN out} = {GroupOf(rows[j]) : j \in DOMAIN rows}
    <2>1. /\ \A r, s \in DOMAIN F[n] : F[n][r].key = F[n][s].key => r = s
          /\ \A r \in DOMAIN F[n] : \E j \in 1..n : F[n][r].key = GroupOf(rows[j])
          /\ \A j \in 1..n : \E r \in DOMAIN F[n] : F[n][r].key = GroupOf(rows[j])
        BY <1>6 DEF GroupsUpTo
    <2>2. \A r, s \in DOMAIN out : out[r].key = out[s].key => r = s
        BY <1>7, <2>1
    <2>3. \A r \in DOMAIN out : \E j \in 1..n : out[r].key = GroupOf(rows[j])
        BY <1>7, <2>1
    <2>4. \A j \in 1..n : \E r \in DOMAIN out : out[r].key = GroupOf(rows[j])
        BY <1>7, <2>1
    <2>5. {out[r].key : r \in DOMAIN out} \subseteq {GroupOf(rows[j]) : j \in DOMAIN rows}
        BY <1>2, <2>3
    <2>6. {GroupOf(rows[j]) : j \in DOMAIN rows} \subseteq {out[r].key : r \in DOMAIN out}
        BY <1>2, <2>4
    <2> QED
        BY <2>2, <2>5, <2>6
<1>9. ASSUME NEW r \in DOMAIN out
      PROVE  /\ out[r].groups = Members(rows, out[r].key)
             /\ \A i \in Cols("ExcludeGroup") :
                   out[r].also[i] = LastOf(rows, Cols("GroupBy"), out[r].key, i)
    <2>1. Holds(rows, out[r], n)
        BY <1>6, <1>7
    <2>2. PICK G : MemberPath(G, rows, out[r].key)
        BY MemberFold
    <2>3. out[r].groups = Members(rows, out[r].key)
        BY <1>2, <2>1, <2>2 DEF Holds, MemberPath
    <2>4. \A i \in Cols("ExcludeGroup") :
             out[r].also[i] = LastOf(rows, Cols("GroupBy"), out[r].key, i)
        BY <1>2, <2>1, LastWhole DEF Holds
    <2> QED
        BY <2>3, <2>4
<1>10. GroupsSaid(rows, out)
    BY <1>8, <1>9 DEF GroupsSaid
<1> QED
    BY <1>7, <1>10

LEMMA RowsMerged ==
    ASSUME fsm.rows \in Seq(Row), phase = "done" => fsm.rows = <<>> \/ ~KeyList
    PROVE  NothingLost
<1>1. ASSUME phase = "done", Cols("Key") # {}, ~Mixed, Apart(fsm.rows, Cols("Key"))
      PROVE  KeysSaid(fsm.rows, ByKey(fsm.rows))
    <2>1. ~KeyList => NoListKeys
        BY <1>1 DEF KeyList, Mixed, NoListKeys, Cols
    <2> QED
        BY <1>1, <2>1, KeysWhole DEF ByKey
<1>2. KeysMerged
    BY <1>1 DEF KeysMerged, KeysSaid, KeyOf
<1>3. GroupsComplete
    <2>1. ByKey(fsm.rows) \in Seq(Row)
        BY KeysTyped DEF ByKey
    <2>2. Apart(ByKey(fsm.rows), Cols("GroupBy")) =>
             GroupsSaid(ByKey(fsm.rows), ByGroup(ByKey(fsm.rows)))
        BY <2>1, GroupsWhole
    <2> QED
        BY <2>2 DEF GroupsComplete, GroupsSaid, GroupOf
<1> QED
    BY <1>2, <1>3 DEF NothingLost

\* Merging rows by key and by group loses nothing: one row for each key and one group for
\* each of theirs, lists in the order of the rows, elsewhere the last value that is not
\* empty; for every template and every text that ParseTextToDicts takes to the end, as long
\* as keys that differ still differ when they are joined (Apart) and no list is filled up
\* (Mixed), alone and beside the command's shell (_ProccessKey, _ProccessGroupBy).
THEOREM NothingLostAlways == (FsmSpec => []NothingLost) /\ (AgentSpec => []NothingLost)
<1>1. FsmInit => FsmInv
    BY FsmBegins
<1>2. FsmInv /\ [FsmNext]_fsmVars => FsmInv'
    BY FsmSteps
<1>3. FsmInv => NothingLost
    <2> SUFFICES ASSUME FsmInv PROVE NothingLost
        OBVIOUS
    <2>1. fsm.rows \in Seq(Row)
        BY EngineParts DEF FsmInv, Rests
    <2> QED
        BY <2>1, RowsMerged DEF FsmInv
<1>4. AgentInit => FsmInv
    BY FsmBegins DEF AgentInit, FsmRests
<1>5. [AgentNext]_<<turn, shellVars, fsmVars>> => [FsmNext]_fsmVars
    BY DEF AgentNext
<1> QED
    BY <1>1, <1>2, <1>3, <1>4, <1>5, PTL DEF FsmSpec, AgentSpec

-----------------------------------------------------------------------------
(* The agent.                                                              *)

\* The session on the shell and the template engine keep the types of their records,
\* whichever runs (Session, ReadBuffer, TextFSM.ParseText).
THEOREM AgentTypes == AgentSpec => []AgentTypeOK
<1>1. AgentInit => ShellTyped /\ FsmInv
    BY TypedBegins, FsmBegins DEF AgentInit, FsmRests, ShellRests
<1>2. ShellTyped /\ [ShellNext]_shellVars => ShellTyped'
    BY TypedSteps
<1>3. FsmInv /\ [FsmNext]_fsmVars => FsmInv'
    BY FsmSteps
<1>4. [AgentNext]_<<turn, shellVars, fsmVars>> => [ShellNext]_shellVars /\ [FsmNext]_fsmVars
    BY DEF AgentNext
<1>5. ShellTyped /\ FsmInv => AgentTypeOK
    BY TypedMeans, FsmInvMeans DEF AgentTypeOK
<1> QED
    BY <1>1, <1>2, <1>3, <1>4, <1>5, PTL DEF AgentSpec

\* The enable password is executed only by a device that asked for it, in the behaviours
\* that run the shell and in those that run the engine (enable of Base).
THEOREM AgentSecret ==
    ASSUME ~Late
    PROVE  AgentSpec => SecretOnlyAsked
<1>1. AgentInit => ShellInv
    BY ShellBegins DEF AgentInit, ShellRests
<1>2. ShellInv /\ [ShellNext]_shellVars => ShellInv'
    BY ShellSteps
<1>3. ShellInv /\ [ShellNext]_shellVars =>
        [(stdin # <<>> /\ stdin' = Tail(stdin) /\ Head(stdin).is \in Passwords) => dev.asked]_shellVars
    BY OnlyAsked
<1>4. [AgentNext]_<<turn, shellVars, fsmVars>> => [ShellNext]_shellVars
    BY DEF AgentNext
<1> QED
    BY <1>1, <1>2, <1>3, <1>4, PTL DEF AgentSpec, SecretOnlyAsked

\* What is taken for an answer is one, in the behaviours that run the shell and in those
\* that run the engine (exec_cmd, enable of Base).
THEOREM AgentAnswers ==
    ASSUME ~Late, Steady
    PROVE  AgentSpec => OwnAnswer
<1>1. AgentInit => ShellInv /\ InOrder
    BY ShellBegins, OrderBegins DEF AgentInit, ShellRests
<1>2. ShellInv /\ InOrder /\ [ShellNext]_shellVars => (ShellInv /\ InOrder)'
    BY ShellSteps, OrderSteps
<1>3. ShellInv /\ InOrder /\ [ShellNext]_shellVars =>
        [~ahead =>
           /\ ses.wait = "own" /\ ses'.wait = None /\ ses'.task # NotAsked /\ dev.mode # Gone
                => \E i \in DOMAIN buf'.got : buf'.got[i] = Output(Now.is)
           /\ ses.wait = "moving" /\ ses'.wait = None /\ ses'.todo = <<>> /\ ses'.task = NotAsked
                /\ arriving' # arriving => sent = <<>> /\ stdin = <<>>]_shellVars
    BY OwnOutput, MoveRefused
<1>4. [AgentNext]_<<turn, shellVars, fsmVars>> => [ShellNext]_shellVars
    BY DEF AgentNext
<1> QED
    BY <1>1, <1>2, <1>3, <1>4, PTL DEF AgentSpec, OwnAnswer

\* Commands run where their tasks asked for, in the behaviours that run the shell and in those
\* that run the engine (_handle_cmd of Session, switch_vsys and switch_mode of Base).
THEOREM AgentRuns ==
    ASSUME ~Late, Steady
    PROVE  AgentSpec => [](~ahead => RunsWhereAsked)
<1>1. AgentInit => ShellInv /\ InOrder /\ InPlace
    BY ShellBegins, OrderBegins, PlaceBegins DEF AgentInit, ShellRests
<1>2. ShellInv /\ InOrder /\ InPlace /\ [ShellNext]_shellVars => (ShellInv /\ InOrder /\ InPlace)'
    BY ShellSteps, OrderSteps, PlacedSteps
<1>3. InPlace => (~ahead => RunsWhereAsked)
    BY PlaceMeans
<1>4. [AgentNext]_<<turn, shellVars, fsmVars>> => [ShellNext]_shellVars
    BY DEF AgentNext
<1> QED
    BY <1>1, <1>2, <1>3, <1>4, PTL DEF AgentSpec
=============================================================================
