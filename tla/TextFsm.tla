------------------------------ MODULE TextFsm ------------------------------
(***************************************************************************)
(* The template engine that turns the output of a command into rows        *)
(* (netdriver_textfsm/parser.py): the state machine of a template run over *)
(* the lines of a text, and the merging of its rows by key and group.      *)
(*                                                                         *)
(* A template is a list of value options and, for each state, a list of    *)
(* rules.  A rule matches lines of some kinds and captures the line's      *)
(* value into some columns.  A cell is a sequence: <<>> is None (shown as  *)
(* the empty string), <<x>> a string, more than that a list.  The block    *)
(* record is a sequence of line numbers; rows hold it by reference, as the *)
(* code does.                                                              *)
(***************************************************************************)
EXTENDS Naturals, Sequences, SequencesExt

CONSTANTS Templates,    \* of [options : Seq(SUBSET Options), states : [SUBSET STRING -> Seq(rules)]]
          Texts         \* the texts to parse, sequences of [kind, value]

Options == {"Required", "Filldown", "TmpFilldown", "Fillup", "List", "Key", "GroupBy", "ExcludeGroup"}
LineOps == {"Next", "Continue", "Error"}
RecordOps == {"NoRecord", "Record", "Clear", "Clearall", "RecordLine", "RecordLastMatched",
              "RecordGroupBy", "RecordPrefixEq", "RecordFirstAndLast", "RecordAndRawConf"}
Raw    == {"BL_RAW_CONF_x"}
Parser == {"BL_PARSER_x"}
Block  == {"BL_x"} \cup Raw \cup Parser
Final  == {"End", "EOF"}

\* A rule matches lines of some kinds and captures into columns of the template.
Rules(columns) == [on : SUBSET STRING, takes : Seq(columns), line : LineOps,
                   record : RecordOps, to : STRING]
TextFsmAssumption ==
  /\ \A t \in Templates :
       /\ t.options \in Seq(SUBSET Options)
       /\ \A s \in DOMAIN t.states : s \in STRING /\ t.states[s] \in Seq(Rules(DOMAIN t.options))
  /\ Texts \subseteq Seq([kind : STRING, value : STRING])
ASSUME TextFsmAssumption

VARIABLES template, text,
          phase,        \* "template", "lines", "rejected", "raised" or "done"
          fsm,          \* line, state, values, rows and blocks of the engine
          seen,         \* ghost: where it has scanned a line
          beat,         \* ghost: the parity of the scans, so that none is a stutter
          log           \* ghost: what was captured and cleared

fsmVars == <<template, text, phase, fsm, seen, beat, log>>

Columns  == DOMAIN template.options
Has(o, i) == o \in template.options[i]
Nothing  == [i \in Columns |-> <<>>]
Truthy(c) == c \notin {<<>>, <<"">>}
\* A cell of a row is false only as an empty string or as an empty list.
Full(i, c) == IF Has("List", i) THEN c # <<>> ELSE Truthy(c)

----------------------------------------------------------------------------
(* TextFSMOptions and TextFSMValue: a column has its value, what Filldown and TmpFilldown
   remember of it, and what List has collected. *)

\* AssignVar of the columns a line is captured into, all of them with the same value;
\* Fillup writes upwards to the first row that has a value.
\* Seeded fault: it writes the row above only.
FilledUpOne(rows, cols, x) ==
  [r \in DOMAIN rows |->
     [cells |-> [i \in Columns |-> IF /\ i \in cols /\ Has("Fillup", i) /\ x # ""
                                      /\ r = Len(rows) /\ ~Full(i, rows[r].cells[i])
                                   THEN <<x>> ELSE rows[r].cells[i]],
      block |-> rows[r].block]]
FilledUp(rows, cols, x) ==
  [r \in DOMAIN rows |->
     [cells |-> [i \in Columns |-> IF /\ i \in cols /\ Has("Fillup", i) /\ x # ""
                                      /\ \A s \in r..Len(rows) : ~Full(i, rows[s].cells[i])
                                   THEN <<x>> ELSE rows[r].cells[i]],
      block |-> rows[r].block]]
Assigned(f, cols, x) ==
  [f EXCEPT !.value = [i \in Columns |-> IF i \in cols THEN <<x>> ELSE @[i]],
            !.down = [i \in Columns |-> IF i \in cols /\ Has("Filldown", i) THEN <<x>> ELSE @[i]],
            !.tmp = [i \in Columns |-> IF i \in cols /\ Has("TmpFilldown", i) THEN <<x>> ELSE @[i]],
            !.list = [i \in Columns |-> IF i \in cols /\ Has("List", i) THEN Append(@[i], x) ELSE @[i]],
            !.rows = FilledUp(@, cols, x)]

\* ClearVar and ClearTmpFilldownAndOtherVar of all columns; tmp is what TmpFilldown keeps.
\* Seeded fault: a list lives on.
ClearedKeepsLists(f, tmp) ==
  [f EXCEPT !.on = FALSE, !.tmp = tmp,
            !.value = [i \in Columns |-> IF Has("Filldown", i) THEN f.down[i] ELSE tmp[i]]]
Cleared(f, tmp) ==
  [f EXCEPT !.on = FALSE, !.tmp = tmp,
            !.value = [i \in Columns |-> IF Has("Filldown", i) THEN f.down[i] ELSE tmp[i]],
            !.list = [i \in Columns |-> IF Has("Filldown", i) THEN @[i] ELSE <<>>]]
ClearRecord(f)   == Cleared(f, f.tmp)
ClearTmp(f)      == Cleared(f, Nothing)
ClearAll(f) == [f EXCEPT !.on = FALSE, !.value = Nothing, !.down = Nothing, !.tmp = Nothing,
                         !.list = Nothing]

\* _AppendRecord: a record that lacks a required value is dropped (the last value, since
\* Required is listed before List), one without any value stays under construction.
Skips(f) == \E i \in Columns : Has("Required", i) /\ ~Truthy(f.value[i])
Cells(f) == [i \in Columns |-> IF Has("List", i) THEN f.list[i] ELSE f.value[i]]
Empty(f) == ~Skips(f) /\ Cells(f) = Nothing
Appended(f) ==
  IF Skips(f) THEN ClearRecord(f)
  ELSE IF Empty(f) THEN f
  ELSE ClearRecord([f EXCEPT !.rows = Append(@, [cells |-> Cells(f), block |-> Len(f.blocks)])])

----------------------------------------------------------------------------
(* The block record: the last of f.blocks, extended line by line while f.on. *)

Recorded(f) ==
  IF ~f.on \/ Contains(Last(f.blocks), f.line) THEN f
  ELSE [f EXCEPT !.blocks[Len(f.blocks)] = Append(@, f.line)]
Started(f, lines) == [f EXCEPT !.blocks = Append(@, lines), !.on = TRUE]
FirstLine(f) == <<Head(Last(f.blocks))>>
HasBlock(f) == f.blocks # <<>> /\ Last(f.blocks) # <<>>

\* What _Operations does to the record.  RecordPrefixEq cuts the text of the first line
\* of the block, which keeps its number.
Operated(f, op) ==
  CASE op = "Record"   -> Appended(f)
    [] op = "Clear"    -> ClearTmp(f)
    [] op = "Clearall" -> ClearAll(f)
    [] op = "RecordLine" -> [Appended(Started(f, <<f.line>>)) EXCEPT !.on = FALSE]
    [] op = "RecordLastMatched" -> Appended([f EXCEPT !.blocks[Len(f.blocks)] = Front(@)])
    [] op = "RecordGroupBy" -> [Appended(f) EXCEPT !.on = TRUE]
    [] op \in {"RecordPrefixEq", "RecordFirstAndLast"} -> Started(Appended(f), FirstLine(f))
    [] op = "RecordAndRawConf" -> Appended([f EXCEPT !.parser = f.line, !.line = f.raw])
    [] OTHER -> f
Raises(f, rule) ==
  \/ rule.line = "Error"
  \/ rule.record \in {"RecordLastMatched", "RecordPrefixEq", "RecordFirstAndLast"} /\ ~HasBlock(f)

\* _StateTransition: blocks begin when Start is left for a block state and end when the
\* block states are left; going from the raw configuration to its parser skips the lines
\* parsed before.  Seeded fault: the line is not skipped.
EnteredAgain(f, to) ==
  LET g == CASE f.state = "Start" /\ to \in Block -> Started(f, <<f.line>>)
             [] f.state \in Block /\ to \notin Block -> [f EXCEPT !.on = FALSE]
             [] f.state \in Raw /\ to \in Parser -> [f EXCEPT !.on = FALSE, !.line = f.raw]
             [] OTHER -> f
  IN [g EXCEPT !.state = to]
Entered(f, to) ==
  LET g == CASE f.state = "Start" /\ to \in Block -> Started(f, <<f.line>>)
             [] f.state \in Block /\ to \notin Block -> [f EXCEPT !.on = FALSE]
             [] f.state \in Raw /\ to \in Parser ->
                  [f EXCEPT !.on = FALSE, !.raw = f.line,
                            !.line = IF f.parser > @ THEN f.parser ELSE @]
             [] OTHER -> f
  IN [g EXCEPT !.state = to]

----------------------------------------------------------------------------
(* ParseText *)

\* _ValidateFSM: there is a Start state, the final states have no rules, and every rule
\* leads to a state.
Valid(t) ==
  /\ "Start" \in DOMAIN t.states
  /\ \A s \in Final \cap DOMAIN t.states : t.states[s] = <<>>
  /\ \A s \in DOMAIN t.states : \A i \in DOMAIN t.states[s] :
       LET r == t.states[s][i]
       IN r.line = "Error" \/ r.to \in {""} \cup Final \cup DOMAIN t.states

Loads ==
  /\ phase = "template"
  /\ phase' = IF Valid(template) THEN "lines" ELSE "rejected"
  /\ UNCHANGED <<template, text, fsm, seen, beat, log>>

Running == phase = "lines" /\ fsm.state \notin Final /\ fsm.line <= Len(text)
Position == <<fsm.line, fsm.state, fsm.raw, fsm.parser>>

\* _CheckLine: the first rule of the state that matches, if there is one
Matching == LET rules == template.states[fsm.state]
                on == {i \in DOMAIN rules : text[fsm.line].kind \in rules[i].on}
            IN IF on = {} THEN <<>> ELSE <<rules[CHOOSE i \in on : \A j \in on : i <= j]>>

Proceeds(r) == ~(fsm.on /\ fsm.blocks = <<>>) /\ \A i \in DOMAIN r : ~Raises(Recorded(fsm), r[i])

\* RecordPrefixEq raises as well when the first line of the block has no such character.
ScanRaises ==
  /\ Running
  /\ ~Proceeds(Matching) \/ (Matching # <<>> /\ Matching[1].record = "RecordPrefixEq")
  /\ phase' = "raised"
  /\ UNCHANGED <<template, text, fsm, seen, beat, log>>

Captured(f, rule) == Assigned(f, Range(rule.takes), text[fsm.line].value)
\* The ghost log after a rule: its captures, then what its record operator cleared.
Events(rule) == [i \in DOMAIN rule.takes |-> [of |-> rule.takes[i], is |-> text[fsm.line].value]]
Clears(f, op) == CASE op \in {"NoRecord"} -> <<>>
                   [] op \in {"Clear", "Clearall"} -> <<[of |-> 0, is |-> op]>>
                   [] OTHER -> IF Empty(f) THEN <<>> ELSE <<[of |-> 0, is |-> "Record"]>>

NextLine(f, rule) == IF rule.line = "Continue" \/ f.state \in Final THEN f ELSE [f EXCEPT !.line = @ + 1]
Scan ==
  /\ Running /\ Proceeds(Matching)
  /\ seen' = seen \cup {Position} /\ beat' = 1 - beat
  /\ IF Matching = <<>>
     THEN fsm' = [Recorded(fsm) EXCEPT !.line = @ + 1] /\ UNCHANGED log
     ELSE LET rule == Matching[1]
              f == Captured(Recorded(fsm), rule)
              g == Operated(f, rule.record)
          IN /\ fsm' = NextLine(IF rule.to = "" THEN g ELSE Entered(g, rule.to), rule)
             /\ log' = IF Position \in seen THEN log ELSE log \o Events(rule) \o Clears(f, rule.record)
  /\ UNCHANGED <<template, text, phase>>

----------------------------------------------------------------------------
(* ParseTextToDicts *)

Cols(o) == {i \in Columns : Has(o, i)}
On(row, cols) == [i \in cols |-> row.cells[i]]
Str(c) == IF c = <<>> THEN "" ELSE Head(c)
Strings(row, cols) == [i \in cols |-> Str(row.cells[i])]
\* The strings of a key are put together in the order of the columns.
JoinedKey(strings) ==
  FoldLeftDomain(LAMBDA key, i : IF i \in DOMAIN strings THEN key \o "$" \o strings[i] ELSE key,
                 "", template.options)
HasKey(row, cols, key) == JoinedKey(Strings(row, cols)) = JoinedKey(key)
Newer(i, old, new) == IF Full(i, new) THEN new ELSE old
NewerBlock(old, new) == IF old # 0 /\ new # 0 /\ fsm.blocks[new] # <<>> THEN new ELSE old

\* _ProccessKey: a row is merged into the first one with its key.
\* Seeded fault: an empty value replaces one that is there.
MergedBlank(a, b) ==
  [cells |-> [i \in Columns |-> IF Has("List", i) THEN a.cells[i] \o b.cells[i]
                                ELSE IF Has("Key", i) THEN a.cells[i] ELSE b.cells[i]],
   block |-> NewerBlock(a.block, b.block)]
Merged(a, b) ==
  [cells |-> [i \in Columns |-> IF Has("List", i) THEN a.cells[i] \o b.cells[i]
                                ELSE IF Has("Key", i) THEN a.cells[i]
                                ELSE Newer(i, a.cells[i], b.cells[i])],
   block |-> NewerBlock(a.block, b.block)]
Keyed(out, row) ==
  LET same == {r \in DOMAIN out : HasKey(out[r], Cols("Key"), Strings(row, Cols("Key")))}
  IN IF same = {} THEN Append(out, row)
     ELSE [r \in DOMAIN out |-> IF r \in same THEN Merged(out[r], row) ELSE out[r]]
KeyMerge(rows) == FoldLeft(Keyed, <<>>, rows)
ByKey(rows) == IF Cols("Key") = {} THEN rows ELSE KeyMerge(rows)

\* _ProccessGroupBy: what is neither group nor excluded goes into a list of the group,
\* unless all of it is empty.
Others == Columns \ (Cols("GroupBy") \cup Cols("ExcludeGroup"))
Member(row) == IF \E i \in Others : Full(i, row.cells[i]) THEN <<On(row, Others)>> ELSE <<>>
Fresh(row) == [key |-> Strings(row, Cols("GroupBy")), also |-> On(row, Cols("ExcludeGroup")),
               groups |-> Member(row)]
Joined(g, row) == [g EXCEPT !.also = [i \in DOMAIN @ |-> Newer(i, @[i], row.cells[i])],
                            !.groups = @ \o Member(row)]
Grouped(out, row) ==
  LET same == {r \in DOMAIN out : HasKey(row, Cols("GroupBy"), out[r].key)}
  IN IF same = {} THEN Append(out, Fresh(row))
     ELSE [r \in DOMAIN out |-> IF r \in same THEN Joined(out[r], row) ELSE out[r]]
ByGroup(rows) == FoldLeft(Grouped, <<>>, rows)

\* A list cannot be joined to a key.  A List column that is filled up has strings among its
\* lists: whether they can be joined and added up depends on which of them meet.
KeyList == \E i \in Cols("Key") \cup Cols("GroupBy") : Has("List", i) /\ ~Has("Fillup", i)
Mixed == \E i \in Cols("List") \cap Cols("Fillup") : Cols("Key") # {} \/ Has("GroupBy", i)
Outcomes(f) == IF f.rows = <<>> THEN {"done"}
               ELSE IF KeyList THEN {"raised"}
               ELSE IF Mixed THEN {"raised", "done"} ELSE {"done"}

\* The implicit EOF records, unless the template has an EOF state or the machine is at End;
\* then the rows are merged and grouped.
Ends ==
  /\ phase = "lines" /\ ~Running
  /\ fsm' = IF fsm.state # "End" /\ "EOF" \notin DOMAIN template.states THEN Appended(fsm) ELSE fsm
  /\ phase' \in Outcomes(fsm')
  /\ log' = log \o Clears(fsm, "Record")
  /\ UNCHANGED <<template, text, seen, beat>>

----------------------------------------------------------------------------
Reset == [line |-> 1, state |-> "Start", value |-> Nothing, down |-> Nothing, tmp |-> Nothing,
           list |-> Nothing, rows |-> <<>>, blocks |-> <<>>, on |-> FALSE, raw |-> 1, parser |-> 1]

FsmInit ==
  /\ template \in Templates /\ text \in Texts
  /\ phase = "template" /\ fsm = Reset
  /\ seen = {} /\ beat = 0 /\ log = <<>>

FsmNext == Loads \/ ScanRaises \/ Scan \/ Ends

FsmSpec == FsmInit /\ [][FsmNext]_fsmVars

\* The loop of ParseText awaits nothing: while it has a step it takes it.
FsmFairSpec == FsmSpec /\ WF_fsmVars(FsmNext)

----------------------------------------------------------------------------
(* Properties *)

\* Types: a record takes only captured values, a row refers to a block that exists, and
\* blocks name lines of the text.
FsmTypeOK ==
  /\ phase \in {"template", "lines", "rejected", "raised", "done"}
  /\ fsm.line \in 1..Len(text) + 1 /\ fsm.state \in Final \cup {"Start"} \cup DOMAIN template.states
  /\ fsm.raw \in 1..Len(text) + 1 /\ fsm.parser \in 1..Len(text) + 1
  /\ \A r \in DOMAIN fsm.rows : fsm.rows[r].block \in 0..Len(fsm.blocks)
  /\ \A b \in DOMAIN fsm.blocks : \A i \in DOMAIN fsm.blocks[b] : fsm.blocks[b][i] \in DOMAIN text

\* Parsing ends: no line is scanned again at the same place of the machine, which would
\* repeat for ever (the command's request would never be answered).  Comment at
\* parser.py:1264: Continue does not return to the start of the state.
NeverRescans == [][Scan => Position \notin seen]_fsmVars

\* Every text is parsed to its end, refused or given up with an error.
ParsingEnds == <>(phase \in {"done", "raised", "rejected"})

\* What a row holds, said by what was captured: plain columns forget at every record and
\* clear, TmpFilldown at a clear, Filldown only at Clearall (README of netdriver_textfsm).
Since(clears) == LET ends == {n \in DOMAIN log' : log'[n].of = 0 /\ log'[n].is \in clears /\ n < Len(log')}
                 IN IF ends = {} THEN 0 ELSE CHOOSE n \in ends : \A j \in ends : j <= n
Forgets(i) == IF Has("Filldown", i) THEN {"Clearall"}
              ELSE IF Has("TmpFilldown", i) /\ ~Has("List", i) THEN {"Clearall", "Clear"}
              ELSE {"Clearall", "Clear", "Record"}
Kept(i) == LET all == SelectSeq(SubSeq(log', Since(Forgets(i)) + 1, Len(log')), LAMBDA e : e.of = i)
               vals == [n \in DOMAIN all |-> all[n].is]
           IN IF Has("List", i) \/ vals = <<>> THEN vals ELSE <<Last(vals)>>
RowsByHistory ==
  [][Len(fsm'.rows) > Len(fsm.rows) =>
       \A i \in Columns : Last(fsm'.rows).cells[i] = Kept(i)]_fsmVars

\* A Fillup column has no gap above a value, and a Required one none at all, whatever was
\* cleared, skipped and recorded in between.  Not so for lists: Required asks for the last
\* value, which TmpFilldown keeps longer than the list, and an empty string makes a list but
\* is not written upwards by Fillup.
NoGaps ==
  \A r \in DOMAIN fsm.rows : \A i \in Columns :
    /\ Has("Required", i) /\ ~(Has("List", i) /\ Has("TmpFilldown", i)) =>
         fsm.rows[r].cells[i] # <<>>
    /\ Has("Fillup", i) /\ ~Has("List", i) /\ Truthy(fsm.rows[r].cells[i]) =>
         \A s \in 1..r : Truthy(fsm.rows[s].cells[i])

\* Of the rows with a key: the values of a list one after the other, the members they give
\* a group, and the last value of a column that is not empty.
Bears(row, cols, key) == Strings(row, cols) = key
Lists(rows, key, i) ==
  FoldLeft(LAMBDA got, row : IF Bears(row, Cols("Key"), key) THEN got \o row.cells[i] ELSE got, <<>>, rows)
Members(rows, key) ==
  FoldLeft(LAMBDA got, row : IF Bears(row, Cols("GroupBy"), key) /\ \E i \in Others : Full(i, row.cells[i])
                             THEN Append(got, On(row, Others)) ELSE got, <<>>, rows)
LastOf(rows, cols, key, i) ==
  LET same == {r \in DOMAIN rows : Bears(rows[r], cols, key)}
      full == {r \in same : Full(i, rows[r].cells[i])}
  IN IF full = {} THEN rows[CHOOSE r \in same : \A s \in same : r <= s].cells[i]
     ELSE rows[CHOOSE r \in full : \A s \in full : s <= r].cells[i]

\* What the merging needs to tell the keys of rows apart: no two of them join to the same
\* string, as "x$" and "" do with "x" and "$".
Apart(rows, cols) ==
  \A r, s \in DOMAIN rows :
    JoinedKey(Strings(rows[r], cols)) = JoinedKey(Strings(rows[s], cols)) =>
      Strings(rows[r], cols) = Strings(rows[s], cols)

\* Merging by key loses nothing: one row for each key, in it the concatenated lists and
\* for any other column the last value that is not empty.
KeysMerged ==
  phase = "done" /\ Cols("Key") # {} /\ ~Mixed /\ Apart(fsm.rows, Cols("Key")) =>
    LET out == ByKey(fsm.rows)
        KeyOf(row) == Strings(row, Cols("Key"))
    IN /\ \A r, s \in DOMAIN out : KeyOf(out[r]) = KeyOf(out[s]) => r = s
       /\ {KeyOf(out[r]) : r \in DOMAIN out} = {KeyOf(fsm.rows[n]) : n \in DOMAIN fsm.rows}
       /\ \A r \in DOMAIN out : \A i \in Columns \ Cols("Key") :
            out[r].cells[i] = IF Has("List", i) THEN Lists(fsm.rows, KeyOf(out[r]), i)
                              ELSE LastOf(fsm.rows, Cols("Key"), KeyOf(out[r]), i)

\* Grouping loses nothing either: what a row adds to its group stands in the group, in
\* the order of the rows, and an excluded column has its last value that is not empty.
GroupsComplete ==
  LET rows == ByKey(fsm.rows)
      out == ByGroup(rows)
  IN phase = "done" /\ Cols("GroupBy") # {} /\ ~Mixed /\ Apart(rows, Cols("GroupBy")) =>
       /\ \A r, s \in DOMAIN out : out[r].key = out[s].key => r = s
       /\ {out[r].key : r \in DOMAIN out} = {Strings(rows[n], Cols("GroupBy")) : n \in DOMAIN rows}
       /\ \A r \in DOMAIN out :
            /\ out[r].groups = Members(rows, out[r].key)
            /\ \A i \in Cols("ExcludeGroup") :
                 out[r].also[i] = LastOf(rows, Cols("GroupBy"), out[r].key, i)

\* The rows of ParseTextToDicts are complete, merged by key and by group, as long as
\* different keys stay different when they are joined.
NothingLost == KeysMerged /\ GroupsComplete
=============================================================================
