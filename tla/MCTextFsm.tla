----------------------------- MODULE MCTextFsm -----------------------------
(***************************************************************************)
(* Templates and texts for TextFsm: three columns, with options chosen to  *)
(* interact, and one machine for each operator of the engine.              *)
(***************************************************************************)
EXTENDS TextFsm, FiniteSets

Rule(on, takes, line, record, to) ==
  [on |-> on, takes |-> takes, line |-> line, record |-> record, to |-> to]
Takes(on, col) == Rule(on, <<col>>, "Next", "NoRecord", "")
Does(on, op)   == Rule(on, <<>>, "Next", op, "")
Goes(on, to)   == Rule(on, <<>>, "Next", "NoRecord", to)

\* Column 1 is captured at a, column 2 at b; c records, d clears.
Plain == [{"Start"} -> {<<Takes({"a"}, 1), Takes({"b"}, 2), Does({"c"}, "Record"), Does({"d"}, op)>>
                          : op \in {"Clear", "Clearall"}}]
PlainOptions ==
  {<<x, y>> : x \in {{}, {"Filldown"}, {"TmpFilldown"}, {"Key"}, {"GroupBy"}},
              y \in {{}, {"Fillup"}, {"Required"}, {"List"}, {"List", "Required"}, {"ExcludeGroup"}}}
\* Keys of two columns, keys that collect a list, and lists that are filled up.
KeyOptions ==
  {<<{"Key"}, {"Key"}>>, <<{"GroupBy"}, {"GroupBy"}>>,
   <<{"Key", "List"}, {}>>, <<{}, {"GroupBy", "List"}>>,
   <<{"Key"}, {"Fillup", "List"}>>, <<{}, {"GroupBy", "Fillup", "List"}>>}

\* A block from a to c, recorded with one of the operators for blocks.
Blocks == {("Start" :> <<Rule({"a"}, <<1>>, "Next", "NoRecord", "BL_x")>>)
             @@ ("BL_x" :> <<Takes({"b"}, 2), Rule({"c"}, <<>>, "Next", op, to), Goes({"d"}, "Start")>>)
             : op \in {"Record", "RecordLine", "RecordLastMatched", "RecordGroupBy", "RecordPrefixEq",
                       "RecordFirstAndLast"}, to \in {"", "Start"}}
BlockOptions == {<<{"GroupBy", "Filldown"}, {}>>, <<{"Key", "Required", "Filldown"}, {"List"}>>}

\* Raw configuration first, then its parser, and back for the next one.
TwoPass == {("Start" :> <<Goes({"a"}, "BL_RAW_CONF_x")>>)
              @@ ("BL_RAW_CONF_x" :> <<Rule({"b"}, <<1>>, "Next", "NoRecord", "BL_PARSER_x")>>)
              @@ ("BL_PARSER_x" :> <<Takes({"c"}, 2), Rule({"d"}, <<>>, "Next", "RecordAndRawConf", to)>>)
              : to \in {"BL_RAW_CONF_x", "Start"}}

\* Continue hands the line to another state; with "" it stays where it is.
Continues(to) == {("Start" :> <<Rule({"a"}, <<1>>, "Continue", op, to), Takes({"b"}, 1),
                               Goes({"d"}, "EOF")>>)
                    @@ ("BL_x" :> <<Rule({"a", "b"}, <<2>>, "Next", "Record", "Start"), Goes({"c"}, "End"),
                                    Rule({"d"}, <<>>, "Error", "NoRecord", "")>>)
                    : op \in {"NoRecord", "Clear"}}
EofStates == {s @@ ("EOF" :> <<>>) : s \in Continues("BL_x")}

\* Templates _ValidateFSM rejects, and one that groups without ever having had a block.
Broken == {"Start" :> <<Goes({"a"}, "BL_x")>>, "BL_x" :> <<>>,
           ("Start" :> <<>>) @@ ("End" :> <<Does({"a"}, "Record")>>),
           "Start" :> <<Takes({"a"}, 1), Does({"b"}, "RecordGroupBy"), Does({"c"}, "RecordFirstAndLast")>>}

With(options, machines) == {[options |-> o, states |-> s] : o \in options, s \in machines}
AllTemplates == With(PlainOptions \cup KeyOptions, Plain) \cup With(BlockOptions, Blocks)
                  \cup With(BlockOptions, TwoPass \cup Continues("BL_x") \cup EofStates \cup Broken)
StayingTemplates == With({<<{}, {}>>}, Continues("") \cup Continues("BL_x"))

Line(k, v) == [kind |-> k, value |-> v]
Symbols == {Line("a", "x"), Line("a", "x$"), Line("b", "$"), Line("b", ""), Line("c", "x"), Line("d", "x")}
ShortTexts == UNION {[1..n -> Symbols] : n \in 0..3}
LongTexts  == UNION {[1..n -> Symbols] : n \in 0..4}
=============================================================================
