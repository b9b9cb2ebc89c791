------------------------------ MODULE MIParser ------------------------------
(***************************************************************************)
(* mi_parse.ts and the part of MI2.ts that reads its trees: a line that    *)
(* GDB prints is parsed (parseMI), its results normalised into objects and *)
(* lists, and a stop handed on.  A line is a sequence of characters, where *)
(* a name, a class, a token number counts as one character; a text is a    *)
(* sequence of characters, a byte above ASCII being written as its three   *)
(* octal digits.                                                           *)
(***************************************************************************)
EXTENDS Integers, Sequences, SequencesExt

CONSTANTS Names,      \* variables of results
          Letters,    \* characters that are printed as they are
          MaxText     \* bound on the length of the longer texts

ASSUME ConstantsAssumption == {"reason", "frame"} \subseteq Names /\ MaxText \in Nat

Tokens == {"7"}
ResultClasses == {"done", "running", "connected", "error", "exit"}

-----------------------------------------------------------------------------
(* JavaScript values.  A result is an array of its name and its value. *)

Str(text)  == [js |-> "string", text |-> text]
Arr(items) == [js |-> "array", items |-> items]
Obj(props) == [js |-> "object", props |-> props]
Undefined  == [js |-> "undefined"]
Result(name, value) == Arr(<<Str(<<name>>), value>>)

Truthy(value) == value \notin {Undefined, Str(<<>>)}

Substr(s, n) == SubSeq(s, n + 1, Len(s))
First(s) == IF s = <<>> THEN "" ELSE s[1]

-----------------------------------------------------------------------------
(* parseMI.  Each parser takes `output' and returns what it found and the  *)
(* output that is left.                                                    *)

Found(value, output) == [value |-> value, output |-> output]

\* A newline is not unescaped.
FaultEscapeMap == [r |-> "CR", t |-> "TAB", b |-> "BS", f |-> "FF", v |-> "VT"]
                  @@ [c \in {"\\", "\"", "'"} |-> c] @@ ("0" :> "NUL")

EscapeMap == [n |-> "LF", r |-> "CR", t |-> "TAB", b |-> "BS", f |-> "FF", v |-> "VT"]
             @@ [c \in {"\\", "\"", "'"} |-> c] @@ ("0" :> "NUL")

IsOctal(s) == Len(s) >= 3 /\ \A i \in 1..3 : s[i] \in {"0", "1", "2", "3", "4", "5", "6", "7"}

RECURSIVE ParseString(_)
ParseString(str) ==
    IF str = <<>> THEN <<>>
    ELSE IF str[1] # "\\" THEN <<str[1]>> \o ParseString(Substr(str, 1))
    ELSE IF str[2] \in DOMAIN EscapeMap THEN <<EscapeMap[str[2]]>> \o ParseString(Substr(str, 2))
    ELSE IF IsOctal(Tail(str))
         THEN <<str[2] \o str[3] \o str[4]>> \o ParseString(Substr(str, 4))
    ELSE <<str[2]>> \o ParseString(Substr(str, 2))

\* The place of the quote that ends the string.
RECURSIVE StringEnd(_, _, _)
StringEnd(output, i, escaped) ==
    IF ~escaped /\ output[i] = "\"" THEN i
    ELSE StringEnd(output, i + 1, ~escaped /\ output[i] = "\\")

ParseCString(output) ==
    IF First(output) # "\"" THEN Found(Str(<<>>), output)
    ELSE LET end == StringEnd(output, 2, FALSE)
         IN  Found(Str(ParseString(SubSeq(output, 2, end - 1))), Substr(output, end))

RECURSIVE ParseValue(_), ParseTupleOrList(_), ParseResult(_), ParseCommas(_, _, _)

ParseValue(output) ==
    CASE First(output) = "\""         -> ParseCString(output)
      [] First(output) \in {"{", "["} -> ParseTupleOrList(output)
      [] OTHER                        -> Found(Undefined, output)

ParseItem(kind, output) ==
    IF kind = "value" THEN ParseValue(output) ELSE ParseResult(output)

\* parseCommaValue or parseCommaResult, as often as it finds something.
ParseCommas(kind, items, output) ==
    IF First(output) # "," THEN Found(items, output)
    ELSE LET next == ParseItem(kind, Substr(output, 1))
         IN  IF next.value = Undefined THEN Found(items, next.output)
             ELSE ParseCommas(kind, Append(items, next.value), next.output)

\* A bracket closes what either bracket opened; the closing one is not looked at.
ParseTupleOrList(output) ==
    LET inner  == Substr(output, 1)
        value  == IF First(output) = "[" THEN ParseValue(inner) ELSE Found(Undefined, inner)
        result == ParseResult(value.output)
        Close(kind, first) ==
            LET all == ParseCommas(kind, <<first.value>>, first.output)
            IN  Found(Arr(all.value), Substr(all.output, 1))
    IN  IF First(inner) \in {"}", "]"} THEN Found(Arr(<<>>), Substr(inner, 1))
        ELSE IF Truthy(value.value) THEN Close("value", value)
        ELSE IF result.value # Undefined THEN Close("result", result)
        ELSE Found(Undefined, <<First(output)>> \o result.output)

ParseResult(output) ==
    IF First(output) \notin Names THEN Found(Undefined, output)
    ELSE LET value == ParseValue(Substr(output, 2))
         IN  Found(Result(First(output), value.value), value.output)

NoResult == [resultClass |-> "", results |-> <<>>]
EmptyNode == [token |-> "", outOfBandRecord |-> <<>>, resultRecords |-> NoResult]

\* The first token of the line is the token of the node.
WithToken(node, output) ==
    IF node.token = "" /\ First(output) \in Tokens
    THEN [node EXCEPT !.token = First(output)] ELSE node

WithRecord(node, record) == [node EXCEPT !.outOfBandRecord = Append(@, record)]

SkipToken(output) == Substr(output, IF First(output) \in Tokens THEN 1 ELSE 0)
SkipReturn(output) == Substr(output, IF First(output) = "\r" THEN 1 ELSE 0)

\* The class of an asynchronous record: all that stands before a comma.
ClassEnd(output) ==
    IF "," \in Range(output) THEN SelectInSeq(output, LAMBDA c : c = ",") - 1 ELSE Len(output)

ParseResultRecord(node, output) ==
    LET mark == SkipToken(output)
        results == ParseCommas("result", <<>>, Substr(mark, 2))
    IN  IF First(mark) = "^" /\ First(Tail(mark)) \in ResultClasses
        THEN [WithToken(node, output) EXCEPT
                !.resultRecords = [resultClass |-> mark[2], results |-> results.value]]
        ELSE node

RECURSIVE ParseRecords(_, _)
ParseRecords(node, output) ==
    LET mark    == SkipToken(output)
        body    == Substr(mark, 1)
        end     == ClassEnd(body)
        results == ParseCommas("result", <<>>, Substr(body, end))
        content == ParseCString(body)
    IN  CASE First(mark) \in {"*", "+", "="} ->
               ParseRecords(WithRecord(WithToken(node, output),
                                [isStream |-> FALSE, type |-> First(mark),
                                 asyncClass |-> SubSeq(body, 1, end),
                                 output |-> results.value]),
                            SkipReturn(results.output))
          [] First(output) \in {"~", "@", "&"} ->
               ParseRecords(WithRecord(node, [isStream |-> TRUE, type |-> First(output),
                                              content |-> content.value.text]),
                            SkipReturn(content.output))
          [] OTHER -> ParseResultRecord(node, output)

ParseMI(output) == ParseRecords(EmptyNode, output)

-----------------------------------------------------------------------------
(* MINode.valueOf, by a path of names, indices and "@". *)

FaultSelect(found) == Head(found)

Select(found) == IF Len(found) > 1 THEN Arr(found) ELSE Head(found)

IsList(value) == value.js = "array" /\ value.items # <<>>

Named(value, name) ==
    SelectSeq(value.items, LAMBDA e : IsList(e) /\ e.items[1] = Str(<<name>>))

Step(current, segment) ==
    CASE segment.by = "name" ->
           IF ~IsList(current) \/ Named(current, segment.name) = <<>> THEN Undefined
           ELSE LET pairs == Named(current, segment.name)
                IN  Select([i \in DOMAIN pairs |-> pairs[i].items[2]])
      [] segment.by = "index" ->
           IF IsList(current) /\ segment.index < Len(current.items)
           THEN current.items[segment.index + 1]
           ELSE IF segment.index = 0 THEN current ELSE Undefined
      [] OTHER -> Arr(<<current>>)

RECURSIVE ValueOf(_, _)
ValueOf(start, path) ==
    IF path = <<>> \/ start = Undefined THEN start
    ELSE ValueOf(Step(start, Head(path)), Tail(path))

\* result and record: from the results, or from the first record out of band.
NodeResult(node, path) ==
    IF node.resultRecords = NoResult THEN Undefined
    ELSE ValueOf(Arr(node.resultRecords.results), path)
NodeRecord(node, path) ==
    IF node.outOfBandRecord = <<>> \/ node.outOfBandRecord[1].isStream THEN Undefined
    ELSE ValueOf(Arr(node.outOfBandRecord[1].output), path)

-----------------------------------------------------------------------------
(* MI2: what the results of a command and the parameters of a stop become. *)

IsPair(item) == item.js = "array" /\ Len(item.items) = 2 /\ item.items[1].js = "string"
NameOf(pair) == pair.items[1].text

\* A list that holds a single result is not recognised as a list.
FaultAllSame(items) ==
    Len(items) > 1 /\ \A i \in DOMAIN items : NameOf(items[i]) = NameOf(items[1])

AllSame(items) == \A i \in DOMAIN items : NameOf(items[i]) = NameOf(items[1])

\* The last of several results of one name replaces the others.
FaultGathered(old, value) == value

Gathered(old, value) ==
    IF old.js = "array" THEN Arr(Append(old.items, value)) ELSE Arr(<<old, value>>)

RECURSIVE Normalize(_, _)
Normalize(value, forceObject) ==
    IF value.js # "array" \/ value.items = <<>> THEN value
    ELSE LET items == value.items
             AddTo(props, pair) ==
                 LET name == NameOf(pair)
                     normalized == Normalize(pair.items[2], FALSE)
                 IN  IF name \in DOMAIN props /\ props[name] # Undefined
                     THEN [props EXCEPT ![name] = Gathered(@, normalized)]
                     ELSE (name :> normalized) @@ props
         IN  IF \E i \in DOMAIN items : ~IsPair(items[i])
             THEN Arr([i \in DOMAIN items |-> Normalize(items[i], FALSE)])
             ELSE IF AllSame(items) /\ ~forceObject
             THEN Arr([i \in DOMAIN items |-> Normalize(items[i].items[2], FALSE)])
             ELSE Obj(FoldLeft(AddTo, <<>>, items))

\* The exported twin of normalize, which the unit tests call: of several results of one name
\* it keeps the last, and an empty array is an object.
RECURSIVE NormalizeMI(_)
NormalizeMI(value) ==
    IF value.js # "array" THEN value
    ELSE LET items == value.items
             Put(props, pair) == (NameOf(pair) :> NormalizeMI(pair.items[2])) @@ props
         IN  IF \A i \in DOMAIN items : IsPair(items[i])
             THEN Obj(FoldLeft(Put, <<>>, items))
             ELSE Arr([i \in DOMAIN items |-> NormalizeMI(items[i])])

\* The value of the first result of that name.
Extract(output, name) ==
    LET named == Named(Arr(output), name)
    IN  IF named = <<>> THEN Undefined ELSE named[1].items[2]

StopEvent(output) ==
    [reason |-> IF Truthy(Extract(output, "reason")) THEN Extract(output, "reason")
                ELSE Str(<<"unknown">>),
     frame  |-> Normalize(Extract(output, "frame"), FALSE)]

\* What the caller of sendCommand gets.
Settled(record) ==
    CASE record.resultClass \in {"done", "running"} -> Normalize(Arr(record.results), TRUE)
      [] record.resultClass = "error" /\ record.results # <<>> -> record.results[1].items[2]
      [] OTHER -> Undefined

HandleOutput(node) ==
    [data  |-> Settled(node.resultRecords),
     stops |-> LET stopped == SelectSeq(node.outOfBandRecord,
                       LAMBDA r : ~r.isStream /\ r.asyncClass = <<"stopped">>)
               IN  [i \in DOMAIN stopped |-> StopEvent(stopped[i].output)]]

-----------------------------------------------------------------------------
(* What GDB prints.  A constant has a text; a tuple or a list of results   *)
(* has fields, pairs of a name and a value; a list of values has values.   *)

Const(text)       == [is |-> "const", text |-> text]
Fields(is, pairs) == [is |-> is, fields |-> pairs]
Values(values)    == [is |-> "values", values |-> values]

SeqsOf(V, W) == {<<v>> : v \in V} \cup {<<v, w>> : v \in V, w \in W}
                                  \cup {<<w, v>> : v \in V, w \in W}
FieldsOf(V, W) == SeqsOf(Names \X V, Names \X W)
Compound(V, W) == {Fields("tuple", pairs) : pairs \in FieldsOf(V, W)}
             \cup {Fields("results", pairs) : pairs \in FieldsOf(V, W)}
             \cup {Values(values) : values \in SeqsOf(V, W)}

Small == {<<>>} \cup {<<c>> : c \in Letters}
Flat   == {Const(text) : text \in Small} \cup {Fields("tuple", <<>>), Values(<<>>)}
Nested == Compound(Flat, Flat)
Deep   == Compound(Nested, Flat)
Spelling == [c \in {"\\", "\""} |-> <<"\\", c>>] @@ ("LF" :> <<"\\", "n">>)
            @@ ("BEL" :> <<"\\", "a">>) @@ ("303" :> <<"\\", "3", "0", "3">>)
            @@ ("033" :> <<"\\", "0", "3", "3">>)

Texts == UNION {[1..n -> Letters \cup DOMAIN Spelling] : n \in 0..MaxText}

TextLine(text) ==
    <<"\"">> \o FlattenSeq([i \in DOMAIN text |->
        IF text[i] \in DOMAIN Spelling THEN Spelling[text[i]] ELSE <<text[i]>>]) \o <<"\"">>

Commas(items) == FlattenSeq([i \in DOMAIN items |-> <<",">> \o items[i]])

RECURSIVE ValueLine(_)
FieldLine(pair) == <<pair[1], "=">> \o ValueLine(pair[2])
ValueLine(v) ==
    LET Item(item) == IF v.is = "values" THEN ValueLine(item) ELSE FieldLine(item)
        items == IF v.is = "values" THEN v.values ELSE v.fields
        inner == Commas([i \in DOMAIN items |-> Item(items[i])])
    IN  CASE v.is = "const" -> TextLine(v.text)
          [] v.is = "tuple" -> <<"{">> \o Substr(inner, 1) \o <<"}">>
          [] OTHER          -> <<"[">> \o Substr(inner, 1) \o <<"]">>

RecordLine(r) ==
    IF r.is = "stream" THEN <<r.mark>> \o TextLine(r.text)
    ELSE r.token \o <<r.mark, r.class>>
         \o Commas([i \in DOMAIN r.fields |-> FieldLine(r.fields[i])])

Line(rs) ==
    FlattenSeq([i \in DOMAIN rs |->
        RecordLine(rs[i]) \o IF i < Len(rs) THEN <<"\r">> ELSE <<>>])

Answer(class, fields) ==
    [is |-> "result", token |-> <<"7">>, mark |-> "^", class |-> class, fields |-> fields]
Async(token, mark, class, fields) ==
    [is |-> "async", token |-> token, mark |-> mark, class |-> class, fields |-> fields]
Stream(mark, text) == [is |-> "stream", mark |-> mark, text |-> text]

SmallFields == {<<>>} \cup FieldsOf(Flat, Flat)
Notices == {Stream(mark, text) : mark \in {"~", "@", "&"}, text \in Texts}
      \cup {Async(token, mark, class, fields) :
              token \in {<<>>, <<"7">>}, mark \in {"*", "+", "="},
              class \in {"stopped", "running"}, fields \in SmallFields}
Answers == {Answer(class, fields) : class \in ResultClasses, fields \in SmallFields}
      \cup {Answer("done", fields) : fields \in FieldsOf(Flat \cup Nested, Flat)}
      \cup {Answer("done", <<<<name, value>>>>) : name \in Names, value \in Deep}
      \cup {Answer("done", <<<<name, Const(text)>>>>) : name \in Names, text \in Texts}
Stops == {Async(<<>>, "*", "stopped", <<<<"reason", Const(text)>>, <<"frame", frame>>>>) :
              text \in Small, frame \in Nested}
Short == {Stream("~", text) : text \in Small}
    \cup {Async(token, "*", "running", <<<<"reason", Const(<<>>)>>>>) : token \in {<<>>, <<"7">>}}
Lines == {<<r>> : r \in Notices \cup Answers \cup Stops}
    \cup {<<r, s>> : r \in Short, s \in Short \cup Stops \cup {Answer("done", <<>>)}}

-----------------------------------------------------------------------------
VARIABLES records,    \* what GDB put on the line
          node,       \* the tree that parseMI made of it
          handled     \* what handleOutput passed on

vars == <<records, node, handled>>

Nothing == <<>>

Init == records = <<>> /\ node = Nothing /\ handled = Nothing

GdbPrints == /\ records = <<>>
             /\ records' \in Lines
             /\ UNCHANGED <<node, handled>>

Parse == /\ records # <<>> /\ node = Nothing
         /\ node' = ParseMI(Line(records))
         /\ UNCHANGED <<records, handled>>

Handle == /\ node # Nothing /\ handled = Nothing
          /\ handled' = HandleOutput(node)
          /\ UNCHANGED <<records, node>>

NextLine == /\ handled # Nothing
            /\ records' = <<>> /\ node' = Nothing /\ handled' = Nothing

Next == GdbPrints \/ Parse \/ Handle \/ NextLine

Spec == Init /\ [][Next]_vars

-----------------------------------------------------------------------------
(* What the lines mean, by GDB's grammar and not by the code. *)

Items(v) == CASE v.is = "const"  -> {}
              [] v.is = "values" -> Range(v.values)
              [] OTHER           -> {pair[2] : pair \in Range(v.fields)}

RECURSIVE Parts(_)
Parts(v) == {v} \cup UNION {Parts(item) : item \in Items(v)}

IsAnswer(r) == r.is = "result" /\ r.class \in {"done", "running"}
PartsOf(r)  == IF r.is = "stream" THEN {Const(r.text)}
               ELSE UNION {Parts(pair[2]) : pair \in Range(r.fields)}

\* What parseMI is known to misread: a bell, an octal escape that begins with 0, and a
\* list of values whose first is the empty text.
Misread(v) == \/ v.is = "const" /\ {"BEL", "033"} \cap Range(v.text) # {}
              \/ v.is = "values" /\ v.values # <<>> /\ v.values[1] = Const(<<>>)

\* A list of lists of two values, the first of them a text, is taken for results.
PairList(v) == /\ v.is = "values"
               /\ \A w \in Range(v.values) : /\ w.is = "values" /\ Len(w.values) = 2
                                             /\ w.values[1].is = "const"

Clear(rs)  == \A r \in Range(rs) : \A v \in PartsOf(r) : ~Misread(v)
Listed(rs) == \A r \in Range(rs) : \A v \in PartsOf(r) : v.is = "values" => v.values = <<>> \/ ~PairList(v)

RECURSIVE Tree(_)
Tree(v) ==
    CASE v.is = "const"  -> Str(v.text)
      [] v.is = "values" -> Arr([i \in DOMAIN v.values |-> Tree(v.values[i])])
      [] OTHER           -> Arr([i \in DOMAIN v.fields |->
                                    Result(v.fields[i][1], Tree(v.fields[i][2]))])

TreesOf(r) == Tree(Fields("tuple", r.fields)).items

NodeOf(rs) ==
    LET tokens == SelectSeq(rs, LAMBDA r : r.is # "stream" /\ r.token # <<>>)
        out    == SelectSeq(rs, LAMBDA r : r.is # "result")
        result == SelectSeq(rs, LAMBDA r : r.is = "result")
    IN  [token |-> IF tokens = <<>> THEN "" ELSE tokens[1].token[1],
         outOfBandRecord |-> [i \in DOMAIN out |->
            IF out[i].is = "stream"
            THEN [isStream |-> TRUE, type |-> out[i].mark, content |-> out[i].text]
            ELSE [isStream |-> FALSE, type |-> out[i].mark, asyncClass |-> <<out[i].class>>,
                  output |-> TreesOf(out[i])]],
         resultRecords |-> IF result = <<>> THEN NoResult
                           ELSE [resultClass |-> result[1].class, results |-> TreesOf(result[1])]]

\* parseMI undoes the printing: tokens, classes, nesting, commas and escapes.
ParsesTheGrammar == node # Nothing /\ Clear(records) => node = NodeOf(records)

\* The paths to the constants of a value, each with its text: by the name of a field, and by
\* its place among the fields of that name when there are several.
RECURSIVE Paths(_)
Paths(v) ==
    LET Same(i) == {j \in DOMAIN v.fields : v.fields[j][1] = v.fields[i][1]}
        Place(i) == IF Cardinality(Same(i)) = 1 THEN <<>>
                    ELSE <<[by |-> "index", index |-> Cardinality({j \in Same(i) : j < i})]>>
    IN  CASE v.is = "const"  -> {<<<<>>, v.text>>}
          [] v.is = "values" ->
               UNION {{<<<<[by |-> "index", index |-> i - 1]>> \o p[1], p[2]>> :
                           p \in Paths(v.values[i])} : i \in DOMAIN v.values}
          [] OTHER ->
               UNION {{<<<<[by |-> "name", name |-> v.fields[i][1]]>> \o Place(i) \o p[1], p[2]>> :
                           p \in Paths(v.fields[i][2])} : i \in DOMAIN v.fields}

\* MINode.result and MINode.record find every constant of the line by its path.
PathsLead ==
    node # Nothing /\ Clear(records) /\ Len(records) = 1 /\ records[1].is # "stream" =>
        \A p \in Paths(Fields("tuple", records[1].fields)) :
            Str(p[2]) = IF records[1].is = "result" THEN NodeResult(node, p[1])
                                                    ELSE NodeRecord(node, p[1])

RECURSIVE Leaves(_)
Leaves(value) ==
    CASE value.js = "string"    -> SetToBag({value.text})
      [] value.js = "array"     -> FoldSeq(LAMBDA item, bag : Leaves(item) (+) bag,
                                           EmptyBag, value.items)
      [] value.js = "object"    -> FoldSet(LAMBDA name, bag : Leaves(value.props[name]) (+) bag,
                                           EmptyBag, DOMAIN value.props)
      [] OTHER                  -> EmptyBag

RECURSIVE Constants(_)
Constants(v) ==
    LET Add(item, bag) == Constants(item) (+) bag
    IN  CASE v.is = "const"  -> SetToBag({v.text})
          [] v.is = "values" -> FoldSeq(Add, EmptyBag, v.values)
          [] OTHER           -> FoldSeq(LAMBDA pair, bag : Add(pair[2], bag), EmptyBag, v.fields)

Distinct(v) == v.is \in {"tuple", "results"} =>
                   Cardinality({pair[1] : pair \in Range(v.fields)}) = Len(v.fields)

\* Every constant that GDB prints in an answer reaches the caller, as often as it was
\* printed, though names may repeat and lists be flattened (MI2.ts:183-221); normalizeMI
\* (MI2.ts:52-91) loses none either, as long as no name repeats.
NothingIsLost ==
    handled # Nothing /\ Clear(records) /\ Listed(records) =>
        \A r \in Range(records) : IsAnswer(r) =>
            /\ Leaves(handled.data) = Constants(Fields("tuple", r.fields))
            /\ (\A v \in Parts(Fields("tuple", r.fields)) : Distinct(v)) =>
                   Leaves(NormalizeMI(Arr(node.resultRecords.results)))
                       = Constants(Fields("tuple", r.fields))

\* A value has the shape its reader expects: an object with the fields of a tuple that has
\* two names or more, a list for results of one name.
RECURSIVE HasShape(_, _, _)
HasShape(v, value, top) ==
    LET FieldNames == {pair[1] : pair \in Range(v.fields)}
        AsList(items) == /\ value.js = "array" /\ Len(value.items) = Len(items)
                         /\ \A i \in DOMAIN items : HasShape(items[i], value.items[i], FALSE)
    IN  CASE v.is = "const"    -> value = Str(v.text)
          [] v.is = "values"   -> AsList(v.values)
          [] v.fields = <<>>   -> value = Arr(<<>>)
          [] Cardinality(FieldNames) = Len(v.fields) /\ (top \/ Len(v.fields) > 1) ->
               /\ value.js = "object" /\ DOMAIN value.props = {<<name>> : name \in FieldNames}
               /\ \A pair \in Range(v.fields) : HasShape(pair[2], value.props[<<pair[1]>>], FALSE)
          [] Cardinality(FieldNames) = 1 /\ ~top -> AsList([i \in DOMAIN v.fields |-> v.fields[i][2]])
          [] OTHER -> TRUE

\* GDBBackend finds what it reads (result.bkpt.number, stack, frame.line, ...): answers and
\* the frames of stops keep their shape.
FieldsAreFound ==
    handled # Nothing /\ Clear(records) /\ Listed(records) =>
        /\ \A r \in Range(records) : IsAnswer(r) => HasShape(Fields("tuple", r.fields), handled.data, TRUE)
        /\ records[1] \in Stops => /\ handled.stops # <<>>
                                   /\ HasShape(records[1].fields[2][2], handled.stops[1].frame, FALSE)

=============================================================================
