---------------------------- MODULE MCAlgorithms ----------------------------
(***************************************************************************)
(* The algorithms of LayeredQuery, ValueConversions, LlmStream and         *)
(* AgentRules on every input of a small set: a case is one input, and each *)
(* property speaks of the cases of its algorithm.                          *)
(***************************************************************************)
EXTENDS ValueConversions

G == INSTANCE LayeredQuery
L == INSTANCE LlmStream
R == INSTANCE AgentRules

VARIABLE case

Seqs(S, n) == UNION {[1..k -> S] : k \in 0..n}

-----------------------------------------------------------------------------
(* A query: rows of the parents and a selection below them. *)

Ids == {G!Scalar(1), G!Scalar(2), G!Null}
ParentRows == {G!None} \cup {G!RowOf(i, G!Null, G!Null) : i \in Ids}
ChildRows == {G!None} \cup {G!RowOf(G!Scalar(v), k, G!Scalar(v)) : v \in 1..2, k \in Ids \cup {G!Zero}}

Field(name, kind, list, optional, cor, rows) ==
  [name |-> name, kind |-> kind, list |-> list, optional |-> optional, cor |-> cor, rows |-> rows]
Selected(f, arg, sub) == [field |-> f, arg |-> arg, sub |-> sub]

GrandRows == << <<G!RowOf(G!Scalar(1), G!Scalar(1), G!Scalar(3)), G!RowOf(G!Scalar(2), G!Scalar(2), G!Scalar(4))>>,
                <<G!RowOf(G!Scalar(1), G!Scalar(2), G!Scalar(5))>> >>
ColOf(optional) == Selected(Field("val", "column", FALSE, optional, FALSE, << << >> >>), 1, << >>)
GrandOf(arg) == Selected(Field("grand", "sql", TRUE, FALSE, TRUE, GrandRows), arg, <<ColOf(TRUE)>>)
Subs == {<< >>, <<ColOf(TRUE)>>, <<ColOf(FALSE), GrandOf(1)>>, <<GrandOf(1), GrandOf(2)>>}

Kids(rows) ==
  LET here == \A i \in DOMAIN rows : rows[i].present
  IN {Field("kids", kind, list, optional, cor, <<rows>>) :
        kind \in (IF here THEN {"sql", "static", "list"} ELSE {"list"}),
        list \in BOOLEAN, optional \in BOOLEAN, cor \in BOOLEAN}
     \cup {Field("kids", "direct", list, optional, FALSE, <<rows>>) :
             list \in (IF Len(rows) = 1 THEN BOOLEAN ELSE {TRUE}), optional \in BOOLEAN}

Queries(C) ==
  \E parents \in Seqs(ParentRows, 2) \cup {G!Root}, rows \in Seqs(ChildRows, 2) :
    \E f \in Kids(rows), sub \in Subs :
      /\ parents = G!Root => ~f.cor
      /\ C = [what |-> "query", rows |-> parents, selection |-> Selected(f, 1, sub)]

-----------------------------------------------------------------------------
(* Values. *)

Numbers == {-Half8 - 1, -Half8, -Half4, -Half2, 0, 1, Half2, Half4 - 1, Half4, Half8 - 1, Half8}
Texts == {"plain", "uuid", "date", "base64"}
Atoms == {GNull, <<"boolean", TRUE>>, <<"float", 1>>}
           \cup {<<"number", n>> : n \in Numbers} \cup {<<"string", t>> : t \in Texts}
Few == {GNull, <<"number", 1>>, <<"number", Half8>>, <<"string", "plain">>, <<"string", "uuid">>}
Lists == {<<"list", s>> : s \in Seqs(Few, 2)}
Objects == {<<"object", f>> : f \in UNION {[names -> Few] : names \in SUBSET {"a", "b"}}}
Deep == {<<"list", <<v>> >> : v \in Lists \cup Objects} \cup {<<"object", [a |-> v]>> : v \in Lists}

BaseKinds == {"Int", "Float", "String", "Binary", "Datetime", "Uuid", "Boolean", "Any"}
Type(kind, optional, of) == [kind |-> kind, optional |-> optional, of |-> of]
BaseTypes == {Type(k, o, << >>) : k \in BaseKinds, o \in BOOLEAN}
Named(n, t) == [name |-> n, type |-> t]
Nested == {Type("List", FALSE, <<Named("", t)>>) : t \in BaseTypes}
            \cup {Type("Object", FALSE, <<Named("a", t), Named("b", u)>>) : t, u \in BaseTypes}

PyAtoms == {None, <<"nan">>, <<"bool", TRUE>>, <<"float", 1>>, <<"bytes", "plain">>,
            <<"datetime", "date">>, <<"int", 2 * Half8>>}
             \cup {<<"int", n>> : n \in Numbers} \cup {<<"str", t>> : t \in Texts}
PyFew == {None, <<"nan">>, <<"bool", FALSE>>, <<"int", 1>>, <<"int", Half4>>, <<"int", Half8>>,
          <<"str", "plain">>, <<"str", "uuid">>}
Keys == {None, <<"bool", TRUE>>, <<"int", 1>>, <<"str", "1">>, <<"str", "true">>}
Dicts == {<<"dict", s>> : s \in {d \in Seqs([key : Keys, val : PyFew], 2) :
                                   Len(d) = 2 => d[1].key # d[2].key}}
PyLists == {<<tag, s>> : tag \in {"list", "tuple"}, s \in Seqs(PyFew, 2)}
PyValues == PyAtoms \cup PyLists \cup Dicts \cup {<<"list", <<d>> >> : d \in Dicts}
Instances == {<<"instance", <<[key |-> <<"str", "__private">>, val |-> v],
                              [key |-> <<"str", "a">>, val |-> v]>> >> : v \in PyFew}

ParamTypes == {"INT2", "INT4", "INT8", "FLOAT8", "BOOL", "TEXT", "VARCHAR", "UUID", "JSON", "BYTEA",
               "INT4_ARRAY", "INT8_ARRAY", "TEXT_ARRAY"}

Of(type, vals) == {[type |-> type, val |-> v] : v \in vals \cup {NULL}}
Ints(half) == {<<"int", n>> : n \in {-half, 0, half - 1}}
Columns ==
  Of("BOOL", {<<"bool", TRUE>>}) \cup Of("INT2", Ints(Half2)) \cup Of("INT4", Ints(Half4))
    \cup Of("INT8", Ints(Half8)) \cup Of("FLOAT4", {<<"float", 1>>})
    \cup Of("FLOAT8", {<<"float", 1>>, <<"nan">>}) \cup Of("BYTEA", {<<"bytes", "plain">>})
    \cup Of("TIMESTAMP", {<<"timestamp", "date">>}) \cup Of("UUID", {<<"uuid", "uuid">>})
    \cup Of("TEXT", {<<"text", t>> : t \in Texts}) \cup Of("VARCHAR", {<<"text", t>> : t \in Texts})
    \cup Of("JSON", {<<"json", v>> : v \in Few \cup Lists})
    \cup Of("UUID_ARRAY", {<<"array", <<<<"uuid", "uuid">>>> >>})
    \cup Of("INT4_ARRAY", {<<"array", s>> : s \in Seqs(Ints(Half4) \cup {NULL}, 2)})

Values(C) ==
  \/ \E v \in Atoms \cup Lists \cup Objects, t \in BaseTypes \cup Nested :
       C = [what |-> "argument", value |-> v, type |-> t]
  \/ \E v \in Deep, o \in BOOLEAN : C = [what |-> "argument", value |-> v, type |-> Type("Any", o, << >>)]
  \/ \E c \in Columns : C = [what |-> "column", column |-> c]
  \/ \E p \in PyValues : C = [what |-> "json", value |-> p]
  \/ \E p \in PyValues \cup Instances, ty \in ParamTypes : C = [what |-> "param", value |-> p, type |-> ty]

-----------------------------------------------------------------------------
(* Answers and conversations. *)

ArgTexts == {<<"}">>, <<"{", "}">>}
Calls == {[id |-> "1", name |-> "f", args |-> a] : a \in ArgTexts}
Calls2 == {[id |-> "2", name |-> "f", args |-> a] : a \in ArgTexts}
Said == {[text |-> t, calls |-> c, stop |-> s, in |-> 1, out |-> 2] :
           t \in {<< >>, <<"t1">>},
           c \in {<< >>} \cup {<<x>> : x \in Calls} \cup {<<x, y>> : x \in Calls, y \in Calls2},
           s \in {"end_turn", "tool_use", "stop"}}

Use(id) == <<"use", id, "f">>
ToolResult(id) == <<"result", id, "r">>
Msg(role, blocks, id) == [role |-> role, blocks |-> blocks, id |-> id]
Messages == {Msg("user", << <<"text", "t">> >>, ""), Msg("assistant", << <<"text", "u">> >>, ""),
             Msg("assistant", << <<"text", "u">>, Use("1") >>, ""), Msg("assistant", <<Use("1"), Use("2")>>, ""),
             Msg("user", <<ToolResult("1")>>, "1"), Msg("user", <<ToolResult("2")>>, "2"),
             Msg("tool", << <<"text", "r">> >>, "1")}

Answers(C) ==
  \/ \E provider \in {"anthropic", "openai"}, m \in Said, crlf \in BOOLEAN :
       LET wire == Len(L!Wire(provider, m, crlf)) IN
       \E end \in 0..wire : \E cut \in {n \in 0..end : n >= end - 6} :
         /\ m.stop = "stop" <=> provider = "openai"
         /\ C = [what |-> "answer", provider |-> provider, said |-> m, crlf |-> crlf,
                 cut |-> cut, end |-> end]
  \/ \E begins \in {"claude", "gpt-", "o1", "o3", "other"}, slash \in BOOLEAN, system \in {"", "s"},
        msgs \in Seqs(Messages, 3) :
       C = [what |-> "request", begins |-> begins, slash |-> slash, system |-> system, msgs |-> msgs]

-----------------------------------------------------------------------------
(* Rules. *)

PathCaps == {<<"none">>} \cup {<<mode, paths>> : mode \in {"read_only", "read_write"},
                               paths \in Seqs(Seqs({"usr", "tmp", "home"}, 2) \ {<< >>}, 2)}
NameLists == {<<"list", s>> : s \in Seqs({<<"a">>, <<"a", "b">>}, 2)}
CapsOf(kind) ==
  CASE kind = "sql" -> {<<"none">>, <<"read_only">>, <<"read_write">>}
    [] kind = "http" -> {<<"none">>, <<"any">>} \cup NameLists
    [] kind = "filesystem" -> PathCaps
    [] kind \in {"tools", "agents"} -> {<<"none">>, <<"all">>} \cup NameLists

Commands == {<<"g">>, <<"g", " ", "a">>, <<"g", " ", "{", "k", "}">>, << >>, <<"g", " ", "{", "k">>,
             <<"g", " ", " ", "b", "{", "k", "}", "{", "q", "}">>}
Templates == Seqs({<<"{", "q", "}">>, <<"b">>}, 1)
ArgValues == {<<"null">>, <<"bool", TRUE>>, <<"bool", FALSE>>, <<"text", <<"a">> >>,
              <<"text", <<"a", " ", "a">> >>}
ArgMaps == UNION {[keys -> ArgValues] : keys \in SUBSET {<<"k">>, <<"q">>}}

Globs == {<<"g", "*">>, <<"g", " ", "a">>, <<"g", " ", "a", "*">>, <<"g", " ", "{", "*">>,
          <<"*", "b">>, <<"*", "*", "a">>, << >>}
UpTo2 == {s \in SUBSET Globs : Cardinality(s) <= 2}
Declared == {<< >>} \cup {<<c>> : c \in Commands \cup {<<" ", "g">>, <<"g", " ", "a", "{", "k", "}">>}}
CallArgs == {<< >>} \cup [{<<"k">>} -> {<<"null">>, <<"text", <<"a">> >>, <<"text", <<"b">> >>}]
              \cup [{<<"k">>, <<"q">>} -> {<<"bool", TRUE>>, <<"text", <<"b">> >>}]
Configs == [enabled : BOOLEAN, fallback : BOOLEAN]

Skills(C) ==
  \E command \in Declared, wasm \in BOOLEAN, allow, deny \in UpTo2, args \in CallArgs :
    C = [what |-> "skill", args |-> args,
         skill |-> [tools |-> {[name |-> "t", command |-> command, wasm |-> wasm]},
                    allow |-> allow, deny |-> deny]]

Rules(C) ==
  \/ \E p \in Seqs({"a", "b", "*"}, 4), v \in Seqs({"a", "b"}, 4) :
       C = [what |-> "glob", pattern |-> p, value |-> v]
  \/ \E p \in Seqs({"a", "b", "/", "*"}, 4), v \in Seqs({"a", "b", "/"}, 4) :
       C = [what |-> "scope", pattern |-> p, value |-> v]
  \/ \E kind \in {"sql", "http", "filesystem", "tools", "agents"} :
       \E cap \in CapsOf(kind) : C = [what |-> "capability", kind |-> kind, cap |-> cap]
  \/ Skills(C)
  \/ \E c \in Configs, b \in BOOLEAN : C = [what |-> "run", bwrap |-> b, config |-> c]
  \/ \E command \in Commands, template \in Templates, args \in ArgMaps :
       C = [what |-> "command", command |-> command, template |-> template, args |-> args]
  \/ \E cap \in PathCaps, host \in SUBSET {<<"lib">>}, path \in Seqs({"usr", "tmp", "home"}, 3) :
       C = [what |-> "sandbox", cap |-> cap, host |-> host, path |-> path]

-----------------------------------------------------------------------------

Init == Queries(case) \/ Values(case) \/ Answers(case) \/ Rules(case)
Next == UNCHANGED case
Spec == Init /\ [][Next]_case

\* The skills alone.
SkillSpec == Skills(case) /\ [][Next]_case

Is(what) == case.what = what

\* The layers of graphql/puff_schema.rs join every child to its own parent: what
\* they answer is what asking for each parent alone would.
LayersAgree == Is("query") => G!LayersMatchRows(case.rows, case.selection)

\* A value that goes out and comes back is the same: an argument a resolver
\* returns, a column read through GraphQL and through Python, a document of JSON.
ValuesReadBack ==
  /\ Is("argument") => EchoesAlike(case.value, case.type)
  /\ Is("column") => ColumnsReadAlike(case.column)
  /\ Is("json") => JsonReadsBack(case.value)

\* A parameter of a statement reaches Postgres with its meaning or not at all.
ParamsArrive == Is("param") => ParamArrives(case.value, case.type)

\* A conversation is told to the provider, and its answer heard, whole and in
\* order, however the bytes are cut.
ConversationCrosses ==
  /\ Is("answer") => L!AnswerIsHeard(case.provider, case.said, case.crlf, case.cut, case.end)
  /\ Is("request") => L!RequestTellsAll(case.begins, case.slash, case.system, case.msgs)

\* A rule allows what it says: patterns, scopes, capabilities, command lines and
\* the mounts of the sandbox.
RulesMeanWhatTheySay ==
  /\ Is("glob") => R!GlobIsGlob(case.pattern, case.value)
  /\ Is("scope") => R!ScopeIsTree(case.pattern, case.value)
  /\ Is("capability") => R!ReadAsWritten(case.kind, case.cap) /\ R!ChecksAreOrdered(case.kind, case.cap)
  /\ Is("skill") => R!SkillRunsAllowed(case.skill, case.args)
  /\ Is("run") => R!SandboxIsKept(case.config, case.bwrap)
  /\ Is("command") => R!ArgumentsStayWords(case.command, case.template, case.args)
  /\ Is("sandbox") => R!SandboxAgrees(case.cap, case.host, case.path)

\* "An agent can never execute a command that isn't whitelisted by its loaded
\* skills" (docs/superpowers/specs/2026-03-17-puff-agentic-runtime-design.md:318):
\* the patterns allow what runs.
OnlyWhitelistedRuns ==
  Is("skill") /\ (\A t \in case.skill.tools : t.command # << >> => R!EvenlySpaced(t.command[1])) =>
    R!RunsWhitelisted(case.skill, case.args)
=============================================================================
