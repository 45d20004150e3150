----------------------------- MODULE MCExchange -----------------------------
(* Small instances of Exchange for TLC.                                      *)
EXTENDS Exchange

Plain == [supportBigNumbers |-> FALSE, bigNumberStrings |-> FALSE, decimalNumbers |-> FALSE,
          dateStrings |-> {}, timezone |-> "local", rowsAsArray |-> FALSE, nestTables |-> "no",
          typeCast |-> "true", jsonStrings |-> FALSE]

Other == [supportBigNumbers |-> TRUE, bigNumberStrings |-> TRUE, decimalNumbers |-> TRUE,
          dateStrings |-> {"DATE"}, timezone |-> "Z", rowsAsArray |-> FALSE, nestTables |-> "no",
          typeCast |-> "next", jsonStrings |-> TRUE]

(* "d" is "a" with decimalNumbers, for the queries that share a parser.      *)
MCConfig ==
    [c \in Conns |-> CASE c = "a" -> Plain
                       [] c = "b" -> Other
                       [] c = "d" -> [Plain EXCEPT !.decimalNumbers = TRUE]]

Col(name, type) ==
    [name |-> name, table |-> "t", type |-> type, charset |-> "utf8", unsigned |-> FALSE,
     decimals |-> 0, format |-> ""]

Time(neg, days, h, mi, s, us) == [neg |-> neg, days |-> days, h |-> h, mi |-> mi, s |-> s, us |-> us]

NullRow(count) == [i \in 1..count |-> <<>>]

Ints ==
    [cols |-> <<Col("t", "TINY"), [Col("ut", "TINY") EXCEPT !.unsigned = TRUE], Col("s", "SHORT"),
                Col("m", "INT24"), [Col("l", "LONG") EXCEPT !.unsigned = TRUE], Col("y", "YEAR"),
                Col("b", "LONGLONG"), Col("v", "VARCHAR")>>,
     rows |-> <<<< <<-3>>, <<17>>, <<-150>>, <<-70000>>, <<150000>>, <<399>>, <<2000000>>, <<<<1, 2>>>> >>,
                << <<9>>, <<>>, <<7>>, <<>>, <<3>>, <<>>, <<-123456>>, <<>> >>,
                << <<>>, <<0>>, <<>>, <<0>>, <<>>, <<0>>, <<>>, << <<>> >> >>,
                NullRow(8) >>]

Reals ==
    [cols |-> <<Col("f", "FLOAT"), Col("d", "DOUBLE"), Col("n", "DECIMAL"), Col("v", "VARCHAR")>>,
     rows |-> << << << <<15, 1>> >>, << <<1234, 2>> >>, << <<125, 3>> >>, << <<4>> >> >>,
                 << <<>>, << <<12345, 0>> >>, <<>>, << <<5, 6, 7>> >> >> >>]

Day == Parts(11, 2, 1, 0, 0, 0, 0)

Dates ==
    [cols |-> <<Col("d", "DATE"), [Col("dt", "DATETIME") EXCEPT !.decimals = 1],
                Col("ts", "TIMESTAMP"), Col("ti", "TIME"), Col("v", "VARCHAR")>>,
     rows |-> << << <<Day>>, <<Parts(11, 2, 1, 2, 1, 3, 70)>>, <<Parts(11, 2, 2, 1, 3, 59, 0)>>,
                    <<Time(TRUE, 1, 2, 3, 4, 57)>>, << <<1>> >> >>,
                 << <<>>, <<Parts(12, 1, 1, 0, 2, 0, 10)>>, <<Parts(12, 1, 1, 0, 1, 0, 0)>>,
                    <<Time(FALSE, 0, 0, 0, 0, 0)>>, <<>> >>,
                 << <<Parts(12, 1, 2, 0, 0, 0, 0)>>, <<>>, <<Parts(12, 1, 1, 1, 3, 0, 0)>>,
                    <<Time(FALSE, 40, 1, 0, 0, 0)>>, << <<2>> >> >> >>]

Texts ==
    [cols |-> <<Col("a", "VARCHAR"), [Col("a", "BLOB") EXCEPT !.charset = "binary", !.table = "u"],
                [Col("j", "JSON") EXCEPT !.charset = "binary"],
                [Col("k", "BLOB") EXCEPT !.format = "json"],
                [Col("x", "VECTOR") EXCEPT !.charset = "binary"], Col("e", "VARCHAR")>>,
     rows |-> << << << <<1, 2, 3>> >>, << [i \in 1..17 |-> i] >>, << <<7>> >>, << <<8, 9>> >>,
                    << <<1, 2, 3, 1, 4, 5, 6, 0>> >>, << <<>> >> >>,
                 << <<>>, << <<>> >>, <<>>, <<>>, << <<>> >>, << <<5>> >> >> >>]

(* The same columns of other tables.                                         *)
Others == [cols |-> [i \in 1..6 |-> [Texts.cols[i] EXCEPT !.table = IF i < 4 THEN "t" ELSE "u"]],
           rows |-> Texts.rows]

MCTables == ("others" :> Others) @@ ("ints" :> Ints) @@ ("reals" :> Reals) @@ ("dates" :> Dates) @@ ("texts" :> Texts)

None == << >>
AllDates == {"DATE", "DATETIME", "TIMESTAMP"}

Asked(c, proto, over, table) ==
    [static : BOOLEAN, conn : {c}, proto : proto, over : {over}, table : {table}]

Both == {"text", "binary"}

MCQueries ==
    UNION {UNION {Asked(c, Both, None, table) : c \in {"a", "b"}, table \in {"ints", "reals", "dates", "texts"}},
           UNION {Asked("a", Both, [nestTables |-> nest], table) : nest \in {"true", "_"}, table \in {"texts", "others"}},
           UNION {Asked("a", Both, [rowsAsArray |-> TRUE], table) : table \in {"ints", "texts"}},
           Asked("a", Both, [supportBigNumbers |-> TRUE], "ints"),
           UNION {Asked("a", Both, [timezone |-> zone], "dates") : zone \in {"+00:02", "-01:00"}},
           Asked("a", Both, [dateStrings |-> AllDates], "dates"),
           Asked("b", Both, [timezone |-> "local"], "dates"),
           UNION {Asked(c, Both, [typeCast |-> "string"], "dates") : c \in {"a", "b"}},
           Asked("a", {"text"}, [typeCast |-> "string"], "ints"),
           Asked("a", {"text"}, [typeCast |-> "false"], "reals"),
           Asked("b", {"text"}, [typeCast |-> "buffer"], "ints")}

MCLaterQueries ==
    {q \in MCQueries :
        /\ ~q.static
        /\ \/ q.table = "dates" /\ q.proto = "binary" /\ q.over \in {None, [timezone |-> "local"]}
           \/ q.table = "texts" /\ q.over = [nestTables |-> "true"]
           \/ q.table = "reals" /\ q.over = None /\ q.proto = "text"}

(* Two queries that differ in nothing their options say: the first switches  *)
(* off what its connection has on.                                           *)
MCSharedQueries ==
    Asked("d", {"text"}, [decimalNumbers |-> FALSE], "reals") \union Asked("a", {"text"}, None, "reals")

MCZones == ("X" :> [at |-> 0, before |-> 0, after |-> 0]) @@
           ("Y" :> [at |-> 571, before |-> 4, after |-> 6])

-----------------------------------------------------------------------------
(* Requests.                                                                 *)
JsNumber(n) == [num |-> n]
JsBigInt(n) == [bigint |-> n]
JsString(s) == [str |-> s]
JsDate == [date |-> <<138, 7, 5>>]
JsObject == [json |-> <<7>>]

Untyped ==
    {JsNumber(3), JsNumber(-150), [dbl |-> <<15, 1>>], JsBigInt(SafeWord * Word), JsBigInt(-7),
     [bool |-> TRUE], JsString(<<>>), JsString([i \in 1..17 |-> i]), [buf |-> <<1, 2>>], JsObject,
     JsDate, Null, [undefined |-> TRUE]}

TypedAs(types, values, unsigned) ==
    {Typed(type, v, u) : type \in types, v \in values, u \in unsigned}

Numbers(set) == {JsNumber(n) : n \in set}

Clocks == {JsString(<<0, 5, Colon, 0, 3, Colon, 5, 9>>),
           JsString(<<Minus, 1, 2, Colon, 0, 1, Colon, 0, 0, Dot, 5>>), JsString(<<1>>)}

TypedOnes ==
    UNION {
        TypedAs({"TINY", "YEAR"}, Numbers({-11, -10, 9, 10, 19, 20, 200}), BOOLEAN),
        TypedAs({"SHORT", "INT24", "LONG", "LONGLONG"},
                {JsNumber(-201), JsBigInt(1281000), JsString(<<Minus, 4>>), JsString(<<Dot>>)}, BOOLEAN),
        TypedAs({"DOUBLE", "FLOAT", "DECIMAL", "TIME", "DATE"}, Numbers({12}), {FALSE}),
        TypedAs({"TIME"}, Numbers({-36005, 0, 128430}) \union Clocks, {FALSE}),
        TypedAs(TEMPORAL_TYPES, {JsDate}, {FALSE}),
        TypedAs({"ENUM", "VECTOR", "STRING", "JSON", "BLOB", "TIMESTAMP"}, {JsString(<<1, 2>>)}, {FALSE}),
        TypedAs({"JSON"}, {JsObject}, {FALSE}),
        TypedAs({"LONG", "JSON"}, {Null}, {TRUE})}

Plainly ==
    [command |-> "execute", id |-> 21, sql |-> <<>>, params |-> <<>>, hints |-> <<>>,
     attributes |-> <<>>, useAttributes |-> FALSE, timezone |-> "local", jsonAsString |-> FALSE]

Executed(params) ==
    [Plainly EXCEPT !.params = params, !.hints = [i \in DOMAIN params |-> <<>>]]

Queried == [Plainly EXCEPT !.command = "query", !.sql = <<5, 6, 7>>]

Named(values) == [i \in DOMAIN values |-> [name |-> [j \in 1..i |-> 1], value |-> values[i]]]

Nulls(count) == [i \in 1..count |-> Null]

PlaceholderTypes ==
    {<<>>} \union {<<[type |-> t, unsigned |-> u]>> :
                      t \in {"TINY", "SHORT", "LONGLONG", "DOUBLE"}, u \in BOOLEAN}

(* NULLs on both sides of the bounds of a byte of the bitmap.                *)
SomeNulls ==
    {[i \in 1..n |-> IF i \in nulls THEN Null ELSE JsNumber(i)] :
        n \in {0, 2, 3, 4, 6}, nulls \in SUBSET {1, 3, 4, 6}}

MCRequests ==
    UNION {
        {[Executed(<<v, JsNumber(1)>>) EXCEPT !.hints[1] = type, !.timezone = "Z"] :
            v \in Untyped, type \in PlaceholderTypes},
        {[Executed(<<v, w>>) EXCEPT !.useAttributes = u, !.timezone = "+00:02", !.jsonAsString = js] :
            v \in TypedOnes, w \in {Null, JsObject}, u \in BOOLEAN, js \in BOOLEAN},
        {[r EXCEPT !.attributes = Named(<<v>>), !.useAttributes = u, !.timezone = zone] :
            r \in {Plainly, Queried}, v \in Untyped \union TypedOnes, u \in BOOLEAN,
            zone \in {"local", "Z"}},
        {[Executed(p) EXCEPT !.attributes = Named(Nulls(k)), !.useAttributes = k > 0] :
            p \in SomeNulls, k \in 0..2},
        {[Queried EXCEPT !.attributes = Named(p), !.useAttributes = u] : p \in SomeNulls, u \in BOOLEAN},
        {[Queried EXCEPT !.attributes = [i \in 1..n |-> [name |-> <<i>>, value |-> Null]],
                         !.useAttributes = TRUE] : n \in {14, 15, 16}}}

MCFewRequests == {[Executed(<<JsNumber(1)>>) EXCEPT !.hints = << <<>> >>]}

=============================================================================
