------------------------------- MODULE MCCli --------------------------------
EXTENDS Migrate

MCDeclares == (<<>> :> {"config", "pin", "tags"}) @@ (<<"serve">> :> {}) @@ MigrateTree
MCRuns == {<<"serve">>} \cup MigrateRuns

MCKind ==
    [config |-> "text", pin |-> "int", tags |-> "list", dir |-> "text", to |-> "int"]
      @@ [f \in {"one", "all", "allow-out-of-order"} |-> "bool"]
MCDefault ==
    [config |-> "etc", pin |-> "0", tags |-> "", dir |-> "migrations", to |-> "0"]
      @@ [f \in {"one", "all", "allow-out-of-order"} |-> "false"]
MCEnvKey ==
    [config |-> "CONFIG", pin |-> "PIN", tags |-> "TAGS", dir |-> "DIR", to |-> "TO", one |-> "ONE", all |-> "ALL"]
      @@ ("allow-out-of-order" :> "ALLOW_OUT_OF_ORDER")

MCIntOf == ("0" :> 0) @@ ("-1" :> -1) @@ ("2" :> 2) @@ ("4" :> 4) @@ ("5" :> 5) @@ ("7" :> 7) @@ ("8" :> 8) @@ ("9" :> 9)
MCEntries == ("" :> <<"">>) @@ ("a,b" :> <<"a", "b">>) @@ ("a," :> <<"a", "">>) @@ ("--" :> <<"--">>)

-----------------------------------------------------------------------------
(* Command lines. *)
Inline(f, v) == [is |-> "set", flag |-> f, value |-> v, words |-> <<"--" \o f \o "=" \o v>>]
Apart(f, v) == [is |-> "set", flag |-> f, value |-> v, words |-> <<"--" \o f, v>>]
Bare(f) == [is |-> "set", flag |-> f, value |-> "true", words |-> <<"--" \o f>>]
Says(w) == [is |-> "word", words |-> <<w>>]
End == [is |-> "end", words |-> <<"--">>]

Given == {<<"pin", "9">>, <<"pin", "x">>, <<"config", "c1">>, <<"config", "gone">>, <<"config", "">>,
          <<"tags", "a,b">>, <<"tags", "a,">>, <<"tags", "">>,
          <<"to", "2">>, <<"to", "0">>, <<"to", "-1">>, <<"to", "huge">>, <<"one", "false">>, <<"one", "maybe">>,
          <<"all", "true">>, <<"dir", "m">>, <<"version", "maybe">>}
Bares == {"config", "pin", "tags", "to", "one", "all", "dir", "allow-out-of-order", "help", "version", "bogus"}
MCSyntax == [w \in {"--" \o g[1] \o "=" \o g[2] : g \in Given} |->
               LET g == CHOOSE g \in Given : w = "--" \o g[1] \o "=" \o g[2] IN [flag |-> g[1], value |-> g[2]]]
            @@ [w \in {"--" \o f : f \in Bares} |->
               [flag |-> CHOOSE f \in Bares : w = "--" \o f, value |-> None]]

AtRoot == {Inline("pin", "9"), Inline("pin", "x"), Apart("pin", "--one"), Inline("config", "c1"),
           Apart("config", "--"), Inline("tags", "a,b"), Inline("tags", "a,"), Inline("tags", ""), Apart("tags", "--")}
OfVerbs == {Inline("to", "2"), Apart("to", "0"), Apart("to", "-1"), Inline("to", "huge"), Apart("to", "--one"),
            Bare("one"), Inline("one", "false"), Inline("one", "maybe"), Bare("all"), Inline("dir", "m"), Apart("dir", "--")}
Words0 == {Says(w) : w \in {"migrate", "up", "down", "create", "x", "help", "version", "-", "serve", "--help", "--version", "--version=maybe", "--bogus"}}
Units == AtRoot \cup OfVerbs \cup Words0 \cup {End}
AtMigrate == <<Says("migrate")>>
Doing(verb) == <<Says("migrate"), Says(verb)>>
Verbs == {"create", "up", "down", "status"}

Short == UNION {{<<>>}, {<<u>> : u \in Units}, Units \X Units}
Lines1 ==
    UNION {Short,
           {AtMigrate \o l : l \in Short},
           {Doing("create") \o <<Says("--dir")>>},
           {Doing(v) \o l : v \in Verbs, l \in Short},
           {<<u>> \o Doing(v) \o l : u \in AtRoot \cup {End}, v \in Verbs, l \in {<<>>} \cup {<<w>> : w \in OfVerbs}},
           {AtMigrate \o <<u, Says(v)>> \o l : u \in AtRoot \cup {End}, v \in Verbs, l \in {<<>>} \cup {<<w>> : w \in OfVerbs}}}

-----------------------------------------------------------------------------
(* Files, environments, dotenv lines. *)
Json(pairs) == [is |-> "json", pairs |-> pairs, text |-> "junk"]
Text(v) == [is |-> "text", text |-> v, pairs |-> <<>>]
Val(type, text) == [type |-> type, text |-> text]
Etc == "etc" :> Json([pin |-> Val("number", "5")])
Files ==
    ("c1" :> Json([pin |-> Val("number", "5"), to |-> Val("string", "4"), one |-> Val("bool", "false")]))
      @@ ("c2" :> Json([config |-> Val("string", "c1"), pin |-> Val("number", "5")]))
      @@ ("c3" :> Json([pin |-> Val("other", "5")])) @@ ("c4" :> Text("junk"))
      @@ ("c5" :> Json([pin |-> Val("string", "x"), tags |-> Val("string", "a,b")]))
      @@ ("locked" :> [is |-> "unreadable", text |-> "", pairs |-> <<>>])
      @@ ("f8" :> Text("8")) @@ ("fx" :> Text("x"))

Pair(key, value) == [is |-> "pair", key |-> key, value |-> value]
Dotenvs ==
    {<<>>, <<[is |-> "blank"], Pair("APP_PIN", "8")>>, <<Pair("APP_PIN", "8"), Pair("APP_PIN", "9")>>,
     <<Pair("APP_PIN", "8"), [is |-> "bad"]>>, <<Pair("APP_PIN_FILE", "f8")>>}

Optional(key, values) == {<<>>} \cup {key :> v : v \in values}
Environments ==
    {a @@ b @@ c @@ t : a \in Optional("APP_PIN", {"7", "x"}),
                        b \in Optional("APP_PIN_FILE", {"f8", "fx", "gone"}),
                        c \in Optional("APP_CONFIG", {"c1", "c2", "c3", "c4", "c5", "gone", "locked", ""}),
                        t \in Optional("APP_TO", {"2"})}

(* Directories and scripts. *)
Sql == <<"x", ";">>
Up(v, name) == Entry("up", v, name, Sql)
Down(v, name) == Entry("down", v, name, Sql)
EntryPool ==
    {Up(1, "a"), Down(1, "a"), Up(2, "a"), Up(2, "b"), Down(2, "b"), Up(0, "a"), Up(3, "Bad"), Entry("stray", 1, "a", Sql),
     [Up(4, "a") EXCEPT !.hidden = TRUE], [Up(4, "a") EXCEPT !.dir = TRUE], Entry("up", 5, "a", <<"sq">>)}
Subsets(n) == UNION {kSubset(k, EntryPool) : k \in 0..n}
Source(entries) == [ok |-> TRUE, entries |-> entries]
NilSource == [ok |-> FALSE, entries |-> {}]
Directories ==
    {<<Source(e)>> : e \in Subsets(3)} \cup {<<Source(e), Source(f)>> : e, f \in Subsets(2)}
    \cup {<<Source({Up(1, "a")}), NilSource>>, <<>>}

Scripts ==
    UNION {SeqOf({"x", ";", "sq", "escape", "nl"}, 4),
           SeqOf({"x", ";", "/", "*", "-", "nl"}, 4),
           {<<a>> \o s \o <<b>> : a, b \in Annotation \cup {" "},
                                   s \in {<<"x", ";", "x", "nl">>, <<"/", "*", "nl">>, <<"bt", ";", "bt", "nl">>,
                                          <<"x", "#", "sq", "nl">>, <<"-", "-", "sq", "nl">>}},
           {<<a, "x", ";", "x", "nl", b, "x", "nl", c>> : a, b, c \in {"begin", "end", "notx"}}}

Base == [units |-> Doing("status"), env |-> "APP_PIN" :> "7", dotenv |-> <<>>, files |-> Files,
         sources |-> <<Source({Up(1, "a")})>>, mysql |-> FALSE, dir |-> {}, now |-> 1]

MCWorlds ==
    <<{[Base EXCEPT !.units = l] : l \in Lines1},
      {[Base EXCEPT !.env = e, !.dotenv = l, !.units = u] :
             e \in Environments, l \in Dotenvs,
             u \in {Doing("up"), <<Inline("pin", "9"), Says("migrate"), Says("up"), Inline("to", "2")>>}},
      {[Base EXCEPT !.env = e, !.files = Etc @@ Files] : e \in Environments},
      {[Base EXCEPT !.sources = s] : s \in Directories},
      {[Base EXCEPT !.sources = <<Source({Entry("up", 1, "a", s)})>>, !.mysql = m] : s \in Scripts, m \in BOOLEAN},
      {[Base EXCEPT !.units = Doing("create") \o l, !.dir = e, !.now = n] :
             l \in {<<Says("a")>>, <<Says("Bad")>>, <<>>, <<Says("a"), Says("b")>>, <<Inline("dir", "m"), Says("b")>>},
             e \in {{}, {Up(1, "a")}, {Up(1, "a"), Down(1, "a")}, {Up(2, "b")}, {Down(1, "b")}}, n \in 1..2}>>
=============================================================================
