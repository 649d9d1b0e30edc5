------------------------------ MODULE MCRouting ------------------------------
(* Files, command lines and statements for the routing runs.               *)
EXTENDS Routing

Word(w) == [text |-> w, num |-> 0, list |-> <<w>>]
Number(n) == [text |-> "number", num |-> n, list |-> <<>>]
Names(l) == [text |-> "names", num |-> 0, list |-> l]
Head_(name, arg) == [type |-> "section", name |-> name, arg |-> arg]
Set(key, val) == [type |-> "pair", key |-> key, val |-> val]
Blank == [type |-> "other"]

Shard1 == <<Head_("shard", "s1"), Set("conninfo", Word("c1")),
            Set("key_range_start", Number(0)), Set("key_range_end", Number(10))>>
Shard2 == <<Head_("shard", "s2"), Set("key_range_end", Number(20)),
            Set("conninfo", Word("c2")), Set("key_range_start", Number(10))>>
Shard3 == <<Head_("shard", "s3"), Set("conninfo", Word("c3")),
            Set("key_range_end", Number(250))>>
Shard4 == <<Head_("shard", "s4"), Set("key_range_end", Number(-1))>>
Moved == <<Blank, Head_("shard", "s1"), Set("conninfo", Word("c4")),
           Set("key_range_start", Number(2))>>
TableT == <<Head_("table", "t"), Set("shard_column", Word("id")),
            Set("shards", Names(<<"s2", "sx", "s1">>))>>
TableU == <<Head_("table", "u"), Set("shard_column", Word("name")),
            Set("method", Word("hash")), Set("shards", Names(<<"s1", "s2">>))>>
TableD == <<Head_("table", "d"), Set("broadcast", Word("true"))>>
TableW == <<Head_("table", "w"), Set("method", Word("hash")),
            Set("shards", Names(<<"s1", "s1", "s1">>))>>
Settings == <<Set("lost", Word("x")), Head_("global", ""),
              Set("listen_addr", Word("::")), Set("listen_port", Number(6000)),
              Set("log_level", Word("loud")), Set("log_level", Word("warn")),
              Head_("pool", ""), Set("default_pool_size", Number(2)),
              Head_("backend", ""), Set("conninfo", Word("c0"))>>

Orders(blocks) == {p \in [1..Cardinality(blocks) -> blocks] :
                     \A i, j \in DOMAIN p : p[i] = p[j] => i = j}

MCFiles ==
  {FlattenSeq(p) \o TableU \o TableD \o Settings :
     p \in Orders({Shard1, Shard2, Moved, TableT})}
  \cup {Settings \o TableW \o Shard1 \o Shard2 \o Moved \o TableU \o TableD,
        TableT \o Shard1 \o Shard2 \o Shard3,
        Shard4 \o Shard1 \o Shard2 \o Shard3 \o TableT \o TableU, TableD \o TableU}

MCOptions ==
  {[path |-> p, port |-> 0, backend |-> "", debug |-> FALSE] :
     p \in {"given", "none", "missing"}}
  \cup {[path |-> "none", port |-> 7000, backend |-> "c9", debug |-> TRUE]}

MCWords == {"a", "b", "c"}
MCChars == [a |-> <<97>>, b |-> <<98, 97>>, c |-> <<-61, -87>>]
MCSchema == [t |-> <<"id", "name">>, u |-> <<"id", "name">>,
             d |-> <<"id", "name">>, n |-> <<"id", "name">>,
             w |-> <<"id", "name">>]

-----------------------------------------------------------------------------
Ints == {0, 1, 5, 12, 25, -1}
id == Col(<<"id">>)
name == Col(<<"name">>)
Op(op, l, r) == Cmp("AEXPR_OP", op, l, r)
Eq(l, r) == Op("=", l, r)
And(c, d) == Bool("AND_EXPR", <<c, d>>)

Conditions ==
  {Eq(id, Int64(i)) : i \in Ints} \cup {Eq(name, Text_(w)) : w \in MCWords}
  \cup {And(Eq(id, Int64(5)), Eq(name, Text_("a"))),
        And(Eq(name, Text_("a")), Eq(id, Int64(5))),
        And(Op(">", id, Int64(1)), And(Eq(id, name), Eq(id, Int64(12)))),
        Bool("OR_EXPR", <<Eq(id, Int64(5)), Eq(id, Int64(12))>>),
        Bool("NOT_EXPR", <<Eq(id, Int64(5))>>),
        Op(">", id, Int64(5)), Op("<>", id, Int64(5)),
        Cmp("AEXPR_DISTINCT", "=", id, Int64(5)),
        Cmp("AEXPR_IN", "=", id, List(<<Int64(5), Int64(12)>>)),
        Eq(Int64(5), id), Eq(Col(<<"t", "id">>), Int64(5)),
        Eq(id, Text_("b")), Eq(id, Call(<<Int64(5)>>)), Eq(id, Null_),
        Always}

Select(from, c) == [kind |-> "select", from |-> from, where |-> c]
Change(kind, table, c) == [kind |-> kind, table |-> table, where |-> c]
Insert(table, cols, rows) ==
  [kind |-> "insert", table |-> table, cols |-> cols, rows |-> rows]
Row(i, w) == <<Int64(i), Text_(w)>>

MCQueries ==
  {Select(<<"t">>, c) : c \in Conditions}
  \cup {Select(<<"u">>, c) : c \in {Eq(name, Text_(w)) : w \in MCWords}
                                   \cup {Eq(id, Int64(5)), Always}}
  \cup {Select(f, Eq(id, Int64(5))) :
          f \in {<<"d">>, <<"n">>, <<"w">>, <<"t", "u">>, <<>>}}
  \cup {Change(k, "t", c) : k \in {"update", "delete"},
          c \in {Eq(id, Int64(0)), Eq(id, Int64(12)), Always}}
  \cup {Insert("t", <<"id", "name">>, <<Row(i, "a")>>) : i \in Ints}
  \cup {Insert("u", <<"id", "name">>, <<Row(5, w)>>) : w \in MCWords}
  \cup {Insert("t", <<"name", "id">>, <<<<Text_("a"), Int64(12)>>>>),
        Insert("t", <<"id", "name">>, <<Row(5, "a"), Row(12, "b")>>),
        Insert("t", <<>>, <<Row(5, "a")>>),
        Insert("t", <<"id", "name">>, <<<<Call(<<Int64(12)>>), Text_("a")>>>>),
        Insert("t", <<"id", "name">>, <<<<Default_, Text_("a")>>>>),
        Insert("t", <<"name">>, <<<<Text_("a")>>>>),
        Insert("d", <<"id", "name">>, <<Row(5, "a")>>),
        Insert("w", <<"id", "name">>, <<Row(5, "a")>>)}
  \cup {[kind |-> k, table |-> "t"] : k \in {"create", "drop"}}
  \cup {[kind |-> k] : k \in {"TransactionStmt", "VariableSetStmt", "CopyStmt",
                              "ExplainStmt", "empty", "syntax_error"}}
=============================================================================
