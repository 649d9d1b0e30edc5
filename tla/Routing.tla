------------------------------- MODULE Routing -------------------------------
(***************************************************************************)
(* Start-up, parser, router and shard map together: from the configuration *)
(* file and the text of a statement to the shards that run it, and to the  *)
(* rows that are then where.                                               *)
(***************************************************************************)
EXTENDS Router, QueryParser

CONSTANTS Queries,     \* the statements clients send
          Chars,       \* the bytes (as signed char) of each of the Words
          Schema       \* the columns of each table, in their order

VARIABLES query,       \* the statement being handled
          decision,    \* where it was sent
          stored       \* the rows of the last INSERT that ran, and where

all == <<vars, query, decision, stored>>

(* The djb2 hash; a byte is sign-extended before it is added.              *)
Djb2(key) ==
  LET s == Chars[key]
      hash[i \in 0..Len(s)] ==
        IF i = 0 THEN 5381 % U64 ELSE (hash[i - 1] * 33 + s[i]) % U64
  IN hash[Len(s)]

NoQuery == [kind |-> "none"]
NoDecision == Decision("none", 0, <<>>)

(* Parsing depends on nothing but the statement.                           *)
Parsed == [q \in Queries |-> parse_query(q)]

(* handle_query up to the choice of the backend.  Without shards nothing   *)
(* is parsed.                                                              *)
Route(q) ==
  IF map.shards = <<>> THEN Decision("default", 0, <<>>)
  ELSE IF Parsed[q].rc < 0 THEN Decision("error", 0, <<>>)
  ELSE router_decide(map, Parsed[q].result)

(* The backends a decision reaches; 0 is the default backend.              *)
Targets(d) ==
  CASE d.type \in {"single", "scatter"} ->
         {d.targets[i] : i \in DOMAIN d.targets}
    [] d.type = "default" -> {0}
    [] OTHER -> {}

-----------------------------------------------------------------------------
(* The backends: the rows an INSERT stores, and the rows a condition       *)
(* selects.                                                                *)
Rows(q) ==
  {[table |-> q.table, cols |-> IF q.cols = <<>> THEN Schema[q.table] ELSE q.cols,
    vals |-> q.rows[i]] : i \in DOMAIN q.rows}

Lookup(row, name) ==
  LET at == {i \in DOMAIN row.cols : row.cols[i] = name}
  IN IF at = {} THEN Null_ ELSE row.vals[CHOOSE i \in at : TRUE]

Eval(e, row) == IF e.v = "col" THEN Lookup(row, Last(e.names)) ELSE e

Compare(c, left, right) ==
  CASE c.kind = "AEXPR_DISTINCT" -> left # right
    [] c.kind = "AEXPR_IN" -> \E i \in DOMAIN right.args : left = right.args[i]
    [] c.kind = "AEXPR_OP" /\ c.op = "=" -> left = right
    [] c.kind = "AEXPR_OP" /\ c.op = "<>" -> left # right
    [] c.kind = "AEXPR_OP" /\ c.op = ">" ->
         left.v = "int" /\ right.v = "int" /\ left.i > right.i

RECURSIVE Holds(_, _)
Holds(c, row) ==
  CASE c.c = "none" -> TRUE
    [] c.c = "cmp" -> Compare(c, Eval(c.left, row), Eval(c.right, row))
    [] c.c = "bool" /\ c.op = "AND_EXPR" ->
         \A i \in DOMAIN c.args : Holds(c.args[i], row)
    [] c.c = "bool" /\ c.op = "OR_EXPR" ->
         \E i \in DOMAIN c.args : Holds(c.args[i], row)
    [] c.c = "bool" /\ c.op = "NOT_EXPR" -> ~Holds(c.args[1], row)

-----------------------------------------------------------------------------
handle_query(q) ==
  /\ phase = "serve" /\ query = NoQuery
  /\ query' = q
  /\ \E d \in {Route(q)} :
       /\ decision' = d
       /\ stored' = IF q.kind = "insert" THEN Rows(q) \X Targets(d) ELSE stored
       /\ phase' = IF d.type = "undefined" THEN "undefined" ELSE phase
  /\ UNCHANGED <<options, file, line, section, section_arg, cfg, tmp_shards,
                 tmp_rules, map, tok>>

(* The query is over; its ParseResult is freed.                            *)
parse_result_free ==
  /\ phase = "serve" /\ query # NoQuery
  /\ query' = NoQuery /\ decision' = NoDecision
  /\ UNCHANGED <<vars, stored>>

Start == Loading /\ UNCHANGED <<query, decision, stored>>

RoutingInit == Init /\ query = NoQuery /\ decision = NoDecision /\ stored = {}
RoutingNext ==
  Start \/ (\E q \in Queries : handle_query(q)) \/ parse_result_free
RoutingSpec == RoutingInit /\ [][RoutingNext]_all

-----------------------------------------------------------------------------
TypeOK ==
  /\ phase \in {"read", "rules", "list", "serve", "failed", "undefined"}
  /\ line \in 0..Len(file) /\ tok \in Nat
  /\ \A i \in DOMAIN map.shards :
       /\ map.shards[i].key_range_start \in 0..U64 - 1
       /\ map.shards[i].key_range_end \in 0..U64 - 1
  /\ decision.rule \in 0..Len(map.table_rules)
  /\ decision.type \in {"none", "single", "scatter", "local", "default",
                        "error", "undefined"}

(* A file is read as it is written, whatever the order of its sections and *)
(* however often one occurs: while the tables are not full, the map has    *)
(* exactly the shards and tables that have a key, each with the last value *)
(* of its keys, and a rule's shards are the known names of its list, in    *)
(* order; the settings are the last values of their keys under the command *)
(* line's (config_load, and the overrides of main).                        *)
HeaderOf(i) ==
  LET before == {j \in 1..i : file[j].type = "section"}
  IN IF before = {} THEN [name |-> "", arg |-> ""]
     ELSE file[CHOOSE j \in before : \A k \in before : k <= j]

Occurrences(name, arg) ==
  {i \in DOMAIN file : /\ file[i].type = "pair"
                       /\ HeaderOf(i).name = name /\ HeaderOf(i).arg = arg}

Written(name, arg, key, default) ==
  LET at == {i \in Occurrences(name, arg) : file[i].key = key}
  IN IF at = {} THEN default ELSE file[CHOOSE i \in at : \A j \in at : j <= i].val

Named(name) ==
  {h.arg : h \in {HeaderOf(i) : i \in {j \in DOMAIN file :
                     /\ file[j].type = "pair" /\ HeaderOf(j).name = name
                     /\ HeaderOf(j).arg # ""}}}

ShardAsWritten(s) ==
  /\ s.conninfo = Written("shard", s.name, "conninfo", Empty).text
  /\ s.key_range_start =
       strtoull(Written("shard", s.name, "key_range_start", Empty))
  /\ s.key_range_end = strtoull(Written("shard", s.name, "key_range_end", Empty))

RuleAsWritten(r) ==
  LET Key(key) == Written("table", r.table_name, key, Empty)
      known == SelectSeq(Key("shards").list, LAMBDA n : n \in Named("shard"))
      names == [i \in DOMAIN r.shards |-> map.shards[r.shards[i]].name]
  IN /\ r.shard_column = Key("shard_column").text
     /\ r.method = IF Key("method").text = "hash" THEN "hash" ELSE "range"
     /\ r.broadcast <=> Key("broadcast").text = "true"
     /\ IF Key("shards").text # ""
        THEN IsPrefix(names, known)
             /\ Len(names) = Min({Len(known), Len(map.shards)})
        ELSE ToSet(names) = IF r.broadcast THEN Named("shard") ELSE {}

SettingsAsWritten ==
  /\ cfg.listen_port = IF options.port > 0 THEN options.port
                       ELSE Written("global", "", "listen_port",
                                    [num |-> config_default.listen_port]).num
  /\ \/ file = NoFile
     \/ map.pool_size = Written("pool", "", "default_pool_size",
                            [num |-> config_default.default_pool_size]).num
  /\ cfg.backend_conninfo =
       IF options.backend # "" THEN options.backend
       ELSE Written("backend", "", "conninfo",
                    [text |-> config_default.backend_conninfo]).text

ConfiguredAsWritten ==
  phase = "serve" /\ query = NoQuery /\ stored = {} =>
    /\ SettingsAsWritten
    /\ Cardinality(Named("shard")) < MAX_SHARDS =>
         /\ {map.shards[i].name : i \in DOMAIN map.shards} = Named("shard")
         /\ \A i \in DOMAIN map.shards : ShardAsWritten(map.shards[i])
         /\ Cardinality(Named("table")) < MAX_TABLES =>
              /\ {map.table_rules[i].table_name : i \in DOMAIN map.table_rules}
                 = Named("table")
              /\ \A i \in DOMAIN map.table_rules :
                   RuleAsWritten(map.table_rules[i])

(* Every decision is about the rule of the statement's table: its targets  *)
(* are shards of that rule (router_decide with the lookups of shard_map),  *)
(* and a key that decides has been given a value by the parser.            *)
RouteSound ==
  /\ decision.type # "none" => SoundFor(map, decision)
  /\ decision.rule # 0 =>
       Keyed(SecondPass(Parsed[query].result,
                        map.table_rules[decision.rule].shard_column))

(* What an INSERT stored is found again: a SELECT whose condition holds of *)
(* the row reads a shard that has it, and an UPDATE or DELETE reaches every*)
(* shard that has it.  The condition is a conjunction of comparisons of    *)
(* columns with literals of the row's types: what                          *)
(* extract_shard_key_from_where and the second pass over an INSERT find,   *)
(* and router_decide and the lookups make of it.                           *)
Reads(q, table) ==
  \/ q.kind = "select" /\ q.from = <<table>>
  \/ q.kind \in {"update", "delete"} /\ q.table = table

RECURSIVE Plain(_, _)
Plain(c, row) ==
  CASE c.c = "none" -> TRUE
    [] c.c = "cmp" -> /\ c.kind = "AEXPR_OP"
                      /\ Eval(c.left, row).v = Eval(c.right, row).v
    [] c.c = "bool" -> /\ c.op = "AND_EXPR"
                       /\ \A i \in DOMAIN c.args : Plain(c.args[i], row)

Found(row) ==
  LET at == {t \in 0..Len(map.shards) : <<row, t>> \in stored}
  IN IF query.kind = "select" THEN at \cap Targets(decision) # {}
     ELSE at \subseteq Targets(decision)

OneRow == \A a, b \in stored : a[1] = b[1]

StoredIsFound ==
  OneRow /\ phase = "serve" => \A s \in stored :
    (/\ Reads(query, s[1].table)
     /\ Plain(query.where, s[1]) /\ Holds(query.where, s[1]))
    => Found(s[1])

(* The same of every condition a client may send, on a row that has a      *)
(* literal for every column (violated: a key inside OR or NOT, or compared *)
(* with IS DISTINCT FROM, is taken for the row's).                         *)
Complete(row) ==
  \A i \in DOMAIN Schema[row.table] :
    Lookup(row, Schema[row.table][i]).v \in {"int", "str"}

EveryReadFinds ==
  OneRow /\ phase = "serve" => \A s \in stored :
    Complete(s[1]) /\ Reads(query, s[1].table) /\ Holds(query.where, s[1])
    => Found(s[1])

(* The scanner finds in the text what a parser would find in the tree: a   *)
(* value ends where it ends, a key is found if and only if the object (or, *)
(* recursively, anything below it) has it, and it is the same value.       *)
ScannedKeys == {"stmts", "stmt", "A_Expr", "BoolExpr", "args", "name", "sval",
                "String", "ival", "items", "relname", "A_Const", "cols"}

Agrees(t, p, member) ==
  IF p = NULL THEN member = Absent
  ELSE /\ member # Absent
       /\ SubSeq(t, p, p + Len(Text(member)) - 1) = Text(member)

ExactAt(n, keys) ==
  LET t == Text(n) \o <<P(",")>>
  IN /\ json_skip_value(t, 1) = Len(t)
     /\ \A key \in keys : Agrees(t, json_find_key(t, 1, key), Member(n, key))

ExactOn ==
  [q \in {p \in Queries : p.kind # "syntax_error"} |->
     LET t == Text(Tree(q))
     IN /\ \A n \in Nodes(Tree(q)) : ExactAt(n, ScannedKeys)
        /\ \A key \in ScannedKeys :
             Agrees(t, json_find_key_recursive(t, 1, key),
                    MemberAnywhere(Tree(q), key))]

ScannerExact == query \in DOMAIN ExactOn => ExactOn[query]
=============================================================================
