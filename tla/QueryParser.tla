----------------------------- MODULE QueryParser -----------------------------
(***************************************************************************)
(* query_parser.c: what the router needs to know of a statement, found by  *)
(* scanning the JSON text of libpg_query's parse tree.                     *)
(***************************************************************************)
EXTENDS Json

-----------------------------------------------------------------------------
(* libpg_query: the tree that pg_query_parse writes for a statement.       *)
(*                                                                         *)
(* A statement is a record: its kind, and the tables, columns, rows and    *)
(* condition it has.  An operand is [v |-> kind, ...]; a condition is a    *)
(* comparison or an AND, OR, NOT of conditions.  Clauses the scanner       *)
(* passes over are stood for by one of them where it could mislead.        *)

Int64(i) == [v |-> "int", i |-> i]
Text_(w) == [v |-> "str", w |-> w]
Null_ == [v |-> "null"]
Default_ == [v |-> "default"]
Col(names) == [v |-> "col", names |-> names]
Call(args) == [v |-> "call", args |-> args]
List(args) == [v |-> "list", args |-> args]

Cmp(kind, op, left, right) ==
  [c |-> "cmp", kind |-> kind, op |-> op, left |-> left, right |-> right]
Bool(op, args) == [c |-> "bool", op |-> op, args |-> args]
Always == [c |-> "none"]

Node(name, members) == Obj(<<<<name, Obj(members)>>>>)
StringNode(w) == Node("String", <<<<"sval", Str(w)>>>>)
Each(seq, F(_)) == Arr([i \in DOMAIN seq |-> F(seq[i])])

(* A member that has its default value is not written: the integer 0.      *)
RECURSIVE Operand(_)
Operand(e) ==
  CASE e.v = "int" ->
         Node("A_Const",
              <<<<"ival", IF e.i = 0 THEN Obj(<<>>)
                          ELSE Obj(<<<<"ival", Num(e.i)>>>>)>>,
                <<"location", Num(1)>>>>)
    [] e.v = "str" ->
         Node("A_Const", <<<<"sval", Obj(<<<<"sval", Str(e.w)>>>>)>>,
                           <<"location", Num(1)>>>>)
    [] e.v = "null" ->
         Node("A_Const", <<<<"isnull", Num(1)>>, <<"location", Num(1)>>>>)
    [] e.v = "default" -> Node("SetToDefault", <<>>)
    [] e.v = "col" ->
         Node("ColumnRef", <<<<"fields", Each(e.names, StringNode)>>,
                             <<"location", Num(1)>>>>)
    [] e.v = "call" ->
         Node("FuncCall", <<<<"funcname", Arr(<<StringNode("f")>>)>>,
                            <<"args", Each(e.args, Operand)>>>>)
    [] e.v = "list" -> Node("List", <<<<"items", Each(e.args, Operand)>>>>)

RECURSIVE Condition(_)
Condition(c) ==
  IF c.c = "cmp"
  THEN Node("A_Expr", <<<<"kind", Str(c.kind)>>,
                        <<"name", Arr(<<StringNode(c.op)>>)>>,
                        <<"lexpr", Operand(c.left)>>,
                        <<"rexpr", Operand(c.right)>>>>)
  ELSE Node("BoolExpr", <<<<"boolop", Str(c.op)>>,
                          <<"args", Each(c.args, Condition)>>>>)

RangeVar(table) == Obj(<<<<"relname", Str(table)>>, <<"inh", Num(1)>>>>)
Where(c) == IF c = Always THEN <<>> ELSE <<<<"whereClause", Condition(c)>>>>
Target(name) == Node("ResTarget", <<<<"name", Str(name)>>>>)

Stmt(q) ==
  CASE q.kind = "select" ->
         Node("SelectStmt",
              <<<<"targetList", Arr(<<Node("ResTarget",
                                 <<<<"val", Operand(Col(<<"id">>))>>>>)>>)>>,
                <<"fromClause", Each(q.from, LAMBDA t :
                                  Obj(<<<<"RangeVar", RangeVar(t)>>>>))>>>>
              \o Where(q.where))
    [] q.kind = "insert" ->
         Node("InsertStmt",
              <<<<"relation", RangeVar(q.table)>>>>
              \o (IF q.cols = <<>> THEN <<>>
                  ELSE <<<<"cols", Each(q.cols, Target)>>>>)
              \o <<<<"selectStmt",
                     Node("SelectStmt",
                          <<<<"valuesLists",
                              Each(q.rows, LAMBDA r : Operand(List(r)))>>>>)
                   >>>>)
    [] q.kind = "update" ->
         Node("UpdateStmt",
              <<<<"relation", RangeVar(q.table)>>,
                <<"targetList", Arr(<<Target("id")>>)>>>> \o Where(q.where))
    [] q.kind = "delete" ->
         Node("DeleteStmt", <<<<"relation", RangeVar(q.table)>>>>
                            \o Where(q.where))
    [] q.kind = "create" -> Node("CreateStmt", <<<<"relation",
                                                   RangeVar(q.table)>>>>)
    [] q.kind = "drop" ->
         Node("DropStmt",
              <<<<"objects", Arr(<<Node("List",
                 <<<<"items", Arr(<<StringNode(q.table)>>)>>>>)>>)>>>>)
    [] OTHER -> Node(q.kind, <<>>)

Tree(q) ==
  Obj(<<<<"version", Num(1)>>,
        <<"stmts", IF q.kind = "empty" THEN Arr(<<>>)
                   ELSE Arr(<<Obj(<<<<"stmt", Stmt(q)>>>>)>>)>>>>)

-----------------------------------------------------------------------------
(* ParseResult.  schema_name is set by the code and never read.            *)
NoResult == [stmt_type |-> "unknown", table_name |-> "", found |-> FALSE,
             column |-> "", is_int |-> FALSE, int |-> 0, str |-> "",
             text |-> <<>>]

DDL == {"CreateStmt", "AlterTableStmt", "DropStmt", "IndexStmt",
        "CreateSchemaStmt", "ViewStmt", "CreateFunctionStmt", "TruncateStmt",
        "RenameStmt", "CreateSeqStmt", "AlterSeqStmt"}

StmtTypes == [SelectStmt |-> "select", InsertStmt |-> "insert",
              UpdateStmt |-> "update", DeleteStmt |-> "delete",
              TransactionStmt |-> "transaction", VariableSetStmt |-> "set",
              VariableShowStmt |-> "show", DiscardStmt |-> "discard",
              CopyStmt |-> "copy"]

detect_stmt_type(t, stmt) ==
  CASE \E n \in DOMAIN StmtTypes : json_starts_with_key(t, stmt, n) ->
         StmtTypes[CHOOSE n \in DOMAIN StmtTypes :
                     json_starts_with_key(t, stmt, n)]
    [] \E n \in DDL : json_starts_with_key(t, stmt, n) -> "ddl"
    [] OTHER -> "unknown"

extract_table_from_rangevar(t, rv, result) ==
  LET relname == json_find_key(t, rv, "relname")
  IN IF relname = NULL THEN result
     ELSE [result EXCEPT !.table_name = json_get_string(t, relname)]

(* An A_Const: an integer, a string, or nothing that counts as a key.      *)
KeyFromConst(t, aconst, result, column) ==
  LET ival == json_find_key(t, json_find_key(t, aconst, "ival"), "ival")
      sval == json_find_key(t, json_find_key(t, aconst, "sval"), "sval")
  IN CASE ival # NULL ->
            [result EXCEPT !.found = TRUE, !.column = column,
                           !.is_int = TRUE, !.int = json_get_int(t, ival)]
       [] ival = NULL /\ sval # NULL ->
            [result EXCEPT !.found = TRUE, !.column = column,
                           !.is_int = FALSE, !.str = json_get_string(t, sval)]
       [] OTHER -> result

\* Mutant: any comparison is taken for an equality.
AnyComparison(t, aexpr) == json_find_key(t, aexpr, "name") # NULL

(* A comparison called "=", of a column with a constant.  The column is    *)
(* noted even if there is no constant.                                     *)
IsEquality(t, aexpr) ==
  LET sval == json_find_key_recursive(t, json_find_key(t, aexpr, "name"),
                                      "sval")
  IN sval # NULL /\ json_get_string(t, sval) = "="

KeyFromComparison(t, aexpr, result) ==
  LET colref == json_find_key(t, json_find_key(t, aexpr, "lexpr"), "ColumnRef")
      fields == json_find_key(t, colref, "fields")
      sval == json_find_key(t, json_find_key_recursive(t, fields, "String"),
                            "sval")
      column == IF sval # NULL THEN json_get_string(t, sval)
                ELSE result.column
      aconst == json_find_key(t, json_find_key(t, aexpr, "rexpr"), "A_Const")
  IN IF ~IsEquality(t, aexpr) \/ fields = NULL \/ column = "" THEN result
     ELSE KeyFromConst(t, aconst, [result EXCEPT !.column = column], column)

(* A comparison, or the first key among the arguments of a BoolExpr,       *)
(* whatever it is: AND, OR and NOT are alike.                              *)
RECURSIVE extract_shard_key_from_where(_, _, _)
RECURSIVE KeyFromArgs(_, _, _)
KeyFromArgs(t, p, result) ==
  IF At(t, p) \in {NUL, P("]")} THEN result
  ELSE LET here == extract_shard_key_from_where(t, p, result)
       IN IF here.found THEN here
          ELSE KeyFromArgs(t, skip_if(t, json_skip_value(t, p), ","), here)

extract_shard_key_from_where(t, where, result) ==
  LET aexpr == json_find_key(t, where, "A_Expr")
      args == json_find_key(t, json_find_key(t, where, "BoolExpr"), "args")
  IN CASE aexpr # NULL -> KeyFromComparison(t, aexpr, result)
       [] aexpr = NULL /\ args # NULL /\ At(t, args) = P("[") ->
            KeyFromArgs(t, args + 1, result)
       [] OTHER -> result

(* The position of the shard column among the names behind "cols" (which   *)
(* run on to the end of the text), and the element at that position of the *)
(* first VALUES list: its first constant is the key.                       *)
RECURSIVE Element(_, _, _)
Element(t, p, n) ==
  IF n = 0 \/ At(t, p) \in {NUL, P("]")} THEN p
  ELSE Element(t, skip_if(t, json_skip_value(t, p), ","), n - 1)

TargetPos(t, cols, column) ==
  LET names == json_find_all_values(t, cols, "name")
      at == {i \in DOMAIN names : json_get_string(t, names[i]) = column}
  IN IF at = {} THEN -1 ELSE Least(at) - 1

extract_shard_key_from_insert(t, insert, result, column) ==
  LET cols == json_find_key(t, insert, "cols")
      pos == TargetPos(t, cols, column)
      select == json_find_key(t, json_find_key(t, insert, "selectStmt"),
                              "SelectStmt")
      items == json_find_key_recursive(t, json_find_key(t, select,
                                                        "valuesLists"), "items")
      p == Element(t, items + 1, pos)
  IN IF \/ cols = NULL \/ At(t, cols) # P("[") \/ pos < 0
        \/ items = NULL \/ At(t, items) # P("[") \/ At(t, p) = P("]")
     THEN result
     ELSE KeyFromConst(t, json_find_key_recursive(t, p, "A_Const"), result,
                       column)

-----------------------------------------------------------------------------
FirstStmt(t) ==
  LET stmts == json_find_key(t, 1, "stmts")
  IN json_find_key(t, stmts + 1, "stmt")

(* [rc, result] of parse_query: rc is -1 for a statement that libpg_query  *)
(* refuses.                                                                *)
FromTable(t, select, result) ==
  LET from == json_find_key(t, select, "fromClause")
      rv == json_find_key_recursive(t, from, "RangeVar")
      relname == json_find_key_recursive(t, from, "relname")
  IN CASE rv # NULL -> extract_table_from_rangevar(t, rv, result)
       [] rv = NULL /\ relname # NULL ->
            [result EXCEPT !.table_name = json_get_string(t, relname)]
       [] OTHER -> result

Extract(t, stmt, result) ==
  LET Body(name) == json_find_key(t, stmt, name)
      Related(s, r) ==
        extract_table_from_rangevar(t, json_find_key(t, s, "relation"), r)
      Keyed(s, r) ==
        extract_shard_key_from_where(t, json_find_key(t, s, "whereClause"), r)
  IN CASE result.stmt_type = "select" ->
            Keyed(Body("SelectStmt"),
                  FromTable(t, Body("SelectStmt"), result))
       [] result.stmt_type = "insert" -> Related(Body("InsertStmt"), result)
       [] result.stmt_type = "update" ->
            Keyed(Body("UpdateStmt"), Related(Body("UpdateStmt"), result))
       [] result.stmt_type = "delete" ->
            Keyed(Body("DeleteStmt"), Related(Body("DeleteStmt"), result))
       [] result.stmt_type = "ddl" ->
            [result EXCEPT !.table_name =
               json_get_string(t, json_find_key_recursive(t, stmt, "relname"))]
       [] OTHER -> result

parse_query(q) ==
  LET t == Text(Tree(q))
      stmts == json_find_key(t, 1, "stmts")
      stmt == FirstStmt(t)
      result == [NoResult EXCEPT !.text = t]
  IN CASE q.kind = "syntax_error" -> [rc |-> -1, result |-> NoResult]
       [] q.kind # "syntax_error" /\ At(t, stmts + 1) = P("]") ->
            [rc |-> 0, result |-> result]
       [] OTHER ->
            [rc |-> 0,
             result |-> Extract(t, stmt, [result EXCEPT
                          !.stmt_type = detect_stmt_type(t, stmt)])]

(* parse_extract_insert_shard_key, the second pass over an INSERT.         *)
InsertKey(parsed, column) ==
  IF parsed.stmt_type # "insert" \/ column = "" THEN parsed
  ELSE extract_shard_key_from_insert(
         parsed.text,
         json_find_key(parsed.text, FirstStmt(parsed.text), "InsertStmt"),
         parsed, column)
=============================================================================
