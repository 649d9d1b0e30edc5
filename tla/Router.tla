------------------------------- MODULE Router -------------------------------
(***************************************************************************)
(* router.c and shard_map.c: from a parsed statement and the shard map to  *)
(* the shards a query is sent to.                                          *)
(*                                                                         *)
(* A rule and a shard are named by their index in the map; 0 is NULL.  The *)
(* hash of a string and the second pass over an INSERT are parameters, so  *)
(* that what is proved here holds whatever they return.                    *)
(***************************************************************************)
EXTENDS Config

CONSTANTS Words,                               \* the strings of statements
          Hash(_),                             \* the hash of a string key
          parse_extract_insert_shard_key(_, _) \* (parsed, shard_column)

ASSUME HashAssumption == \A key \in Words : Hash(key) \in 0..U64 - 1

shard_map_find_rule(m, name) == find_rule_index(m.table_rules, name)

(* The shards of rule r, in the order of its list.                         *)
RuleShards(m, r) == m.table_rules[r].shards

(* The first listed shard whose range holds the key, else the first of the *)
(* list.                                                                   *)
InRange(m, s, ukey) ==
  m.shards[s].key_range_start <= ukey /\ ukey < m.shards[s].key_range_end

FindInRanges(m, r, ukey) ==
  LET list == RuleShards(m, r)
      at == First({i \in DOMAIN list : InRange(m, list[i], ukey)})
  IN IF at = 0 THEN list[1] ELSE list[at]

\* Mutant: the remainder by all shards picks among all shards.
FindAmongAll(m, r, ukey) == 1 + (ukey % Len(m.shards))

FindByHash(m, r, ukey) ==
  RuleShards(m, r)[1 + (ukey % Len(RuleShards(m, r)))]

Find(m, r, ukey) ==
  CASE RuleShards(m, r) = <<>> -> 0
    [] RuleShards(m, r) # <<>> /\ m.table_rules[r].method = "range" ->
         FindInRanges(m, r, ukey)
    [] OTHER -> FindByHash(m, r, ukey)

shard_map_find_by_int(m, r, key) == Find(m, r, key % U64)
shard_map_find_by_str(m, r, key) == Find(m, r, Hash(key))
shard_map_get_all(m, r) == RuleShards(m, r)

-----------------------------------------------------------------------------
Decision(type, rule, targets) ==
  [type |-> type, rule |-> rule, targets |-> targets]

Scatter(m, r) == Decision("scatter", r, shard_map_get_all(m, r))

(* The key of the statement against the rule's column.  strcmp with the    *)
(* NULL column of a rule that has none is undefined.                       *)
ByKey(m, r, parsed) ==
  LET column == m.table_rules[r].shard_column
      target == IF parsed.is_int
                THEN shard_map_find_by_int(m, r, parsed.int)
                ELSE shard_map_find_by_str(m, r, parsed.str)
  IN IF ~parsed.found \/ parsed.column = Unset THEN Scatter(m, r)
     ELSE IF column = Unset THEN Decision("undefined", r, <<>>)
     ELSE IF parsed.column = column /\ target # 0
     THEN Decision("single", r, <<target>>)
     ELSE Scatter(m, r)

(* What a parsed statement carries if it has a key.                        *)
Keyed(parsed) ==
  parsed.found => IF parsed.is_int THEN parsed.int \in Int
                  ELSE parsed.str \in Words

SecondPass(parsed, column) ==
  IF parsed.stmt_type = "insert" /\ ~parsed.found
  THEN parse_extract_insert_shard_key(parsed, column)
  ELSE parsed

router_decide(m, parsed) ==
  LET r == shard_map_find_rule(m, parsed.table_name)
  IN IF parsed.stmt_type \in {"set", "show", "discard"}
     THEN Decision("local", 0, <<>>)
     ELSE IF \/ parsed.stmt_type \in {"transaction", "unknown"}
             \/ parsed.table_name = Unset \/ r = 0
     THEN Decision("default", 0, <<>>)
     ELSE IF m.table_rules[r].broadcast \/ parsed.stmt_type = "ddl"
     THEN Scatter(m, r)
     ELSE ByKey(m, r, SecondPass(parsed, m.table_rules[r].shard_column))

(* What the router may answer about a map: with a rule, every target is a  *)
(* shard of that rule's list, there is one if the list is not empty, and   *)
(* exactly one if the query goes to a single shard; without a rule there   *)
(* is none.                                                                *)
SoundFor(m, d) ==
  LET list == RuleShards(m, d.rule)
  IN IF d.rule = 0 THEN d.targets = <<>>
     ELSE /\ \A i \in DOMAIN d.targets :
               \E j \in DOMAIN list : d.targets[i] = list[j]
          /\ d.type = "single" => Len(d.targets) = 1
          /\ d.type = "scatter" => d.targets = list
=============================================================================
