------------------------------- MODULE Config -------------------------------
(***************************************************************************)
(* Start-up: config_load of config.c reads the file line by line into      *)
(* temporary tables and builds the shard map from them; main() applies the *)
(* command line on top and starts to serve.                                *)
(*                                                                         *)
(* A line is a section header, a key with a value, or nothing of interest  *)
(* (blank, comment, no '='); spaces are trimmed.  A value is its text      *)
(* together with what its conversions return: num (atoi, strtoull) and     *)
(* list (strtok at commas, trimmed).                                       *)
(***************************************************************************)
EXTENDS Integers, Sequences

CONSTANTS Files,       \* the configuration files that may be loaded
          Options,     \* the command lines: [path, port, backend, debug]
          MAX_SHARDS,
          MAX_TABLES,
          U64          \* 2^64: the modulus of a uint64_t

Unset == ""            \* a C string that is NULL or empty
NoFile == <<>>         \* an empty path, or a file that cannot be opened

VARIABLES phase,       \* where main() is
          options,     \* the command line
          file,        \* the file's lines
          line,        \* how many of them have been read
          section, section_arg,
          cfg,         \* the settings outside the shard map
          tmp_shards, tmp_rules,
          map,         \* the ShardMap
          tok          \* how many names of the current shard list were read

vars == <<phase, options, file, line, section, section_arg, cfg, tmp_shards,
          tmp_rules, map, tok>>

Value == [text : STRING, num : Int, list : Seq(STRING)]

Line == [type : {"section"}, name : STRING, arg : STRING]
        \cup [type : {"pair"}, key : STRING, val : Value]
        \cup [type : {"other"}]

Option == [path : {"none", "missing", "given"}, port : Nat, backend : STRING,
           debug : BOOLEAN]

ASSUME ConfigAssumption ==
  /\ Files \subseteq Seq(Line)
  /\ Options \subseteq Option
  /\ MAX_SHARDS \in Nat
  /\ MAX_TABLES \in Nat
  /\ U64 \in Nat \ {0}

\* Mutant: the number is taken as it is.
StrtoullSigned(val) == val.num

strtoull(val) == val.num % U64

Empty == [text |-> Unset, num |-> 0, list |-> <<>>]

config_default ==
  [listen_addr |-> "0.0.0.0", listen_port |-> 15432, max_clients |-> 1024,
   log_level |-> "info", default_pool_size |-> 20, max_pool_size |-> 100,
   idle_timeout |-> 300, backend_conninfo |-> "default"]

EmptyMap == [shards |-> <<>>, table_rules |-> <<>>, pool_size |-> 0]

First(at) == IF at = {} THEN 0 ELSE CHOOSE i \in at : \A j \in at : i <= j

find_shard_index(shards, name) ==
  First({i \in DOMAIN shards : shards[i].name = name})

find_rule_index(rules, name) ==
  First({i \in DOMAIN rules : rules[i].table_name = name})

-----------------------------------------------------------------------------
(* Settings: the keys of the sections without a name.                      *)
Numbers == {"listen_port", "max_clients", "default_pool_size",
            "max_pool_size", "idle_timeout"}

Setting(key, val) ==
  CASE section = "global" /\ key = "listen_addr" ->
         [cfg EXCEPT !.listen_addr = val.text]
    [] \/ section = "global" /\ key \in {"listen_port", "max_clients"}
       \/ section = "pool" /\ key \in Numbers \ {"listen_port", "max_clients"}
         -> [cfg EXCEPT ![key] = val.num]
    [] /\ section = "global" /\ key = "log_level"
       /\ val.text \in {"debug", "info", "warn", "error"} ->
         [cfg EXCEPT !.log_level = val.text]
    [] section = "backend" /\ key = "conninfo" ->
         [cfg EXCEPT !.backend_conninfo = val.text]
    [] OTHER -> cfg

NewShard(name) == [name |-> name, conninfo |-> Unset, key_range_start |-> 0,
                   key_range_end |-> 0]

\* Mutant: every key starts a new entry.
ShardKeyAppended(shards, name, key, val) ==
  LET new == NewShard(name)
  IN Append(shards,
            CASE key = "conninfo" -> [new EXCEPT !.conninfo = val.text]
              [] key = "key_range_start" ->
                   [new EXCEPT !.key_range_start = strtoull(val)]
              [] key = "key_range_end" ->
                   [new EXCEPT !.key_range_end = strtoull(val)]
              [] OTHER -> new)

(* A key of [shard:name]; the entry is appended if there is none.          *)
ShardKey(shards, name, key, val) ==
  LET known == find_shard_index(shards, name)
      all == IF known = 0 THEN Append(shards, NewShard(name)) ELSE shards
      idx == IF known = 0 THEN Len(all) ELSE known
  IN CASE key = "conninfo" -> [all EXCEPT ![idx].conninfo = val.text]
       [] key = "key_range_start" ->
            [all EXCEPT ![idx].key_range_start = strtoull(val)]
       [] key = "key_range_end" ->
            [all EXCEPT ![idx].key_range_end = strtoull(val)]
       [] OTHER -> all

NewRule(name) == [table_name |-> name, shard_column |-> Unset, method |-> Unset,
                  shard_list |-> Empty, broadcast |-> FALSE]

(* A key of [table:name], likewise.                                        *)
TableKey(rules, name, key, val) ==
  LET known == find_rule_index(rules, name)
      all == IF known = 0 THEN Append(rules, NewRule(name)) ELSE rules
      idx == IF known = 0 THEN Len(all) ELSE known
  IN CASE key = "shard_column" -> [all EXCEPT ![idx].shard_column = val.text]
       [] key = "method" -> [all EXCEPT ![idx].method = val.text]
       [] key = "shards" -> [all EXCEPT ![idx].shard_list = val]
       [] key = "broadcast" ->
            [all EXCEPT ![idx].broadcast = (val.text = "true")]
       [] OTHER -> all

-----------------------------------------------------------------------------
(* fgets has a line: a header changes the section, a key is applied to the *)
(* section it stands in.  A full table takes no more keys, not even of an  *)
(* entry it has.                                                           *)
Header ==
  /\ phase = "read" /\ line < Len(file) /\ file[line + 1].type = "section"
  /\ line' = line + 1
  /\ section' = file[line + 1].name
  /\ section_arg' = file[line + 1].arg
  /\ UNCHANGED <<phase, options, file, cfg, tmp_shards, tmp_rules, map, tok>>

Ignored ==
  /\ phase = "read" /\ line < Len(file) /\ file[line + 1].type = "other"
  /\ line' = line + 1
  /\ UNCHANGED <<phase, options, file, section, section_arg, cfg, tmp_shards,
                 tmp_rules, map, tok>>

HasRoom(table, max) == Len(table) < max

KeyValue ==
  /\ phase = "read" /\ line < Len(file) /\ file[line + 1].type = "pair"
  /\ line' = line + 1
  /\ LET key == file[line + 1].key
         val == file[line + 1].val
     IN /\ cfg' = Setting(key, val)
        /\ tmp_shards' =
             IF /\ section = "shard" /\ section_arg # Unset
                /\ HasRoom(tmp_shards, MAX_SHARDS)
             THEN ShardKey(tmp_shards, section_arg, key, val) ELSE tmp_shards
        /\ tmp_rules' =
             IF /\ section = "table" /\ section_arg # Unset
                /\ HasRoom(tmp_rules, MAX_TABLES)
             THEN TableKey(tmp_rules, section_arg, key, val) ELSE tmp_rules
  /\ UNCHANGED <<phase, options, file, section, section_arg, map, tok>>

(* The end of the file: the shards are copied, then the rules are built    *)
(* one after the other.                                                    *)
EndOfFile ==
  /\ phase = "read" /\ line = Len(file)
  /\ phase' = "rules"
  /\ map' = [shards |-> tmp_shards, table_rules |-> <<>>,
             pool_size |-> cfg.default_pool_size]
  /\ UNCHANGED <<options, file, line, section, section_arg, cfg, tmp_shards,
                 tmp_rules, tok>>

AllShards == [i \in 1..Len(map.shards) |-> i]

(* The next rule.  A list of names is read one name at a time.             *)
BuildRule ==
  /\ phase = "rules" /\ Len(map.table_rules) < Len(tmp_rules)
  /\ LET t == tmp_rules[Len(map.table_rules) + 1]
         listed == t.shard_list.text # Unset /\ map.shards # <<>>
     IN /\ map' = [map EXCEPT !.table_rules =
                     Append(@, [table_name |-> t.table_name,
                                shard_column |-> t.shard_column,
                                method |-> IF t.method = "hash" THEN "hash"
                                           ELSE "range",
                                broadcast |-> t.broadcast,
                                shards |-> IF ~listed /\ t.broadcast
                                           THEN AllShards ELSE <<>>])]
        /\ phase' = IF listed THEN "list" ELSE "rules"
  /\ tok' = 0
  /\ UNCHANGED <<options, file, line, section, section_arg, cfg, tmp_shards,
                 tmp_rules>>

\* Mutant: the list is read to its end.
MoreNames(names) == tok < Len(names)

More(names) ==
  /\ tok < Len(names)
  /\ Len(map.table_rules[Len(map.table_rules)].shards) < Len(map.shards)

(* strtok: the next name of the list, which counts if it is a shard's.     *)
ShardName ==
  /\ phase = "list"
  /\ LET r == Len(map.table_rules)
         names == tmp_rules[r].shard_list.list
         idx == find_shard_index(map.shards, names[tok + 1])
     IN /\ phase' = IF More(names) THEN "list" ELSE "rules"
        /\ tok' = IF More(names) THEN tok + 1 ELSE tok
        /\ map' = IF More(names) /\ idx # 0
                  THEN [map EXCEPT !.table_rules[r].shards = Append(@, idx)]
                  ELSE map
  /\ UNCHANGED <<options, file, line, section, section_arg, cfg, tmp_shards,
                 tmp_rules>>

(* main() after config_load: the command line overrides the file, and the  *)
(* proxy serves if it can listen (create_listener).                        *)
Overridden(c, o) ==
  [c EXCEPT !.listen_port = IF o.port > 0 THEN o.port ELSE @,
            !.backend_conninfo = IF o.backend # Unset THEN o.backend ELSE @,
            !.log_level = IF o.debug THEN "debug" ELSE @]

Override ==
  /\ phase = "rules" /\ Len(map.table_rules) = Len(tmp_rules)
  /\ cfg' = Overridden(cfg, options)
  /\ phase' \in {"serve", "failed"}
  /\ UNCHANGED <<options, file, line, section, section_arg, tmp_shards,
                 tmp_rules, map, tok>>

Loading ==
  Header \/ Ignored \/ KeyValue \/ EndOfFile \/ BuildRule \/ ShardName \/ Override

(* getopt, and fopen: without a path the defaults serve, and a file that   *)
(* cannot be opened ends the program.                                      *)
Init ==
  /\ options \in Options
  /\ file \in IF options.path = "given" THEN Files ELSE {NoFile}
  /\ phase = CASE options.path = "given" -> "read"
               [] options.path = "none" -> "rules"
               [] options.path = "missing" -> "failed"
  /\ line = 0
  /\ section = Unset /\ section_arg = Unset
  /\ cfg = config_default
  /\ tmp_shards = <<>> /\ tmp_rules = <<>>
  /\ map = EmptyMap
  /\ tok = 0

LoadSpec == Init /\ [][Loading]_vars

-----------------------------------------------------------------------------
(* The loader keeps within its arrays and the map is sound, for every file *)
(* and at every moment: the temporary tables never pass MAX_SHARDS and     *)
(* MAX_TABLES, a rule never has more shards than were allocated for it (as *)
(* many as the map has), every one of them is a shard of the map, and no   *)
(* two shards or two rules have one name.                                  *)
Bounded ==
  /\ Len(tmp_shards) <= MAX_SHARDS
  /\ Len(tmp_rules) <= MAX_TABLES
  /\ \A r \in DOMAIN map.table_rules :
       Len(map.table_rules[r].shards) <= Len(map.shards)

MapSound ==
  /\ Bounded
  /\ \A i, j \in DOMAIN map.shards :
       map.shards[i].name = map.shards[j].name => i = j
  /\ \A i, j \in DOMAIN map.table_rules :
       map.table_rules[i].table_name = map.table_rules[j].table_name => i = j
  /\ \A r \in DOMAIN map.table_rules :
       \A i \in DOMAIN map.table_rules[r].shards :
         map.table_rules[r].shards[i] \in DOMAIN map.shards
=============================================================================
