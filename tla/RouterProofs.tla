---------------------------- MODULE RouterProofs ----------------------------
(***************************************************************************)
(* Theorems about the configuration loader and the router, for every file, *)
(* every command line, every statement and every hash function.            *)
(***************************************************************************)
EXTENDS Router, SequenceTheorems, WellFoundedInduction, TLAPS

(* A text, or none.                                                        *)
Word_ == STRING \cup {Unset}
List_ == [text : Word_, num : Int, list : Seq(STRING)]

ShardEntry == [name : Word_, conninfo : Word_,
               key_range_start : Int, key_range_end : Int]
RuleEntry == [table_name : Word_, shard_column : Word_, method : Word_,
              shard_list : List_, broadcast : BOOLEAN]

ShardNames(q) == \A i, j \in DOMAIN q : q[i].name = q[j].name => i = j
RuleNames(q) == \A i, j \in DOMAIN q : q[i].table_name = q[j].table_name => i = j

\* A set of naturals that is not empty has a least element.
LEMMA LeastExists ==
  ASSUME NEW S \in SUBSET Nat, S # {}
  PROVE  \E x \in S : \A y \in S : x <= y
<1>1. PICK x \in S : \A y \in S : ~(<<y, x>> \in OpToRel(<, Nat))
  BY NatLessThanWellFounded, WFMin, Zenon
<1>2. ASSUME NEW y \in S PROVE x <= y
  <2>1. ~(<<y, x>> \in {p \in Nat \X Nat : p[1] < p[2]})
    BY <1>1 DEF OpToRel
  <2> QED
    BY <2>1
<1> QED
  BY <1>2

\* The first index of a set of indices is one of them, or 0.
LEMMA FirstFacts ==
  ASSUME NEW S \in SUBSET (Nat \ {0})
  PROVE  /\ S = {} => First(S) = 0
         /\ S # {} => First(S) \in S
         /\ First(S) = 0 => S = {}
<1>1. ASSUME S # {} PROVE First(S) \in S
  <2>1. \E x \in S : \A y \in S : x <= y
    BY <1>1, LeastExists
  <2> QED
    BY <1>1, <2>1 DEF First
<1> QED
  BY <1>1 DEF First

\* find_shard_index and find_rule_index: no entry has the name, or one has it.
LEMMA FindShard ==
  ASSUME NEW T, NEW q \in Seq(T), NEW name
  PROVE  \/ /\ find_shard_index(q, name) = 0
            /\ \A i \in DOMAIN q : q[i].name # name
         \/ /\ find_shard_index(q, name) \in DOMAIN q
            /\ q[find_shard_index(q, name)].name = name
<1> DEFINE S == {i \in DOMAIN q : q[i].name = name}
<1>1. S \in SUBSET (Nat \ {0})
  OBVIOUS
<1>2. First(S) = find_shard_index(q, name)
  BY DEF find_shard_index
<1>3. (First(S) = 0 /\ S = {}) \/ First(S) \in S
  BY <1>1, FirstFacts
<1> QED
  BY <1>2, <1>3

\* The same of the rules.
LEMMA FindRule ==
  ASSUME NEW T, NEW q \in Seq(T), NEW name
  PROVE  \/ /\ find_rule_index(q, name) = 0
            /\ \A i \in DOMAIN q : q[i].table_name # name
         \/ /\ find_rule_index(q, name) \in DOMAIN q
            /\ q[find_rule_index(q, name)].table_name = name
<1> DEFINE S == {i \in DOMAIN q : q[i].table_name = name}
<1>1. S \in SUBSET (Nat \ {0})
  OBVIOUS
<1>2. First(S) = find_rule_index(q, name)
  BY DEF find_rule_index
<1>3. (First(S) = 0 /\ S = {}) \/ First(S) \in S
  BY <1>1, FirstFacts
<1> QED
  BY <1>2, <1>3

\* An entry of a table is replaced by one of the same name.
LEMMA ShardReplaced ==
  ASSUME NEW q \in Seq(ShardEntry), ShardNames(q), NEW i \in DOMAIN q,
         NEW e \in ShardEntry, e.name = q[i].name
  PROVE  /\ [q EXCEPT ![i] = e] \in Seq(ShardEntry) /\ ShardNames([q EXCEPT ![i] = e])
         /\ Len([q EXCEPT ![i] = e]) = Len(q)
<1> DEFINE r == [q EXCEPT ![i] = e]
<1>1. r \in Seq(ShardEntry) /\ Len(r) = Len(q) /\ DOMAIN r = DOMAIN q
  BY ExceptSeq
<1>2. \A j \in DOMAIN q : r[j].name = q[j].name
  OBVIOUS
<1> HIDE DEF r
<1>3. ShardNames(r)
  BY <1>1, <1>2 DEF ShardNames
<1> QED
  BY <1>1, <1>3 DEF r

\* A key of a shard's section: the table keeps its type and its names stay unique.
LEMMA ShardKeyFacts ==
  ASSUME NEW q \in Seq(ShardEntry), ShardNames(q), NEW name \in Word_, NEW key,
         NEW val \in Value
  PROVE  /\ ShardKey(q, name, key, val) \in Seq(ShardEntry)
         /\ ShardNames(ShardKey(q, name, key, val))
         /\ Len(ShardKey(q, name, key, val)) <= Len(q) + 1
<1> DEFINE known == find_shard_index(q, name)
           grown == IF known = 0 THEN Append(q, NewShard(name)) ELSE q
           idx == IF known = 0 THEN Len(grown) ELSE known
           n == strtoull(val)
<1>1. /\ grown \in Seq(ShardEntry) /\ ShardNames(grown)
      /\ idx \in DOMAIN grown /\ Len(grown) <= Len(q) + 1
  <2>1. CASE known = 0
    <3>1. \A i \in DOMAIN q : q[i].name # name
      <4>1. 0 \notin DOMAIN q
        OBVIOUS
      <4> QED
        BY <2>1, <4>1, FindShard, Zenon
    <3>2. NewShard(name) \in ShardEntry /\ NewShard(name).name = name
      BY DEF NewShard, ShardEntry, Word_
    <3>3. grown = Append(q, NewShard(name)) /\ idx = Len(grown)
      BY <2>1
    <3> HIDE DEF known, grown, idx
    <3>4. /\ grown \in Seq(ShardEntry) /\ Len(grown) = Len(q) + 1
          /\ \A i \in DOMAIN q : grown[i] = q[i]
          /\ grown[Len(q) + 1] = NewShard(name)
          /\ DOMAIN grown = 1..(Len(q) + 1) /\ DOMAIN q = 1..Len(q)
      BY <3>2, <3>3
    <3>5. ShardNames(grown)
      <4>1. \A i \in 1..(Len(q) + 1) : i \in DOMAIN q \/ i = Len(q) + 1
        BY <3>4
      <4> QED
        BY ONLY ShardNames(q), <3>1, <3>2, <3>4, <4>1 DEF ShardNames
    <3>6. Len(q) + 1 \in 1..(Len(q) + 1)
      OBVIOUS
    <3> QED
      BY ONLY <3>3, <3>4, <3>5, <3>6, Len(q) \in Nat
  <2>2. CASE known # 0
    BY <2>2, FindShard
  <2> QED
    BY <2>1, <2>2
<1> HIDE DEF known, grown, idx
<1>2. n \in Int /\ val.text \in Word_
  BY ConfigAssumption DEF strtoull, Value, Word_
<1> HIDE DEF n
<1>3. grown[idx] \in ShardEntry
  BY <1>1
<1>4. PICK e \in ShardEntry : /\ e.name = grown[idx].name
                              /\ \/ ShardKey(q, name, key, val) = grown
                                 \/ ShardKey(q, name, key, val) = [grown EXCEPT ![idx] = e]
  <2>1. CASE key = "conninfo"
    <3>1. ShardKey(q, name, key, val) =
            [grown EXCEPT ![idx] = [grown[idx] EXCEPT !.conninfo = val.text]]
      BY <2>1, Zenon DEF ShardKey, known, grown, idx
    <3>2. /\ [grown[idx] EXCEPT !.conninfo = val.text] \in ShardEntry
          /\ [grown[idx] EXCEPT !.conninfo = val.text].name = grown[idx].name
      BY <1>2, <1>3 DEF ShardEntry
    <3> QED
      BY <3>1, <3>2
  <2>2. CASE key = "key_range_start"
    <3>1. ShardKey(q, name, key, val) =
            [grown EXCEPT ![idx] = [grown[idx] EXCEPT !.key_range_start = n]]
      BY <2>2 DEF ShardKey, known, grown, idx, n
    <3>2. /\ [grown[idx] EXCEPT !.key_range_start = n] \in ShardEntry
          /\ [grown[idx] EXCEPT !.key_range_start = n].name = grown[idx].name
      BY <1>2, <1>3 DEF ShardEntry
    <3> QED
      BY <3>1, <3>2
  <2>3. CASE key = "key_range_end"
    <3>1. ShardKey(q, name, key, val) =
            [grown EXCEPT ![idx] = [grown[idx] EXCEPT !.key_range_end = n]]
      BY <2>3 DEF ShardKey, known, grown, idx, n
    <3>2. /\ [grown[idx] EXCEPT !.key_range_end = n] \in ShardEntry
          /\ [grown[idx] EXCEPT !.key_range_end = n].name = grown[idx].name
      BY <1>2, <1>3 DEF ShardEntry
    <3> QED
      BY <3>1, <3>2
  <2>4. CASE key \notin {"conninfo", "key_range_start", "key_range_end"}
    BY <1>3, <2>4 DEF ShardKey, known, grown, idx
  <2> QED
    BY <2>1, <2>2, <2>3, <2>4
<1> QED
  BY ONLY <1>1, <1>4, ShardReplaced

\* The same of the rules.
LEMMA RuleReplaced ==
  ASSUME NEW q \in Seq(RuleEntry), RuleNames(q), NEW i \in DOMAIN q,
         NEW e \in RuleEntry, e.table_name = q[i].table_name
  PROVE  /\ [q EXCEPT ![i] = e] \in Seq(RuleEntry) /\ RuleNames([q EXCEPT ![i] = e])
         /\ Len([q EXCEPT ![i] = e]) = Len(q)
<1> DEFINE r == [q EXCEPT ![i] = e]
<1>1. r \in Seq(RuleEntry) /\ Len(r) = Len(q) /\ DOMAIN r = DOMAIN q
  BY ExceptSeq
<1>2. \A j \in DOMAIN q : r[j].table_name = q[j].table_name
  OBVIOUS
<1> HIDE DEF r
<1>3. RuleNames(r)
  BY <1>1, <1>2 DEF RuleNames
<1> QED
  BY <1>1, <1>3 DEF r

\* A key of a table's section: the table keeps its type and its names stay unique.
LEMMA TableKeyFacts ==
  ASSUME NEW q \in Seq(RuleEntry), RuleNames(q), NEW name \in Word_, NEW key,
         NEW val \in Value
  PROVE  /\ TableKey(q, name, key, val) \in Seq(RuleEntry)
         /\ RuleNames(TableKey(q, name, key, val))
         /\ Len(TableKey(q, name, key, val)) <= Len(q) + 1
<1> DEFINE known == find_rule_index(q, name)
           grown == IF known = 0 THEN Append(q, NewRule(name)) ELSE q
           idx == IF known = 0 THEN Len(grown) ELSE known
<1>1. /\ grown \in Seq(RuleEntry) /\ RuleNames(grown)
      /\ idx \in DOMAIN grown /\ Len(grown) <= Len(q) + 1
  <2>1. CASE known = 0
    <3>1. \A i \in DOMAIN q : q[i].table_name # name
      <4>1. 0 \notin DOMAIN q
        OBVIOUS
      <4> QED
        BY <2>1, <4>1, FindRule, Zenon
    <3>2. NewRule(name) \in RuleEntry /\ NewRule(name).table_name = name
      BY DEF NewRule, RuleEntry, Word_, List_, Empty
    <3>3. grown = Append(q, NewRule(name)) /\ idx = Len(grown)
      BY <2>1
    <3> HIDE DEF known, grown, idx
    <3>4. /\ grown \in Seq(RuleEntry) /\ Len(grown) = Len(q) + 1
          /\ \A i \in DOMAIN q : grown[i] = q[i]
          /\ grown[Len(q) + 1] = NewRule(name)
          /\ DOMAIN grown = 1..(Len(q) + 1) /\ DOMAIN q = 1..Len(q)
      BY <3>2, <3>3
    <3>5. RuleNames(grown)
      <4>1. \A i \in 1..(Len(q) + 1) : i \in DOMAIN q \/ i = Len(q) + 1
        BY <3>4
      <4> QED
        BY ONLY RuleNames(q), <3>1, <3>2, <3>4, <4>1 DEF RuleNames
    <3>6. Len(q) + 1 \in 1..(Len(q) + 1)
      OBVIOUS
    <3> QED
      BY ONLY <3>3, <3>4, <3>5, <3>6, Len(q) \in Nat
  <2>2. CASE known # 0
    BY <2>2, FindRule
  <2> QED
    BY <2>1, <2>2
<1> HIDE DEF known, grown, idx
<1>2. val \in List_ /\ val.text \in Word_
  BY DEF Value, List_, Word_
<1>3. grown[idx] \in RuleEntry
  BY <1>1
<1>4. PICK e \in RuleEntry : /\ e.table_name = grown[idx].table_name
                             /\ \/ TableKey(q, name, key, val) = grown
                                \/ TableKey(q, name, key, val) = [grown EXCEPT ![idx] = e]
  <2>1. CASE key = "shard_column"
    <3> DEFINE e == [grown[idx] EXCEPT !.shard_column = val.text]
    <3>1. TableKey(q, name, key, val) = [grown EXCEPT ![idx] = e]
      BY <2>1 DEF TableKey, known, grown, idx
    <3>2. e \in RuleEntry /\ e.table_name = grown[idx].table_name
      BY <1>2, <1>3 DEF RuleEntry
    <3> QED
      BY <3>1, <3>2
  <2>2. CASE key = "method"
    <3> DEFINE e == [grown[idx] EXCEPT !.method = val.text]
    <3>1. TableKey(q, name, key, val) = [grown EXCEPT ![idx] = e]
      BY <2>2 DEF TableKey, known, grown, idx
    <3>2. e \in RuleEntry /\ e.table_name = grown[idx].table_name
      BY <1>2, <1>3 DEF RuleEntry
    <3> QED
      BY <3>1, <3>2
  <2>3. CASE key = "shards"
    <3> DEFINE e == [grown[idx] EXCEPT !.shard_list = val]
    <3>1. TableKey(q, name, key, val) = [grown EXCEPT ![idx] = e]
      BY <2>3 DEF TableKey, known, grown, idx
    <3>2. e \in RuleEntry /\ e.table_name = grown[idx].table_name
      BY <1>2, <1>3 DEF RuleEntry
    <3> QED
      BY <3>1, <3>2
  <2>4. CASE key = "broadcast"
    <3> DEFINE e == [grown[idx] EXCEPT !.broadcast = (val.text = "true")]
    <3>1. TableKey(q, name, key, val) = [grown EXCEPT ![idx] = e]
      BY <2>4 DEF TableKey, known, grown, idx
    <3>2. e \in RuleEntry /\ e.table_name = grown[idx].table_name
      BY <1>2, <1>3 DEF RuleEntry
    <3> QED
      BY <3>1, <3>2
  <2>5. CASE key \notin {"shard_column", "method", "shards", "broadcast"}
    BY <1>3, <2>5 DEF TableKey, known, grown, idx
  <2> QED
    BY <2>1, <2>2, <2>3, <2>4, <2>5
<1> QED
  BY ONLY <1>1, <1>4, RuleReplaced

-----------------------------------------------------------------------------
(* The inductive invariant of the loader.  What MapSound says of the map   *)
(* follows from where its parts come from: its shards are the temporary    *)
(* ones as soon as the file is read, and its rules are the first of the    *)
(* temporary rules, in their order.                                        *)
MapRule == [table_name : Word_, shard_column : Word_, method : {"hash", "range"},
            broadcast : BOOLEAN, shards : Seq(Nat)]

Listed(list, n) == Len(list) <= n /\ \A i \in DOMAIN list : list[i] \in 1..n

Read ==
  /\ file \in Seq(Line) /\ line \in 0..Len(file) /\ section_arg \in Word_
  /\ tmp_shards \in Seq(ShardEntry) /\ ShardNames(tmp_shards)
  /\ tmp_rules \in Seq(RuleEntry) /\ RuleNames(tmp_rules)
  /\ Len(tmp_shards) <= MAX_SHARDS /\ Len(tmp_rules) <= MAX_TABLES

Built ==
  /\ map = [shards |-> map.shards, table_rules |-> map.table_rules,
            pool_size |-> map.pool_size]
  /\ map.table_rules \in Seq(MapRule)
  /\ phase = "read" => map.shards = <<>> /\ map.table_rules = <<>>
  /\ phase # "read" => map.shards = tmp_shards
  /\ phase = "list" => map.table_rules # <<>>
  /\ Len(map.table_rules) <= Len(tmp_rules)
  /\ \A r \in DOMAIN map.table_rules :
       /\ map.table_rules[r].table_name = tmp_rules[r].table_name
       /\ Listed(map.table_rules[r].shards, Len(map.shards))

Loaded == Read /\ Built

\* At the start nothing is read and the map is empty.
LEMMA InitLoaded == Init => Loaded
<1> SUFFICES ASSUME Init PROVE Loaded
  OBVIOUS
<1>1. file \in Seq(Line) /\ line \in 0..Len(file)
  <2>1. file \in Files \/ file = <<>>
    BY Zenon DEF Init, NoFile
  <2>2. Files \subseteq Seq(Line) /\ line = 0
    BY ConfigAssumption DEF Init
  <2>3. file \in Seq(Line)
    BY <2>1, <2>2, EmptySeq, Zenon
  <2> QED
    BY ONLY <2>2, <2>3
<1>2. /\ section_arg = Unset /\ tmp_shards = <<>> /\ tmp_rules = <<>>
      /\ map = [shards |-> <<>>, table_rules |-> <<>>, pool_size |-> 0]
      /\ phase # "list"
  <2>1. options.path \in {"none", "missing", "given"}
    BY ConfigAssumption DEF Init, Option
  <2>2. phase = CASE options.path = "given" -> "read"
                  [] options.path = "none" -> "rules"
                  [] options.path = "missing" -> "failed"
    BY DEF Init
  <2>3. phase # "list"
    BY ONLY <2>1, <2>2
  <2> QED
    BY <2>3 DEF Init, EmptyMap
<1>3. Read
  BY <1>1, <1>2, ConfigAssumption DEF Read, Word_, ShardNames, RuleNames
<1>4. Built
  BY <1>2 DEF Built
<1> QED
  BY <1>3, <1>4 DEF Loaded

\* A line of the file keeps the tables typed, within bounds and without doubles.
LEMMA ReadingLoaded ==
  ASSUME Loaded, Header \/ Ignored \/ KeyValue
  PROVE  Loaded'
<1> DEFINE l == file[line + 1]
<1>1. /\ phase = "read" /\ line + 1 \in 0..Len(file) /\ l \in Line /\ line' = line + 1
      /\ UNCHANGED <<phase, file, map>>
  <2>1. file \in Seq(Line) /\ line \in 0..Len(file)
    BY DEF Loaded, Read
  <2>2. /\ phase = "read" /\ line < Len(file) /\ line' = line + 1
        /\ phase' = phase /\ file' = file /\ map' = map
    <3>1. CASE Header
      BY <3>1 DEF Header
    <3>2. CASE Ignored
      BY <3>2 DEF Ignored
    <3>3. CASE KeyValue
      BY <3>3 DEF KeyValue
    <3> QED
      BY <3>1, <3>2, <3>3
  <2> QED
    BY ONLY <2>1, <2>2
<1>2. section_arg' \in Word_ /\ UNCHANGED <<tmp_shards, tmp_rules>> => Read'
  BY <1>1 DEF Loaded, Read
<1>3. Read'
  <2>1. CASE Header
    BY <1>1, <1>2, <2>1 DEF Header, Line, Word_
  <2>2. CASE Ignored
    BY <1>2, <2>2 DEF Ignored, Loaded, Read
  <2>3. CASE KeyValue
    <3>1. l.val \in Value /\ section_arg' = section_arg
      BY <1>1, <2>3 DEF KeyValue, Line
    <3>2. /\ tmp_shards' \in Seq(ShardEntry) /\ ShardNames(tmp_shards')
          /\ Len(tmp_shards') <= MAX_SHARDS
      <4>1. CASE HasRoom(tmp_shards, MAX_SHARDS)
        <5>1. \/ tmp_shards' = tmp_shards
              \/ tmp_shards' = ShardKey(tmp_shards, section_arg, l.key, l.val)
          BY <2>3 DEF KeyValue
        <5>2. PICK q : q = ShardKey(tmp_shards, section_arg, l.key, l.val)
          OBVIOUS
        <5>3. q \in Seq(ShardEntry) /\ ShardNames(q) /\ Len(q) <= Len(tmp_shards) + 1
          BY <3>1, <5>2, ShardKeyFacts DEF Loaded, Read
        <5> QED
          BY <4>1, <5>1, <5>2, <5>3, ConfigAssumption DEF Loaded, Read, HasRoom
      <4>2. CASE ~HasRoom(tmp_shards, MAX_SHARDS)
        BY <2>3, <4>2 DEF KeyValue, Loaded, Read
      <4> QED
        BY <4>1, <4>2
    <3>3. /\ tmp_rules' \in Seq(RuleEntry) /\ RuleNames(tmp_rules')
          /\ Len(tmp_rules') <= MAX_TABLES
      <4>1. CASE HasRoom(tmp_rules, MAX_TABLES)
        <5>1. \/ tmp_rules' = tmp_rules
              \/ tmp_rules' = TableKey(tmp_rules, section_arg, l.key, l.val)
          BY <2>3 DEF KeyValue
        <5>2. PICK q : q = TableKey(tmp_rules, section_arg, l.key, l.val)
          OBVIOUS
        <5>3. q \in Seq(RuleEntry) /\ RuleNames(q) /\ Len(q) <= Len(tmp_rules) + 1
          BY <3>1, <5>2, TableKeyFacts DEF Loaded, Read
        <5> QED
          BY <4>1, <5>1, <5>2, <5>3, ConfigAssumption DEF Loaded, Read, HasRoom
      <4>2. CASE ~HasRoom(tmp_rules, MAX_TABLES)
        BY <2>3, <4>2 DEF KeyValue, Loaded, Read
      <4> QED
        BY <4>1, <4>2
    <3> QED
      BY <1>1, <3>1, <3>2, <3>3 DEF Loaded, Read
  <2> QED
    BY <2>1, <2>2, <2>3
<1>4. Built'
  <2>1. Len(tmp_rules') \in Nat
    BY <1>3 DEF Read
  <2> QED
    BY <1>1, <2>1 DEF Loaded, Built
<1> QED
  BY <1>3, <1>4 DEF Loaded

\* The end of the file: the map gets the shards, and no rules yet.
LEMMA EndLoaded ==
  ASSUME Loaded, EndOfFile
  PROVE  Loaded'
<1>1. Read'
  BY DEF Loaded, Read, EndOfFile
<1>2. /\ map' = [shards |-> tmp_shards, table_rules |-> <<>>,
                 pool_size |-> cfg.default_pool_size]
      /\ phase' = "rules" /\ tmp_shards' = tmp_shards
  BY DEF EndOfFile
<1>3. Len(tmp_rules') \in Nat
  BY <1>1 DEF Read
<1>4. Built'
  BY ONLY <1>2, <1>3 DEF Built
<1> QED
  BY <1>1, <1>4 DEF Loaded

\* The next rule: it has the name of its temporary rule, and no shards or all.
LEMMA BuildLoaded ==
  ASSUME Loaded, BuildRule
  PROVE  Loaded'
<1>1. Read'
  BY DEF Loaded, Read, BuildRule
<1> DEFINE rules == map.table_rules
           k == Len(rules) + 1
           t == tmp_rules[k]
<1>2. /\ rules \in Seq(MapRule) /\ Len(rules) \in Nat /\ Len(rules) < Len(tmp_rules)
      /\ k \in DOMAIN tmp_rules /\ t \in RuleEntry /\ Len(map.shards) \in Nat
      /\ map.shards = tmp_shards
  BY DEF Loaded, Built, Read, BuildRule
<1>3. AllShards \in Seq(Nat) /\ Listed(AllShards, Len(map.shards))
  BY <1>2 DEF AllShards, Listed
<1>4. PICK list : /\ list \in {AllShards, <<>>}
                  /\ map' = [map EXCEPT !.table_rules =
                       Append(rules, [table_name |-> t.table_name,
                                      shard_column |-> t.shard_column,
                                      method |-> IF t.method = "hash" THEN "hash"
                                                 ELSE "range",
                                      broadcast |-> t.broadcast,
                                      shards |-> list])]
                  /\ phase' \in {"list", "rules"}
  <2> DEFINE listed == t.shard_list.text # Unset /\ map.shards # <<>>
             l == IF ~listed /\ t.broadcast THEN AllShards ELSE <<>>
  <2>1. l \in {AllShards, <<>>}
    OBVIOUS
  <2>2. phase' \in {"list", "rules"}
    BY DEF BuildRule
  <2>3. map' = [map EXCEPT !.table_rules =
                  Append(rules, [table_name |-> t.table_name,
                                 shard_column |-> t.shard_column,
                                 method |-> IF t.method = "hash" THEN "hash"
                                            ELSE "range",
                                 broadcast |-> t.broadcast, shards |-> l])]
    BY Zenon DEF BuildRule
  <2> QED
    BY <2>1, <2>2, <2>3, Zenon
<1>5. list \in Seq(Nat) /\ Listed(list, Len(map.shards))
  <2>1. list = AllShards \/ list = <<>>
    BY <1>4
  <2>2. <<>> \in Seq(Nat) /\ Listed(<<>>, Len(map.shards))
    BY <1>2 DEF Listed
  <2> QED
    BY ONLY <1>3, <2>1, <2>2
<1>6. PICK e \in MapRule : /\ e.table_name = t.table_name
                           /\ Listed(e.shards, Len(map.shards))
                           /\ map' = [map EXCEPT !.table_rules = Append(rules, e)]
  <2> DEFINE e == [table_name |-> t.table_name, shard_column |-> t.shard_column,
                   method |-> IF t.method = "hash" THEN "hash" ELSE "range",
                   broadcast |-> t.broadcast, shards |-> list]
  <2>1. e \in MapRule
    BY <1>2, <1>5 DEF MapRule, RuleEntry
  <2>2. e.table_name = t.table_name /\ e.shards = list
    OBVIOUS
  <2> QED
    BY <1>4, <1>5, <2>1, <2>2, Zenon
<1>7. /\ map'.shards = map.shards /\ map'.table_rules = Append(rules, e)
      /\ map' = [shards |-> map'.shards, table_rules |-> map'.table_rules,
                 pool_size |-> map'.pool_size]
  BY <1>6 DEF Loaded, Built
<1>8. PICK q : q = Append(rules, e)
  OBVIOUS
<1>9. /\ q \in Seq(MapRule) /\ Len(q) = k /\ q # <<>> /\ q[k] = e
      /\ \A r \in DOMAIN rules : q[r] = rules[r]
      /\ \A r \in DOMAIN q : r \in DOMAIN rules \/ r = k
  <2> HIDE DEF rules
  <2> QED
    BY <1>2, <1>8
<1>10. \A r \in DOMAIN q : /\ q[r].table_name = tmp_rules[r].table_name
                           /\ Listed(q[r].shards, Len(map.shards))
  BY <1>6, <1>9 DEF Loaded, Built
<1>11. tmp_rules' = tmp_rules /\ tmp_shards' = tmp_shards
  BY DEF BuildRule
<1>12. Len(q) <= Len(tmp_rules)
  BY <1>2, <1>9, <1>1 DEF Read
<1>13. Built'
  BY ONLY <1>2, <1>4, <1>7, <1>8, <1>9, <1>10, <1>11, <1>12 DEF Built
<1> QED
  BY <1>1, <1>13 DEF Loaded

\* The next name of a list: a shard of the map is added, while there is room.
LEMMA NameLoaded ==
  ASSUME Loaded, ShardName
  PROVE  Loaded'
<1>1. Read'
  BY DEF Loaded, Read, ShardName
<1> DEFINE rules == map.table_rules
           r == Len(rules)
           names == tmp_rules[r].shard_list.list
           idx == find_shard_index(map.shards, names[tok + 1])
<1>2. /\ rules \in Seq(MapRule) /\ rules # <<>> /\ Len(map.shards) \in Nat
      /\ map.shards \in Seq(ShardEntry) /\ map.shards = tmp_shards
      /\ phase' \in {"list", "rules"}
      /\ tmp_rules' = tmp_rules /\ tmp_shards' = tmp_shards
  BY DEF Loaded, Built, Read, ShardName
<1>3. r \in DOMAIN rules /\ rules[r] \in MapRule /\ r \in Nat \ {0}
  BY <1>2
<1>4. CASE map' = map
  BY <1>1, <1>2, <1>4 DEF Loaded, Built
<1>5. CASE map' # map
  <2>1. /\ map' = [map EXCEPT !.table_rules[r].shards = Append(@, idx)]
        /\ idx # 0 /\ Len(rules[r].shards) < Len(map.shards)
    BY <1>5, Zenon DEF ShardName, More
  <2>2. idx \in 1..Len(map.shards)
    <3>1. idx = 0 \/ idx \in DOMAIN map.shards
      BY <1>2, FindShard, Zenon
    <3> HIDE DEF idx
    <3> QED
      BY <1>2, <2>1, <3>1
  <2> HIDE DEF idx
  <2>3. PICK list : list = Append(rules[r].shards, idx)
    OBVIOUS
  <2>4. rules[r].shards \in Seq(Nat) /\ Listed(rules[r].shards, Len(map.shards))
    BY <1>3 DEF Loaded, Built, MapRule
  <2>5. list \in Seq(Nat) /\ Listed(list, Len(map.shards))
    <3>1. PICK old \in Seq(Nat) : old = rules[r].shards
      BY <2>4
    <3>2. /\ list \in Seq(Nat) /\ Len(list) = Len(old) + 1 /\ list[Len(old) + 1] = idx
          /\ \A i \in DOMAIN list : (i \in DOMAIN old /\ list[i] = old[i]) \/ i = Len(old) + 1
      BY ONLY <2>2, <2>3, <3>1, <1>2
    <3>3. Len(old) + 1 <= Len(map.shards)
      BY <1>2, <2>1, <3>1
    <3> QED
      BY ONLY <2>2, <2>4, <3>1, <3>2, <3>3 DEF Listed
  <2>6. PICK e : e = [rules[r] EXCEPT !.shards = list]
    OBVIOUS
  <2>7. e \in MapRule /\ e.shards = list /\ e.table_name = rules[r].table_name
    BY <1>3, <2>5, <2>6 DEF MapRule
  <2>8. PICK q : q = [rules EXCEPT ![r] = e]
    OBVIOUS
  <2>9. /\ map'.table_rules = q /\ map'.shards = map.shards
        /\ map' = [shards |-> map'.shards, table_rules |-> map'.table_rules,
                   pool_size |-> map'.pool_size]
    <3>1. map' = [map EXCEPT !.table_rules = q]
      BY <2>1, <2>3, <2>6, <2>8
    <3> QED
      BY <3>1 DEF Loaded, Built
  <2>10. /\ q \in Seq(MapRule) /\ Len(q) = Len(rules) /\ DOMAIN q = DOMAIN rules
         /\ q[r] = e /\ \A i \in DOMAIN rules : i # r => q[i] = rules[i]
    <3> HIDE DEF rules
    <3> QED
      BY <1>2, <1>3, <2>7, <2>8, ExceptSeq
  <2>11. \A i \in DOMAIN q : /\ q[i].table_name = tmp_rules[i].table_name
                             /\ Listed(q[i].shards, Len(map.shards))
    BY <1>3, <2>5, <2>7, <2>10 DEF Loaded, Built
  <2>12. Len(q) <= Len(tmp_rules) /\ q # <<>>
    <3>1. Len(rules) <= Len(tmp_rules)
      BY DEF Loaded, Built
    <3> QED
      BY ONLY <1>3, <2>10, <3>1
  <2>13. Built'
    BY ONLY <1>2, <2>9, <2>10, <2>11, <2>12 DEF Built
  <2> QED
    BY <1>1, <2>13 DEF Loaded
<1> QED
  BY <1>4, <1>5

\* Every step of the loader keeps the invariant.
LEMMA LoadingLoaded ==
  ASSUME Loaded, [Loading]_vars
  PROVE  Loaded'
<1>1. CASE Override
  BY <1>1 DEF Override, Loaded, Read, Built
<1>2. CASE UNCHANGED vars
  BY <1>2 DEF vars, Loaded, Read, Built
<1> QED
  BY <1>1, <1>2, ReadingLoaded, EndLoaded, BuildLoaded, NameLoaded DEF Loading

\* The invariant gives what MapSound says of the map.
LEMMA LoadedSound ==
  ASSUME Loaded
  PROVE  MapSound
<1>1. /\ map.shards = tmp_shards \/ map.shards = <<>>
      /\ ShardNames(tmp_shards) /\ RuleNames(tmp_rules)
      /\ map.table_rules \in Seq(MapRule) /\ tmp_rules \in Seq(RuleEntry)
      /\ tmp_shards \in Seq(ShardEntry)
      /\ Len(map.table_rules) <= Len(tmp_rules)
      /\ \A r \in DOMAIN map.table_rules :
           /\ map.table_rules[r].table_name = tmp_rules[r].table_name
           /\ Listed(map.table_rules[r].shards, Len(map.shards))
  BY DEF Loaded, Read, Built
<1>2. Bounded
  BY <1>1 DEF Bounded, Loaded, Read, Listed
<1>3. \A i, j \in DOMAIN map.shards : map.shards[i].name = map.shards[j].name => i = j
  BY <1>1 DEF ShardNames
<1>4. \A i, j \in DOMAIN map.table_rules :
        map.table_rules[i].table_name = map.table_rules[j].table_name => i = j
  <2>1. DOMAIN map.table_rules \subseteq DOMAIN tmp_rules
    BY <1>1
  <2> QED
    BY ONLY <1>1, <2>1 DEF RuleNames
<1>5. \A r \in DOMAIN map.table_rules : \A i \in DOMAIN map.table_rules[r].shards :
        map.table_rules[r].shards[i] \in DOMAIN map.shards
  <2>1. DOMAIN map.shards = 1..Len(map.shards)
    BY <1>1
  <2> QED
    BY ONLY <1>1, <2>1 DEF Listed
<1> QED
  BY <1>2, <1>3, <1>4, <1>5 DEF MapSound

\* Whatever the file and the command line, config_load stays within its
\* arrays and builds a sound map: MapSound holds at every moment of start-up.
THEOREM LoaderSound == LoadSpec => []MapSound
<1>1. Init => Loaded
  BY InitLoaded
<1>2. Loaded /\ [Loading]_vars => Loaded'
  BY LoadingLoaded
<1>3. Loaded => MapSound
  BY LoadedSound
<1> QED
  BY <1>1, <1>2, <1>3, PTL DEF LoadSpec

-----------------------------------------------------------------------------
\* A lookup of a key gives a shard of the rule's list, if the list has one.
LEMMA FindFacts ==
  ASSUME NEW m, m.table_rules \in Seq(MapRule), NEW r \in DOMAIN m.table_rules,
         NEW ukey \in Nat
  PROVE  \/ Find(m, r, ukey) = 0
         \/ \E j \in DOMAIN RuleShards(m, r) : Find(m, r, ukey) = RuleShards(m, r)[j]
<1>1. PICK list \in Seq(Nat) : list = RuleShards(m, r)
  <2>1. m.table_rules[r] \in MapRule
    OBVIOUS
  <2>2. m.table_rules[r].shards \in Seq(Nat)
    BY <2>1 DEF MapRule
  <2> QED
    BY <2>2, Zenon DEF RuleShards
<1>2. CASE list = <<>>
  BY <1>1, <1>2 DEF Find
<1>3. CASE list # <<>>
  <2>1. Len(list) \in Nat \ {0} /\ DOMAIN list = 1..Len(list)
    BY <1>3
  <2>2. \E j \in DOMAIN list : FindByHash(m, r, ukey) = list[j]
    <3>1. PICK j : j = 1 + (ukey % Len(list))
      OBVIOUS
    <3>2. j \in 1..Len(list)
      BY <2>1, <3>1
    <3> QED
      BY <1>1, <2>1, <3>1, <3>2 DEF FindByHash
  <2>3. \E j \in DOMAIN list : FindInRanges(m, r, ukey) = list[j]
    <3> DEFINE S == {i \in DOMAIN list : InRange(m, list[i], ukey)}
    <3>1. S \in SUBSET (Nat \ {0})
      BY <2>1
    <3>2. First(S) = 0 \/ First(S) \in S
      BY <3>1, FirstFacts
    <3>3. FindInRanges(m, r, ukey) = IF First(S) = 0 THEN list[1] ELSE list[First(S)]
      BY <1>1 DEF FindInRanges
    <3>4. 1 \in DOMAIN list /\ S \subseteq DOMAIN list
      BY <2>1
    <3> HIDE DEF S
    <3> QED
      BY <3>2, <3>3, <3>4
  <2>4. Find(m, r, ukey) \in {FindByHash(m, r, ukey), FindInRanges(m, r, ukey)}
    BY <1>1, <1>3 DEF Find
  <2> QED
    BY <1>1, <2>2, <2>3, <2>4
<1> QED
  BY <1>2, <1>3

\* A scatter goes to the rule's whole list.
LEMMA ScatterSound ==
  ASSUME NEW m, NEW r, r # 0
  PROVE  SoundFor(m, Scatter(m, r))
BY DEF SoundFor, Scatter, Decision, shard_map_get_all

\* The decision by the key of a statement is sound.
LEMMA ByKeySound ==
  ASSUME NEW m, m.table_rules \in Seq(MapRule), NEW r \in DOMAIN m.table_rules,
         NEW parsed, Keyed(parsed)
  PROVE  SoundFor(m, ByKey(m, r, parsed))
<1>0. r # 0
  OBVIOUS
<1> DEFINE target == IF parsed.is_int
                     THEN shard_map_find_by_int(m, r, parsed.int)
                     ELSE shard_map_find_by_str(m, r, parsed.str)
<1>1. CASE ByKey(m, r, parsed) = Scatter(m, r)
  BY <1>0, <1>1, ScatterSound
<1>2. CASE ByKey(m, r, parsed) = Decision("undefined", r, <<>>)
  BY <1>0, <1>2 DEF SoundFor, Decision
<1>3. CASE /\ ByKey(m, r, parsed) = Decision("single", r, <<target>>)
           /\ parsed.found /\ target # 0
  <2>1. \E j \in DOMAIN RuleShards(m, r) : target = RuleShards(m, r)[j]
    <3>1. CASE parsed.is_int
      <4>1. PICK ukey : ukey = parsed.int % U64
        OBVIOUS
      <4>2. ukey \in Nat
        BY <1>3, <3>1, <4>1, ConfigAssumption DEF Keyed
      <4>3. target = Find(m, r, ukey)
        BY <3>1, <4>1 DEF shard_map_find_by_int
      <4> QED
        BY <1>3, <4>2, <4>3, FindFacts, Zenon
    <3>2. CASE ~parsed.is_int
      <4>1. PICK ukey : ukey = Hash(parsed.str)
        OBVIOUS
      <4>2. ukey \in Nat
        BY <1>3, <3>2, <4>1, ConfigAssumption, HashAssumption DEF Keyed
      <4>3. target = Find(m, r, ukey)
        BY <3>2, <4>1 DEF shard_map_find_by_str
      <4> QED
        BY <1>3, <4>2, <4>3, FindFacts, Zenon
    <3> QED
      BY <3>1, <3>2
  <2> HIDE DEF target
  <2> QED
    BY <1>0, <1>3, <2>1 DEF SoundFor, Decision
<1> QED
  BY <1>1, <1>2, <1>3, Zenon DEF ByKey

\* Every decision of router_decide is sound for the map it was taken with.
LEMMA DecideSound ==
  ASSUME NEW m, m.table_rules \in Seq(MapRule), NEW parsed,
         \A column : Keyed(SecondPass(parsed, column))
  PROVE  SoundFor(m, router_decide(m, parsed))
<1> DEFINE r == shard_map_find_rule(m, parsed.table_name)
           second == SecondPass(parsed, m.table_rules[r].shard_column)
<1>1. r = 0 \/ r \in DOMAIN m.table_rules
  BY FindRule, Zenon DEF shard_map_find_rule
<1>2. Keyed(second)
  OBVIOUS
<1>3. CASE /\ router_decide(m, parsed) = ByKey(m, r, second) /\ r # 0
  BY <1>1, <1>2, <1>3, ByKeySound, Zenon
<1>4. CASE router_decide(m, parsed) = Scatter(m, r) /\ r # 0
  BY <1>4, ScatterSound, Zenon
<1>5. CASE \E type \in {"local", "default"} :
             router_decide(m, parsed) = Decision(type, 0, <<>>)
  BY <1>5 DEF SoundFor, Decision
<1> HIDE DEF r, second
<1>6. \/ router_decide(m, parsed) = ByKey(m, r, second) /\ r # 0
      \/ router_decide(m, parsed) = Scatter(m, r) /\ r # 0
      \/ router_decide(m, parsed) = Decision("local", 0, <<>>)
      \/ router_decide(m, parsed) = Decision("default", 0, <<>>)
  BY Zenon DEF router_decide, r, second
<1> QED
  BY <1>3, <1>4, <1>5, <1>6

\* Whatever the configuration, the statement and the hash function, the router
\* only ever names shards of the list of the statement's table, one for a
\* keyed statement and the whole list for a scatter: what RouteSound says of
\* the decisions taken, for every decision that could be.
THEOREM RouterSound ==
  ASSUME NEW parsed, \A column : Keyed(SecondPass(parsed, column))
  PROVE  LoadSpec => []SoundFor(map, router_decide(map, parsed))
<1>1. Init => Loaded
  BY InitLoaded
<1>2. Loaded /\ [Loading]_vars => Loaded'
  BY LoadingLoaded
<1>3. Loaded => SoundFor(map, router_decide(map, parsed))
  BY DecideSound DEF Loaded, Built
<1> QED
  BY <1>1, <1>2, <1>3, PTL DEF LoadSpec
=============================================================================
