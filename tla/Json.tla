-------------------------------- MODULE Json --------------------------------
(***************************************************************************)
(* json_util.c: finding keys and values in the text of a parse tree        *)
(* without parsing it.                                                     *)
(*                                                                         *)
(* A text is a sequence of tokens: <<"p", c>> for a punctuation character, *)
(* <<"s", w>> for a string with its quotes, <<"n", i>> for a number or     *)
(* constant.  libpg_query writes no space between them.  A pointer into    *)
(* the text is a position; NULL is 0.                                      *)
(***************************************************************************)
EXTENDS Integers, Sequences, SequencesExt

NULL == 0
NUL == <<"p", "">>
P(c) == <<"p", c>>
S(w) == <<"s", w>>

At(t, p) == IF p <= Len(t) THEN t[p] ELSE NUL
IsString(x) == x[1] = "s"

skip_string(t, p) == IF IsString(At(t, p)) THEN p + 1 ELSE p
skip_if(t, p, c) == IF At(t, p) = P(c) THEN p + 1 ELSE p

Least(at) == CHOOSE p \in at : \A q \in at : p <= q

(* From an open bracket: behind its partner, where as many have closed as  *)
(* were opened.  Brackets of the other kind are not looked at.             *)
SkipNested(t, p, open, close) ==
  LET opened == {q \in p..Len(t) : t[q] = P(open)}
      closed == {q \in p..Len(t) : t[q] = P(close)}
      ends == {q \in closed : Cardinality({r \in closed : r <= q})
                              = Cardinality({r \in opened : r <= q})}
  IN IF ends = {} THEN Len(t) + 1 ELSE Least(ends) + 1

\* Mutant: the first closing bracket ends the value.
SkipToFirst(t, p) ==
  LET close == IF At(t, p) = P("{") THEN P("}") ELSE P("]")
  IN IF At(t, p) \notin {P("{"), P("[")} THEN p + 1
     ELSE 1 + Least({q \in p..Len(t) : t[q] = close})

json_skip_value(t, p) ==
  CASE At(t, p) = P("{") -> SkipNested(t, p, "{", "}")
    [] At(t, p) = P("[") -> SkipNested(t, p, "[", "]")
    [] At(t, p) \in {NUL, P(","), P("}"), P("]")} -> p
    [] OTHER -> p + 1

(* The members of an object, from position p: the value of the first with  *)
(* the key, or NULL at the closing bracket or at what is no key.           *)
RECURSIVE FindMember(_, _, _)
FindMember(t, p, key) ==
  CASE ~IsString(At(t, p)) -> NULL
    [] At(t, p) = S(key) -> skip_if(t, p + 1, ":")
    [] OTHER ->
         LET value == skip_if(t, skip_string(t, p), ":")
         IN FindMember(t, skip_if(t, json_skip_value(t, value), ","), key)

json_find_key(t, p, key) ==
  IF p = NULL \/ At(t, p) # P("{") THEN NULL ELSE FindMember(t, p + 1, key)

json_get_string(t, p) ==
  IF p # NULL /\ IsString(At(t, p)) THEN At(t, p)[2] ELSE ""

json_get_int(t, p) == IF p # NULL /\ At(t, p)[1] = "n" THEN At(t, p)[2] ELSE 0

json_starts_with_key(t, p, key) ==
  p # NULL /\ At(t, p) = P("{") /\ At(t, p + 1) = S(key)

(* An object's own members first, then its values from left to right; the  *)
(* elements of an array from left to right.                                *)
RECURSIVE json_find_key_recursive(_, _, _)
RECURSIVE FindInValues(_, _, _, _)
FindInValues(t, p, key, close) ==
  IF At(t, p) \in {NUL, P(close)} THEN NULL
  ELSE IF close = "}" /\ ~IsString(At(t, p)) THEN FindInValues(t, p + 1, key, close)
  ELSE LET value == IF close = "}" THEN skip_if(t, skip_string(t, p), ":")
                    ELSE p
           found == json_find_key_recursive(t, value, key)
       IN IF found # NULL THEN found
          ELSE FindInValues(t, skip_if(t, json_skip_value(t, value), ","),
                            key, close)

json_find_key_recursive(t, p, key) ==
  CASE p # NULL /\ At(t, p) = P("{") ->
         LET own == json_find_key(t, p, key)
         IN IF own # NULL THEN own ELSE FindInValues(t, p + 1, key, "}")
    [] p # NULL /\ At(t, p) = P("[") -> FindInValues(t, p + 1, key, "]")
    [] OTHER -> NULL

(* A scan from p to the end of the text, which is not the end of the value *)
(* at p.  A value that is found is not searched itself.                    *)
RECURSIVE json_find_all_values(_, _, _)
json_find_all_values(t, p, key) ==
  LET at == {q \in p..Len(t) - 1 : t[q] = S(key) /\ t[q + 1] = P(":")}
      value == Least(at) + 2
  IN IF p = NULL \/ at = {} THEN <<>>
     ELSE <<value>> \o json_find_all_values(t, json_skip_value(t, value), key)

-----------------------------------------------------------------------------
(* Reference: JSON values, the text that is written for them, and what a   *)
(* reader that parses the text would find.                                 *)

Obj(members) ==
  [type |-> "object",
   members |-> [i \in DOMAIN members |-> [type |-> "member",
                                          key |-> members[i][1],
                                          value |-> members[i][2]]]]
Arr(elements) == [type |-> "array", elements |-> elements]
Str(w) == [type |-> "string", value |-> w]
Num(i) == [type |-> "number", value |-> i]
Absent == [type |-> "absent"]

RECURSIVE Text(_)
RECURSIVE Joined(_, _)
Joined(parts, n) ==
  CASE n = 0 -> <<>>
    [] n = 1 -> Text(parts[1])
    [] OTHER -> Joined(parts, n - 1) \o <<P(",")>> \o Text(parts[n])

Text(v) ==
  CASE v.type = "object" ->
         <<P("{")>> \o Joined(v.members, Len(v.members)) \o <<P("}")>>
    [] v.type = "member" -> <<S(v.key), P(":")>> \o Text(v.value)
    [] v.type = "array" ->
         <<P("[")>> \o Joined(v.elements, Len(v.elements)) \o <<P("]")>>
    [] v.type = "string" -> <<S(v.value)>>
    [] v.type = "number" -> <<<<"n", v.value>>>>

Children(v) ==
  CASE v.type = "object" -> [i \in DOMAIN v.members |-> v.members[i].value]
    [] v.type = "array" -> v.elements
    [] OTHER -> <<>>

Member(v, key) ==
  IF v.type # "object" THEN Absent
  ELSE LET at == {i \in DOMAIN v.members : v.members[i].key = key}
       IN IF at = {} THEN Absent
          ELSE v.members[Least(at)].value

RECURSIVE MemberAnywhere(_, _)
RECURSIVE MemberBelow(_, _)
MemberBelow(children, key) ==
  IF children = <<>> THEN Absent
  ELSE LET first == MemberAnywhere(Head(children), key)
       IN IF first # Absent THEN first ELSE MemberBelow(Tail(children), key)

MemberAnywhere(v, key) ==
  LET own == Member(v, key)
  IN IF own # Absent THEN own ELSE MemberBelow(Children(v), key)

RECURSIVE Nodes(_)
Nodes(v) == {v} \cup UNION {Nodes(Children(v)[i]) : i \in DOMAIN Children(v)}
=============================================================================
