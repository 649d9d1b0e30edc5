------------------------------ MODULE MCSession ------------------------------
(***************************************************************************)
(* Instances of Session for TLC.  Shards and connections are model values; *)
(* the queries and the servers' result lists are chosen per configuration. *)
(* The router looks at the first statement of a query only, so a query of  *)
(* several statements can open or end a transaction on any route.          *)
(***************************************************************************)
EXTENDS Session, TLC

CONSTANTS sh1, sh2

single(sh, o) == [route |-> "single", shard |-> sh, op |-> o]
other(r, o) == [route |-> r, shard |-> NULL, op |-> o]

\* Queries for a shard, a transaction there, and queries for all shards.
Basic == {single(sh1, "query"), single(sh1, "begin"), other("scatter", "query")}

\* All routes, and transactions on each of them.
Statements == Basic \cup {other("default", "begin"), other("default", "commit"),
                          other("scatter", "begin"), other("local", "query"),
                          other("syntax", "query")}

\* COPY, which goes to the default backend, and a scatter after it.
Copies == {other("default", "copyin"), other("default", "copyout"),
           other("scatter", "query")}

\* Without a shard map: everything goes to the default backend.
Unsharded == {other("default", "query"), other("default", "begin"),
              other("default", "commit")}

OneRowSet == {<<"Rows">>}
TwoRowSets == {<<"Rows", "Rows">>}
Symmetry == Permutations(Conns)
=============================================================================
