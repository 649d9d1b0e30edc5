------------------------------ MODULE Lending ------------------------------
(***************************************************************************)
(* What the pools and sessions together promise about connections: each    *)
(* one is idle at one shard, held by one session, or nobody's.  A step     *)
(* belongs to one session, which takes and gives back connections without  *)
(* touching those of the others; only what it held becomes idle.  Idle     *)
(* connections may also be dropped.                                        *)
(***************************************************************************)
CONSTANTS Sessions, Shards

VARIABLES idle,   \* the idle connections of each shard
          held    \* the connections of each session

Init == /\ idle = [a \in Shards |-> {}]
        /\ held = [s \in Sessions |-> {}]

OneOwnerEach ==
  /\ \A a, b \in Shards : a # b => idle[a] \cap idle[b] = {}
  /\ \A s, t \in Sessions : s # t => held[s] \cap held[t] = {}
  /\ \A a \in Shards, s \in Sessions : idle[a] \cap held[s] = {}

Exchange(s) ==
  /\ \A t \in Sessions \ {s} : held'[t] = held[t]
  /\ \A a \in Shards : idle'[a] \subseteq idle[a] \cup held[s]
  /\ OneOwnerEach'

Drop == /\ \A a \in Shards : idle'[a] \subseteq idle[a]
        /\ held' = held

Next == Drop \/ \E s \in Sessions : Exchange(s)

Spec == Init /\ [][Next]_<<idle, held>>
=============================================================================
