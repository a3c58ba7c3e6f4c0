---------------------------- MODULE MCFileLock ------------------------------
(* FileLock for TLC: Nodes and maintenance exclude each other, and two     *)
(* processes update one configuration.                                     *)
EXTENDS FileLock, TLC

CONSTANTS node, maintenance, config, n1, n2, m1, c1, c2, p, q

WantedPath == (n1 :> node) @@ (n2 :> node) @@ (m1 :> maintenance) @@ (c1 :> config) @@ (c2 :> config)
RunIn      == (n1 :> p) @@ (n2 :> q) @@ (m1 :> q) @@ (c1 :> p) @@ (c2 :> q)
RivalPath  == (node :> maintenance) @@ (maintenance :> node) @@ (config :> NoPath)

PathsOf    == [a \in Attempts |-> WantedPath[a]]
ProcessesOf == [a \in Attempts |-> RunIn[a]]
Together   == {party \cap Attempts : party \in {{n1, n2}, {n1, m1}, {c1, c2}}}
Rivals     == [x \in Paths |-> RivalPath[x]]
=============================================================================
