------------------------------ MODULE MCRunMatrix ------------------------------
(***************************************************************************)
(* Three points over two local configs, one in docker, an attached one, a  *)
(* probe and a bench: all runs of one config, a config met again later,    *)
(* and mixed kinds; every point resets the prefix cache, or one does not.  *)
(* Then grids that build their engine here, before, between and after      *)
(* servers, with the pins of the others and not.                           *)
(***************************************************************************)
EXTENDS RunMatrix

CONSTANTS a, b, d, x, k, q, p1, p2

MCKind == [c \in {a, b, d, x, k, q} |->
  CASE c \in {a, b} -> "start" [] c = d -> "docker" [] c = x -> "attach" [] c = k -> "probe" [] c = q -> "bench"]
MCPins == [c \in {a, b, d, x, k, q} |-> IF c \in {a, x, k} THEN p1 ELSE p2]

Of(s, r, h) == [config |-> s, kind |-> MCKind, pins |-> MCPins, resets |-> r, builds |-> h]

Served == {<<a, a, a>>, <<a, a, b>>, <<a, b, a>>, <<x, x, a>>, <<a, k, a>>, <<k, x, x>>}

MCServed == {Of(s, r, {}) : s \in Served, r \in {1 .. 3, {1, 3}, {}}}

MCMatrices ==
  MCServed
    \cup {Of(s, 1 .. 3, {}) : s \in {<<d, d, a>>, <<q, d, q>>}}
    \cup {Of(s, 1 .. 3, {1}) : s \in {<<a, a, a>>, <<a, b, b>>, <<b, a, k>>, <<a, q, k>>}}
    \cup {Of(s, 1 .. 3, {2}) : s \in {<<a, a, a>>, <<d, d, a>>, <<x, x, b>>}}
    \cup {Of(<<a, b, b>>, 1 .. 3, {1, 3}), Of(<<a, b, a>>, 1 .. 3, {1, 3})}
===============================================================================
