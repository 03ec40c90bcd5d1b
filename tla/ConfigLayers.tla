----------------------------- MODULE ConfigLayers -----------------------------
(***************************************************************************)
(* Loading a run (quettabench/config/loader.py, load, _resolve, _apply and *)
(* the rules of _validate that set values; config/env_map.py, read_env):   *)
(* the layers of one config, the points of its matrix and the origin of    *)
(* each value.  A path stands for the paths of its kind.                   *)
(***************************************************************************)
EXTENDS Integers, Sequences, FiniteSets, SequencesExt

CONSTANT MaxAsks   \* bound: values that files, environment and --set give together

AsksAssumption == MaxAsks \in Nat

None == "none"

\* Two keys of a dict field (hardware.collective), the fields the rules set, and fields of one value.
Keys == {"algo", "proto"}
Default ==
  [algo |-> None, proto |-> None, pp |-> 1, quant |-> None, style |-> "aggregated", sha |-> None, serve_profile |-> None,
   prefix_caching |-> FALSE, ignore_eos |-> FALSE, exact_output_length |-> FALSE, num_requests |-> 100]
Paths == DOMAIN Default

ValuesOf(p) ==
  CASE p \in Keys -> {"ring", "tree"} [] p = "pp" -> {1, 2} [] p = "quant" -> {"fp8", "int4"} [] p = "style" -> {"aggregated", "afd"}
    [] p = "sha" -> {"a", "b"} [] p = "serve_profile" -> {"stress-test", "multi-turn"}
    [] p = "num_requests" -> {50} [] OTHER -> BOOLEAN

\* Mutant: the run yaml beats the environment.
PrecedenceEnvLow == <<"hardware", "env", "model", "run", "cli">>

Precedence == <<"hardware", "model", "run", "env", "cli">>

\* Who may say what: the model yaml its own keys and the provenance (MODEL_KEYS), which no section of the run yaml holds
\* (RUN_KEYS); the hardware yaml the collective; the environment what ENV_MAP lists.
Layers(p) ==
  CASE p \in Keys -> {"hardware", "run", "env", "cli"} [] p = "quant" -> {"model", "run", "env", "cli"}
    [] p = "sha" -> {"model", "env", "cli"} [] p \in {"pp", "style"} -> {"run", "env", "cli"} [] OTHER -> {"run", "cli"}

\* An ask sets one path of one layer; a --set of a whole dict field gives all its keys.  var is the variable an
\* environment's ask came by.
Legal(a) ==
  /\ a.layer \in Layers(a.path)
  /\ a.var = 2 => a.layer = "env" /\ a.path \in {"style", "sha"}
  /\ a.whole => a.layer = "cli" /\ a.path \in Keys
AsksOf(p) == {a \in [layer : Layers(p), path : {p}, value : ValuesOf(p), var : 1 .. 2, whole : BOOLEAN] : Legal(a)}

\* Live profiles: one that requires prefix caching, one with recorded lengths; a file is no profile and draws no requests.
Sources == [required : BOOLEAN, recorded : BOOLEAN, live : BOOLEAN]

\* The matrix: none, one path, two that move together, and a choice given twice.
Axes == { <<>>, << [pp |-> 1], [pp |-> 2] >>, << [pp |-> 1], [pp |-> 1] >>,
          << [pp |-> 1, ignore_eos |-> FALSE], [pp |-> 2, ignore_eos |-> TRUE] >> }

\* Bound: the paths given together are of one subject, since no rule joins two of them.
Subjects == {Keys, {"pp", "style", "sha", "quant"},
             {"pp", "ignore_eos", "serve_profile", "prefix_caching", "exact_output_length", "num_requests"}}

VARIABLES source, axis, asks, loaded
vars == <<source, axis, asks, loaded>>

NotYet == [refused |-> FALSE, points |-> <<>>]

Init ==
  /\ source \in {s \in Sources : s.live \/ ~(s.required \/ s.recorded)}
  /\ axis \in Axes
  /\ asks = {}
  /\ loaded = NotYet

\* One more value, before the load; a layer is a dict, and gives a path once.
Ask ==
  /\ loaded = NotYet /\ Cardinality(asks) < MaxAsks
  /\ \E paths \in {s \in Subjects : {b.path : b \in asks} \subseteq s} : \E p \in paths : \E a \in AsksOf(p) :
       /\ ~\E b \in asks : /\ b.layer = a.layer /\ b.var = a.var
                           /\ b.path = p \/ ((a.whole \/ b.whole) /\ {p, b.path} \subseteq Keys)
       /\ asks' = asks \cup {a}
  /\ UNCHANGED <<source, axis, loaded>>

-------------------------------------------------------------------------------
(* read_env. *)

\* Of two variables of one path the first counts; two that clash (CLASHES) are refused.
Shadowed(a) == a.var = 2 /\ \E b \in asks : b.layer = "env" /\ b.path = a.path /\ b.var = 1
EnvClash == \E a, b \in asks : a.path = "style" /\ b.path = "style" /\ a.var = 1 /\ b.var = 2 /\ a.layer = "env" /\ a.value # b.value

\* A --set of the matrix's own path restricts it; one of a path among several that move together is a value like any other.
RestrictedBy(a) == a.layer = "cli" /\ axis # <<>> /\ DOMAIN axis[1] = {a.path}
Points ==
  IF \E a \in asks : RestrictedBy(a) THEN << [p \in DOMAIN axis[1] |-> (CHOOSE a \in asks : RestrictedBy(a)).value] >>
  ELSE IF axis = <<>> THEN << <<>> >> ELSE axis

\* What a layer gives a point: the point's own values replace the run yaml's.
Layer(l, point) == {a \in asks : a.layer = l /\ ~Shadowed(a) /\ ~RestrictedBy(a) /\ ~(l = "run" /\ a.path \in DOMAIN point)}
Pointed(l, point) == IF l = "run" THEN DOMAIN point ELSE {}

\* _apply: a key goes into its dict, a whole dict replaces it, and the origin is that of the path that was given.
Apply(c, l, point) ==
  LET given == Layer(l, point)
      set(p) == \E a \in given : a.path = p
      value(p) == (CHOOSE a \in given : a.path = p).value
      replaced(p) == p \in Keys /\ \E a \in given : a.whole
      named(p) == \E a \in given : a.path = p /\ ~a.whole
  IN  [c EXCEPT !.values = [p \in Paths |-> IF p \in Pointed(l, point) THEN point[p] ELSE IF set(p) THEN value(p)
                                            ELSE IF replaced(p) THEN None ELSE c.values[p]],
                !.origins = [p \in Paths |-> IF named(p) \/ p \in Pointed(l, point) THEN l ELSE c.origins[p]]]

-------------------------------------------------------------------------------
(* The rules of _validate that set values. *)

NotAsked == {"default", "model", "hardware"}

\* Mutant: the profile's value is set whatever was asked.
ForceAnyway(c, p, v) ==
  [c EXCEPT !.values[p] = v, !.origins[p] = c.origins["serve_profile"]]

\* _force: an explicit contrary setting is refused.
Force(c, p, v) ==
  [c EXCEPT !.refused = @ \/ (c.values[p] # v /\ c.origins[p] # "default"),
            !.values[p] = v, !.origins[p] = c.origins["serve_profile"]]

ServeProfile(c) ==
  CASE c.values["serve_profile"] = "stress-test" -> Force(Force(c, "ignore_eos", TRUE), "prefix_caching", FALSE)
    [] c.values["serve_profile"] = "multi-turn" -> Force(c, "prefix_caching", TRUE)
    [] OTHER -> c

\* _profile_prefix_caching and _profile_exact_output_length.
Require(c, p, asked) ==
  IF ~asked \/ c.values[p] THEN c
  ELSE [c EXCEPT !.refused = @ \/ c.origins[p] \notin NotAsked, !.values[p] = TRUE, !.origins[p] = "profile"]

\* Only a single-turn live profile draws num_requests.
Drawn(c) == [c EXCEPT !.refused = @ \/ (~source.live /\ c.origins["num_requests"] # "default")]

\* load: the layers, each over those before it.
Start == [values |-> Default, origins |-> [p \in Paths |-> "default"], refused |-> FALSE]
Layered(point) ==
  LET upTo[k \in 0 .. Len(Precedence)] == IF k = 0 THEN Start ELSE Apply(upTo[k - 1], Precedence[k], point)
  IN  upTo[Len(Precedence)]

Resolve(point) ==
  Drawn(Require(Require(ServeProfile(Layered(point)), "prefix_caching", source.required),
                "exact_output_length", source.recorded))

\* Every point resolves, or none is run; two points may not share a name, which the values of the point make.
Load ==
  /\ loaded = NotYet
  /\ LET points == Points
         configs == [k \in DOMAIN points |-> Resolve(points[k])]
         refused == EnvClash \/ (\E k \in DOMAIN configs : configs[k].refused) \/ ~IsInjective(points)
     IN  loaded' = [refused |-> refused, points |-> IF refused THEN <<>> ELSE configs]
  /\ UNCHANGED <<source, axis, asks>>

Loaded == loaded # NotYet /\ UNCHANGED vars

Next == Ask \/ Load \/ Loaded

Spec == Init /\ [][Next]_vars

-------------------------------------------------------------------------------
(* Properties. *)

\* The layers that state a path for a point, by a key, its whole dict or the matrix, and the last word of them.
Stated(p, point) ==
  {a.layer : a \in {b \in asks : (b.path = p \/ (b.whole /\ p \in Keys)) /\ b \in Layer(b.layer, point)}}
    \cup {l \in {"run"} : p \in Pointed(l, point)}
Rank(l) == CASE l = "hardware" -> 1 [] l = "model" -> 2 [] l = "run" -> 3 [] l = "env" -> 4 [] l = "cli" -> 5
Top(p, point) ==
  LET stated == Stated(p, point)
  IN  IF stated = {} THEN "default" ELSE CHOOSE l \in stated : \A m \in stated : Rank(m) <= Rank(l)
WordOf(l, p, point) ==
  LET said == {a \in Layer(l, point) : a.path = p}
  IN  IF p \in Pointed(l, point) THEN point[p] ELSE IF said = {} THEN None ELSE (CHOOSE a \in said : TRUE).value
Word(p, point) == IF Top(p, point) = "default" THEN Default[p] ELSE WordOf(Top(p, point), p, point)

\* In a config that is run, a value is the last word of --set, environment, run (or matrix), model, hardware and default,
\* in that order; the rules change what nobody asked for only, so no ask is overridden in silence.
LastWordStands ==
  \A k \in DOMAIN loaded.points : LET point == Points[k] IN \A p \in Paths :
    \/ loaded.points[k].values[p] = Word(p, point)
    \/ Top(p, point) = "default"

\* Every value is printed with its origin (README.md, docs/config.md): a value of --set is said to be of --set.
OriginsAreTrue ==
  \A k \in DOMAIN loaded.points : \A p \in Keys :
    loaded.points[k].values[p] # None => loaded.points[k].origins[p] = Top(p, Points[k])
================================================================================
