-------------------------------- MODULE MCGraph --------------------------------
(***************************************************************************)
(* Workflows of up to five nodes: every wiring of small nodes, loops and   *)
(* switches, calls of subgraphs, and graphs with one thing wrong.          *)
(***************************************************************************)
EXTENDS GraphMeaning

Open == [ref |-> Untyped, json |-> {}]
Json(type) == [ref |-> Untyped, json |-> {type}]
Typed(name, version) == [ref |-> <<name, version>>, json |-> {"object"}]

Kind(inputs, required, outputs) ==
  [inputs |-> inputs, required |-> required, outputs |-> outputs,
   pure |-> TRUE, deterministic |-> TRUE, cached |-> TRUE, effects |-> {},
   fusion |-> NoText, runtime |-> "python",
   resources |-> [gpu |-> 0, ram |-> 1, network |-> FALSE]]

MCCatalogue ==
  "source" :> Kind(<< >>, {}, "o" :> Open)
  @@ "map" :> [Kind("a" :> Open, {"a"}, "o" :> Open) EXCEPT !.fusion = "elementwise"]
  @@ "join" :> [Kind("a" :> Open @@ "b" :> Open, {"a"}, "o" :> Open @@ "p" :> Open)
                EXCEPT !.resources.ram = 3]
  @@ "fetch" :> [Kind("a" :> Json("number"), {"a"}, "o" :> Json("integer"))
                 EXCEPT !.pure = FALSE, !.effects = {"io"}, !.resources.network = TRUE]
  @@ "image" :> Kind("a" :> Typed("image", 1), {}, "o" :> Typed("image", 1))
  @@ "image2" :> Kind("a" :> Typed("image", 2), {}, "o" :> Typed("audio", 1))
  @@ "odd" :> Kind("a" :> Typed("", 1), {}, "o" :> Typed("unheard", 1))
  @@ ForEach :> Kind("items" :> Json("array"), {"items"}, "item" :> Open @@ "index" :> Json("integer"))
  @@ Collect :> Kind("item" :> Open @@ "index" :> Json("integer"), {"item", "index"}, "items" :> Json("array"))
  @@ Switch :> Kind("condition" :> Json("boolean") @@ "true_value" :> Open @@ "false_value" :> Open,
                    {"condition", "true_value", "false_value"}, "value" :> Open)

MCKnownTypes == {<<"image", 1>>, <<"image", 2>>, <<"audio", 1>>}

NoMeta == [max |-> 0, kind |-> "subgraph"]
Nodes(k, type, inputs) == [id |-> <<k>>, type |-> type, inputs |-> inputs, meta |-> NoMeta]
Wire(from, out, to, in) == [src |-> <<from>>, out |-> out, dst |-> <<to>>, in |-> in]
Port(k, port) == [node |-> <<k>>, port |-> port]
Int1 == [json |-> "integer", value |-> 1]
True == [json |-> "boolean", value |-> 1]
List == [json |-> "array", value |-> 2]

Flow(nodes, edges, inputs, outputs) ==
  [version |-> 1, nodes |-> nodes, edges |-> edges, inputs |-> inputs, outputs |-> outputs]

\* A port of node k fed from an earlier node (its first output), by a literal (0), or not at all.
Outlet(type) == CASE type = ForEach -> "item" [] type = Switch -> "value"
                  [] type = Collect -> "items" [] OTHER -> "o"

Fed(k, wires, types) ==
  LET ports == {p \in DOMAIN wires : wires[p] > 0}
  IN  SetToSeq({Wire(wires[p], Outlet(types[wires[p]]), k, p) : p \in ports})

Written(wires, literal) == [p \in {p \in DOMAIN wires : wires[p] = 0} |-> literal]

\* choice[k] = <<type, wires, literals>>
Wired(choice, inputs, outputs) ==
  LET types == [k \in DOMAIN choice |-> choice[k][1]]
  IN  Flow([k \in DOMAIN choice |-> Nodes(k, choice[k][1], choice[k][3])],
           FlattenSeq([k \in DOMAIN choice |-> Fed(k, choice[k][2], types)]),
           inputs, outputs)

Small(k) ==
  {<<"source", << >>, << >> >>}
  \cup {<<"map", "a" :> i, Written("a" :> i, Int1)>> : i \in 0..k - 1}
  \cup {<<"join", w, Written(w, Int1)>> : w \in [{"a", "b"} -> 1..k - 1]}

SmallFlows ==
  {Wired(<<a, b, c, d>>, inputs, "r" :> Port(4, "o") @@ more) :
     a \in {<<"source", << >>, << >> >>}, b \in Small(2), c \in Small(3), d \in Small(4),
     inputs \in {<< >>, "x" :> Port(4, "b")}, more \in {<< >>, "s" :> Port(2, "o")}}

Inner(k, prior) ==
  {<<"map", "a" :> i, << >> >> : i \in prior}
  \cup {<<Switch, w, Written(w, True)>> :
          w \in {w \in [{"condition", "true_value", "false_value"} -> prior \cup {0}] :
                   w["condition"] = 0 /\ w["true_value"] # 0}}
  \cup {<<ForEach, "items" :> i, << >> >> : i \in prior}

ControlFlows ==
  {[Wired(<< <<"source", << >>, << >> >>, <<ForEach, "items" :> i, Written("items" :> i, List)>>,
             c, d, <<Collect, "item" :> last, << >> >> >>,
          << >>, "r" :> Port(5, "items") @@ "s" :> Port(4, Outlet(d[1])))
    EXCEPT !.edges = Append(@, Wire(2, "index", 5, "index")), !.nodes[2].meta.max = 2,
            !.nodes[3].meta.max = 1, !.nodes[4].meta.max = 1] :
     i \in {0, 1}, c \in Inner(3, {1, 2}), d \in Inner(4, {1, 2, 3}), last \in {2, 3, 4}}

\* Two loops whose bodies share a switch, and one that ends before a switch on its results.
SharedBody ==
  Flow(<<Nodes(1, ForEach, "items" :> List), Nodes(2, ForEach, "items" :> List),
         Nodes(3, Switch, "condition" :> True @@ "false_value" :> Int1),
         Nodes(4, Switch, "condition" :> True), Nodes(5, Collect, << >>)>>,
       <<Wire(1, "item", 3, "true_value"), Wire(3, "value", 4, "true_value"),
         Wire(2, "item", 4, "false_value"), Wire(4, "value", 5, "item"), Wire(1, "index", 5, "index")>>,
       << >>, "r" :> Port(5, "items"))

SwitchAfter ==
  Flow(<<Nodes(1, "source", << >>), [Nodes(2, ForEach, << >>) EXCEPT !.meta.max = 2],
         Nodes(3, Switch, "condition" :> True @@ "false_value" :> Int1), Nodes(4, Collect, << >>),
         Nodes(5, Collect, << >>), Nodes(6, Switch, "condition" :> True)>>,
       <<Wire(1, "o", 2, "items"), Wire(2, "item", 3, "true_value"), Wire(3, "value", 4, "item"),
         Wire(2, "index", 4, "index"), Wire(2, "item", 5, "item"), Wire(2, "index", 5, "index"),
         Wire(4, "items", 6, "true_value"), Wire(5, "items", 6, "false_value")>>,
       << >>, "r" :> Port(6, "value"))

--------------------------------------------------------------------------------
Empty == Flow(<< >>, << >>, << >>, << >>)

\* Two nodes in a row, one with an output of its own for each; and one that calls "pair" twice.
Pair == Flow(<<Nodes(1, "map", << >>), Nodes(2, "join", "b" :> Int1)>>,
             <<Wire(1, "o", 2, "a")>>, "x" :> Port(1, "a"),
             "y" :> Port(2, "o") @@ "z" :> Port(1, "o"))

Nested == Flow(<<Nodes(1, "pair", << >>), Nodes(2, "pair", << >>), Nodes(3, "map", << >>)>>,
               <<Wire(1, "y", 2, "x"), Wire(2, "z", 3, "a")>>, "x" :> Port(1, "x"),
               "y" :> Port(3, "o") @@ "z" :> Port(1, "z"))

Wide == Flow(<<Nodes(1, "map", << >>), Nodes(2, "map", << >>)>>, << >>,
             "x" :> Port(1, "a") @@ "w" :> Port(2, "a"), "y" :> Port(1, "o") @@ "z" :> Port(2, "o"))

MCRegistry == "pair" :> Pair @@ "nested" :> Nested @@ "wide" :> Wide

Registries ==
  {MCRegistry,
   MCRegistry @@ "self" :> [Pair EXCEPT !.nodes[1] = Nodes(1, "self", << >>),
                                        !.edges[1].out = "y", !.inputs["x"].port = "x",
                                        !.outputs["z"].port = "z"],
   MCRegistry @@ "none" :> Empty,
   MCRegistry @@ "broken" :> [Pair EXCEPT !.edges[1].src = <<9>>],
   MCRegistry @@ "deep" :> [Nested EXCEPT !.nodes[1].type = "nested"]
              @@ "deeper" :> [Nested EXCEPT !.nodes[1].type = "deep"]}

Calls == {"pair", "nested", "wide", "self", "none", "deep", "deeper"}

\* A source, two calls and a node, wired in every way.
CallFlow(first, second, literal, in, out, last, outputs) ==
  Flow(<<Nodes(1, "source", << >>), Nodes(2, first, IF literal THEN "x" :> Int1 ELSE << >>),
         Nodes(3, second, << >>), Nodes(4, "join", << >>)>>,
       (IF literal THEN << >> ELSE <<Wire(1, "o", 2, "x")>>)
       \o <<Wire(2, out, 3, in), Wire(3, last, 4, "a")>>,
       "g" :> Port(4, "b"), outputs)

CallFlows ==
  {[graph |-> CallFlow(f, s, literal, IF s = "map" THEN "a" ELSE "x", out,
                       IF s = "map" THEN "o" ELSE last, outputs), registry |-> r] :
     f \in Calls, s \in {"pair", "map", "nested"}, literal \in BOOLEAN,
     out \in {"y", "z"}, last \in {"y", "z"},
     outputs \in {"r" :> Port(4, "o"), "r" :> Port(4, "o") @@ "c" :> Port(2, "z")},
     r \in Registries}

Sound == CallFlow("pair", "map", FALSE, "a", "y", "o", "r" :> Port(4, "o") @@ "c" :> Port(2, "z"))

\* Two nodes that read two outputs of one node.
Twins == [Sound EXCEPT !.nodes = @ \o <<Nodes(5, "map", << >>), Nodes(6, "map", << >>)>>,
                       !.edges = @ \o <<Wire(4, "o", 5, "a"), Wire(4, "p", 6, "a")>>]

\* One thing wrong with each.
Faults ==
  LET More(n, e) == [Sound EXCEPT !.nodes = @ \o n, !.edges = @ \o e]
  IN  {More(<<Nodes(3, "source", << >>)>>, << >>),
       More(<<Nodes(5, "unheard", << >>)>>, << >>),
       More(<< >>, <<Wire(9, "o", 4, "b")>>), More(<< >>, <<Wire(1, "o", 9, "a")>>),
       More(<< >>, <<Wire(1, "q", 3, "a")>>), More(<< >>, <<Wire(1, "o", 3, "q")>>),
       More(<< >>, <<Wire(1, "o", 3, "a")>>),
       More(<< >>, <<Wire(4, "o", 4, "b")>>),
       More(<<Nodes(5, "wide", << >>)>>,
            <<Wire(1, "o", 5, "x"), Wire(5, "y", 5, "w"), Wire(5, "z", 4, "b")>>),
       [Sound EXCEPT !.nodes[2].meta.kind = "class"],
       [Sound EXCEPT !.nodes[2].inputs = "x" :> Int1],
       [Sound EXCEPT !.nodes[2].inputs = "q" :> Int1],
       [Sound EXCEPT !.nodes[3].inputs = "q" :> Int1],
       [Sound EXCEPT !.nodes[3].id = <<2, 1>>, !.edges[2].dst = <<2, 1>>, !.edges[3].src = <<2, 1>>],
       [Sound EXCEPT !.inputs["g"].node = <<9>>], [Sound EXCEPT !.inputs["g"].port = "q"],
       [Sound EXCEPT !.outputs["c"].node = <<9>>], [Sound EXCEPT !.outputs["c"].port = "q"],
       More(<<Nodes(5, "map", << >>)>>, << >>),
       More(<<Nodes(5, "fetch", "a" :> True)>>, << >>),
       More(<<Nodes(5, "fetch", "a" :> Int1)>>, <<Wire(5, "o", 4, "b")>>),
       More(<<Nodes(5, "fetch", "a" :> Int1), Nodes(6, "fetch", << >>)>>, <<Wire(5, "o", 6, "a")>>),
       More(<<Nodes(5, "image", << >>), Nodes(6, "image", << >>)>>, <<Wire(5, "o", 6, "a")>>),
       More(<<Nodes(5, "image", << >>), Nodes(6, "image2", << >>)>>, <<Wire(5, "o", 6, "a")>>),
       More(<<Nodes(5, "image2", << >>), Nodes(6, "image", << >>)>>, <<Wire(5, "o", 6, "a")>>),
       More(<<Nodes(5, "image", << >>), Nodes(6, "odd", << >>)>>, <<Wire(5, "o", 6, "a")>>),
       More(<<Nodes(5, "odd", << >>), Nodes(6, "image", << >>)>>, <<Wire(5, "o", 6, "a")>>),
       More(<<Nodes(5, "image", << >>), Nodes(6, "fetch", << >>)>>, <<Wire(5, "o", 6, "a")>>),
       More(<<Nodes(5, ForEach, << >>)>>, <<Wire(1, "o", 5, "items")>>),
       More(<<Nodes(5, ForEach, "items" :> [List EXCEPT !.value = 4])>>, << >>),
       More(<<Nodes(5, ForEach, "items" :> List)>>, <<Wire(5, "item", 4, "b")>>)}

MCWorkflows ==
  {[graph |-> g, registry |-> NoCalls] : g \in SmallFlows \cup ControlFlows \cup {SharedBody, SwitchAfter}}
  \cup CallFlows
  \cup {[graph |-> g, registry |-> MCRegistry] : g \in Faults \cup {Empty, Sound, Twins}}
  \cup {[graph |-> [Sound EXCEPT !.nodes = Append(@, Nodes(5, "none", << >>))],
         registry |-> MCRegistry @@ "none" :> Empty]}

================================================================================
