------------------------ MODULE MCActionInterpreter ------------------------
(* A field f in every place and with every property, beside a field g.       *)
EXTENDS ActionInterpreter, TLC

CONSTANTS f, g

MCFields == {f, g}
MCNames == {"search", "send", "mail"}
MCAliases == {<<"mail", "search">>}
MCSearches == {"search"}

MetaOfF ==
  {Plain, [Plain EXCEPT !.mapTo = TRUE], [Plain EXCEPT !.alias = g], [Plain EXCEPT !.emptyAliases = TRUE],
   [Plain EXCEPT !.wrap = TRUE], [Plain EXCEPT !.wrap = TRUE, !.default = "text"]}
  \cup {[Plain EXCEPT !.default = v] : v \in {"text", "true", "null"}}
Props ==
  {<<>>} \cup {f :> p : p \in MetaOfF}
  \cup {(f :> p) @@ (g :> [Plain EXCEPT !.mapTo = TRUE]) : p \in MetaOfF}

\* Of the seven places f has at most three.
Places3 == {q \in [1..7 -> {{}, {f}}] : Cardinality({i \in 1..7 : q[i] # {}}) <= 3}

Requesting ==
  {[props |-> p, path |-> q[1], parts |-> q[2], template |-> q[3], params |-> q[4], json |-> q[5],
    embedded |-> q[6], literals |-> q[7], hasBody |-> b, pick |-> FALSE, limit |-> -2] :
     p \in Props, q \in Places3, b \in BOOLEAN}
Answering ==
  {[props |-> <<>>, path |-> {}, parts |-> {}, template |-> {}, params |-> {}, json |-> {},
    embedded |-> {}, literals |-> {}, hasBody |-> FALSE, pick |-> p, limit |-> n] :
     p \in BOOLEAN, n \in {-1, 0, 1, 2}}
MCDefinitions == Requesting \cup Answering

MCResponses ==
  [root : {"missing", "null"}, rows : {<<>>}]
  \cup [root : {"list"}, rows : UNION {[1..n -> {"record", "scalar"}] : n \in 0..3}]
=============================================================================
