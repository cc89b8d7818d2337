-------------------------- MODULE ActionInterpreter --------------------------
(***************************************************************************)
(* A call of a proxy action: which definition a name finds, the request    *)
(* that the definition's mappings make of the input, and the answer made   *)
(* of the provider's response. The interpreter exists twice, in TypeScript *)
(* and as its port to Python, by which the runtime executes.               *)
(*                                                                         *)
(* A definition places a field of the input in the path, in a part of the  *)
(* query, in a template of the body or by an explicit mapping; a field of  *)
(* the input schema that it does not place is mapped automatically if the  *)
(* schema says how. It may also name a field where nothing is filled in: a *)
(* placeholder inside other text of the body's template, or the condition  *)
(* of a constant part of the query. Such a field counts as placed, so that *)
(* it is offered and not mapped, but no value of it is sent from there.    *)
(* Two mappings never share a target here, and a part of the query fills   *)
(* in the field it depends on. In TypeScript the details of an answer are  *)
(* asked for in parallel.                                                  *)
(*                                                                         *)
(* Values are reduced to the kinds that conversions tell apart: the schema *)
(* decides whether Python has a whole number as an integer ("whole") or    *)
(* as a float ("float"). The input has no nulls, which the runtime         *)
(* removes. Left out: constant defaults, headers and field lists, MIME     *)
(* messages, the extraction of headers, bodies and attachments from a      *)
(* single object, and the port's selection of the fields of the output     *)
(* schema.                                                                 *)
(***************************************************************************)
EXTENDS FiniteSets, Integers, Sequences, SequencesExt

CONSTANTS
  Fields,
  NoField,
  Definitions,     \* the definitions to look at
  Names,           \* of actions
  Aliases,         \* pairs of an action name and the name it stands for
  Searches,        \* actions of type SEARCH
  Responses,       \* [root, rows]: what is at rootPath, "missing", "null" or "list" of rows
  DefaultLimit

Sides == {"ts", "py"}
Values == {"text", "blank", "whole", "float", "fraction", "zero", "true", "list", "empty list"}

Lists == {"list", "empty list"}

\* What a property of the input schema says of its mapping. emptyAliases: an empty
\* list of aliases is given. A default is a text, true or null, if there is one.
Meta ==
  [mapTo : BOOLEAN, alias : Fields \cup {NoField}, emptyAliases : BOOLEAN,
   default : {"none", "text", "true", "null"}, wrap : BOOLEAN]
Plain ==
  [mapTo |-> FALSE, alias |-> NoField, emptyAliases |-> FALSE, default |-> "none", wrap |-> FALSE]

\* props: the properties of the input schema. embedded: fields inside other text of
\* the body's template. literals: conditions of constant parts. hasBody: POST, PUT or
\* PATCH. limit: of the enrichment, -1 when it is not given, -2 when there is none.
ASSUME DefinitionsAssumption ==
  \A d \in Definitions :
    /\ DOMAIN d.props \subseteq Fields /\ \A f \in DOMAIN d.props : d.props[f] \in Meta
    /\ d.path \cup d.parts \cup d.template \cup d.params \cup d.json \subseteq Fields
    /\ d.embedded \cup d.literals \subseteq Fields
    /\ d.hasBody \in BOOLEAN /\ d.pick \in BOOLEAN /\ d.limit \in Nat \cup {-1, -2}
ASSUME NoFieldAssumption == NoField \notin Fields
ASSUME NamesAssumption == Aliases \subseteq Names \X Names /\ Searches \subseteq Names
ASSUME ResponsesAssumption ==
  \A r \in Responses : r.root \in {"missing", "null", "list"} /\ r.rows \in Seq({"record", "scalar"})
ASSUME LimitAssumption == DefaultLimit \in Nat \ {0}

VARIABLES
  phase,           \* "lookup", "found", "unknown", "sent", "failed", "enriching" or "answered"
  side,
  stored,          \* the enabled actions of this provider, in the order of the registry
  asked,           \* the name the caller gave
  chosen,          \* the action found
  def, input,
  items,           \* the mapped response: a sequence of [item, kind], or Null
  answer           \* answer[i]: the i-th item and what came of its detail, "" while it is awaited

callVars == <<phase, side, stored, asked, chosen, def, input, items, answer>>

CallInit ==
  /\ phase = "lookup" /\ side \in Sides
  /\ stored \in UNION {SetToSeqs(S) : S \in SUBSET Names} /\ asked \in Names
  /\ chosen = "" /\ def = "" /\ input = "" /\ items = <<>> /\ answer = <<>>

-----------------------------------------------------------------------------
(* Lookup.                                                                   *)

\* find: the name itself, what it is an alias of, or the provider's first SEARCH.
Find(name) ==
  LET resolved == {a \in Names : <<name, a>> \in Aliases /\ Contains(stored, a)}
      searches == {i \in DOMAIN stored : stored[i] \in Searches}
  IN IF Contains(stored, name) THEN {name}
     ELSE IF resolved # {} THEN resolved
     ELSE {stored[i] : i \in {j \in searches : \A k \in searches : j <= k}}

\* Without a definition the call is left to an action of the provider's own.
Lookup ==
  /\ phase = "lookup"
  /\ IF Find(asked) = {} THEN phase' = "unknown" /\ UNCHANGED chosen
     ELSE phase' = "found" /\ chosen' \in Find(asked)
  /\ UNCHANGED <<side, stored, asked, def, input, items, answer>>

-----------------------------------------------------------------------------
(* Request.                                                                  *)

\* The fields that have a place of their own, and those that only seem to have one.
Filled(d) == d.path \cup d.parts \cup d.template \cup d.params \cup d.json
Unfilled(d) == (d.embedded \cup d.literals) \ Filled(d)

Placed(d) == Filled(d) \cup Unfilled(d)

\* enrichInputSchema: what the query's parts and the body's template name is offered
\* to the model, but for the path.
Offered(d) ==
  DOMAIN d.props \cup ((d.parts \cup d.literals \cup d.template \cup d.embedded) \ d.path)

\* A default of null counts in TypeScript, as an empty list of aliases does.
HasDefault(s, how) == how.default # "none" /\ (s = "py" => how.default # "null")
SaysHow(s, how) ==
  \/ how.mapTo \/ how.wrap \/ how.alias # NoField
  \/ HasDefault(s, how)
  \/ s = "ts" /\ how.emptyAliases

\* Mutant: the fields of body templates are mapped again.
AutoMappedTwice(s, d) ==
  {f \in DOMAIN d.props \ (Placed(d) \ d.template) : SaysHow(s, d.props[f])}

\* extractInputMappings: of the fields not placed, those whose property says how.
AutoMapped(s, d) == {f \in DOMAIN d.props \ Placed(d) : SaysHow(s, d.props[f])}

\* The input of a mapping: its field, or else its alias, or else its default.
How(s, d, f) == IF f \in AutoMapped(s, d) THEN d.props[f] ELSE Plain

Source(s, d, in, f) ==
  CASE f \in DOMAIN in -> f
    [] f \notin DOMAIN in /\ How(s, d, f).alias \in DOMAIN in -> How(s, d, f).alias
    [] OTHER -> NoField

Argument(s, d, in, f) ==
  [from |-> Source(s, d, in, f), how |-> How(s, d, f),
   value |-> IF Source(s, d, in, f) = NoField THEN How(s, d, f).default ELSE in[Source(s, d, in, f)]]

Arguments(s, d, in, fields) ==
  {Argument(s, d, in, f) :
     f \in {g \in fields : Source(s, d, in, g) # NoField \/ HasDefault(s, How(s, d, g))}}

\* Conversions. An empty list is the empty text in TypeScript.
Text(s, v) ==
  CASE v = "true" -> IF s = "ts" THEN "true" ELSE "True"
    [] v = "float" -> IF s = "ts" THEN "whole" ELSE "whole.0"
    [] v = "list" -> IF s = "ts" THEN "a,b" ELSE "['a', 'b']"
    [] v = "empty list" -> IF s = "ts" THEN "" ELSE "[]"
    [] OTHER -> v

\* buildParamsBuilder. A number given as a parameter is truncated.
Parameter(s, v) ==
  CASE v = "fraction" -> "truncated"
    [] v = "float" -> "whole"
    [] OTHER -> Text(s, v)

\* A part is left out when its field is blank, and a TypeScript zero fills in nothing.
PartApplies(s, v) == Text(s, v) \notin {"blank", ""}
Part(s, v) == IF s = "ts" /\ v = "zero" THEN "" ELSE Text(s, v)

Entry(place, kind, from, value) == [place |-> place, kind |-> kind, from |-> from, value |-> value]

Query(s, d, in) ==
  {Entry("query", "mapping", a.from, Parameter(s, a.value)) :
     a \in Arguments(s, d, in, d.params \cup (IF d.hasBody THEN {} ELSE AutoMapped(s, d)))}
  \cup {Entry("query", "part", f, Part(s, in[f])) :
          f \in {g \in d.parts \cap DOMAIN in : PartApplies(s, in[g])}}

\* buildBodyBuilder, whose result is sent by methods with a body only. A list and a
\* default are not wrapped. As JSON, a float that is whole is the same number.
Kind(a) == IF a.how.wrap /\ a.from # NoField /\ a.value \notin Lists THEN "wrapped" ELSE "mapping"

Body(s, d, in) ==
  IF ~d.hasBody THEN {}
  ELSE {Entry("body", "template", f, in[f]) : f \in d.template \cap DOMAIN in}
       \cup {Entry("body", Kind(a), a.from, a.value) :
               a \in Arguments(s, d, in, d.json \cup AutoMapped(s, d))}

\* executeProxy and execute_proxy: a path parameter that is missing fails the call;
\* of a list the first is taken, which the port fails to do for an empty one.
PathFails(s, d, in) == \E f \in d.path : f \in DOMAIN in => s = "py" /\ in[f] = "empty list"

PathText(s, v) ==
  CASE v = "list" -> "text"
    [] v = "empty list" -> "undefined"
    [] OTHER -> Text(s, v)

Path(s, d, in) == {Entry("path", "path", f, PathText(s, in[f])) : f \in d.path}

\* What reaches the provider.
Request(s, d, in) == Path(s, d, in) \cup Query(s, d, in) \cup Body(s, d, in)

\* The fields that matter to a definition, some of which the caller supplies.
Relevant(d) == (Offered(d) \cup d.path \cup {d.props[f].alias : f \in DOMAIN d.props}) \ {NoField}

Inputs(d) == UNION {[S -> Values] : S \in SUBSET Relevant(d)}

Send ==
  /\ phase = "found"
  /\ def' \in Definitions /\ input' \in Inputs(def')
  /\ phase' = IF PathFails(side, def', input') THEN "failed" ELSE "sent"
  /\ stored' = <<>> /\ asked' = "" /\ chosen' = ""
  /\ UNCHANGED <<side, items, answer>>

-----------------------------------------------------------------------------
(* Answer.                                                                   *)

Null == <<[item |-> 0, kind |-> "null"]>>

\* The elements of the list at these indices, in their order.
At(list, indices) ==
  [n \in 1..Cardinality(indices) |->
     list[CHOOSE i \in indices : Cardinality({j \in indices : j <= i}) = n]]

\* buildResponseMapper, rootPath and pick. A root that is null is a list for
\* TypeScript; the port picks from records only.
Mapped(s, d, response) ==
  LET list == [i \in DOMAIN response.rows |-> [item |-> i, kind |-> response.rows[i]]] IN
    CASE response.root = "missing" -> <<>>
      [] response.root = "null" -> IF s = "ts" THEN <<>> ELSE Null
      [] response.root = "list" ->
           IF d.pick /\ s = "py" THEN At(list, {i \in DOMAIN list : list[i].kind = "record"}) ELSE list

Limit(s, d) ==
  CASE d.limit = -1 -> DefaultLimit
    [] d.limit = 0 -> IF s = "ts" THEN DefaultLimit ELSE 0
    [] OTHER -> d.limit

First(list, n) == SubSeq(list, 1, IF n < Len(list) THEN n ELSE Len(list))

\* buildPostProcessor: the items beyond the limit are dropped.
Receive ==
  /\ phase = "sent"
  /\ \E response \in Responses :
       LET mapped == Mapped(side, def, response) IN
         IF def.limit = -2
         THEN /\ items' = mapped /\ answer' = <<>> /\ phase' = "answered"
         ELSE /\ items' = IF mapped = Null THEN <<>> ELSE First(mapped, Limit(side, def))
              /\ answer' = [i \in DOMAIN items' |-> ""]
              /\ phase' = IF items' = <<>> THEN "answered" ELSE "enriching"
  /\ input' = "" /\ UNCHANGED <<side, stored, asked, chosen, def>>

Awaited == {i \in DOMAIN answer : answer[i] = ""}

\* Mutant: details are collected in the order in which they arrive.
DetailCollects(i, result) ==
  /\ phase = "enriching" /\ i \in Awaited
  /\ LET slot == CHOOSE j \in Awaited : \A k \in Awaited : j <= k IN
       answer' = [answer EXCEPT ![slot] = <<items[i].item, result>>]
  /\ phase' = IF Awaited = {i} THEN "answered" ELSE phase
  /\ UNCHANGED <<side, stored, asked, chosen, def, input, items>>

\* TypeScript asks for all details at once, the port for one after the other. An
\* item whose detail fails is kept as it is.
DetailArrives(i, result) ==
  /\ phase = "enriching" /\ i \in Awaited
  /\ side = "py" => \A j \in Awaited : i <= j
  /\ answer' = [answer EXCEPT ![i] = <<items[i].item, result>>]
  /\ phase' = IF Awaited = {i} THEN "answered" ELSE phase
  /\ UNCHANGED <<side, stored, asked, chosen, def, input, items>>

CallNext ==
  \/ Lookup \/ Send \/ Receive
  \/ \E i \in DOMAIN answer, result \in {"merged", "kept"} : DetailArrives(i, result)

CallSpec == CallInit /\ [][CallNext]_callVars

-----------------------------------------------------------------------------
(* Properties.                                                               *)

\* A name that is stored finds its own action; any other finds an alias's action or
\* a SEARCH, so that no call is turned into another one that writes.
LookupIsHarmless ==
  phase = "found" =>
    \/ chosen = asked
    \/ ~Contains(stored, asked) /\ (<<asked, chosen>> \in Aliases \/ chosen \in Searches)

Copies(f) == {e \in Request(side, def, input) : e.from = f}

BodyPlaces == def.template \cup def.json
Places(f) ==
  {p \in 1..5 : f \in <<def.path, def.parts, def.params, def.template, def.json>>[p]}

\* A field the model is offered and fills in reaches the provider, unless it is
\* blank in a query part, the schema does not say how, its only place is the body of
\* a method without one, or the definition names it only where nothing is filled in.
\* It does so once, if the definition places it once.
SentOnce(f) ==
  /\ \/ Copies(f) # {}
     \/ f \in def.parts /\ ~PartApplies(side, input[f])
     \/ f \notin Placed(def) /\ ~SaysHow(side, def.props[f])
     \/ f \in BodyPlaces /\ ~def.hasBody
     \/ f \in Unfilled(def)
  /\ Cardinality(Copies(f)) <= 1
     \/ Cardinality(Places(f)) > 1
     \/ \E g \in DOMAIN def.props : def.props[g].alias = f

\* Values the implementations send alike from wherever this definition places them.
Alike(f) ==
  \/ input[f] \in {"text", "blank", "whole", "fraction"}
  \/ input[f] = "float" /\ f \notin def.path \cup def.parts

OneSided == AutoMapped("ts", def) \ AutoMapped("py", def)

\* Port and original send the same for texts and numbers but zero, and for defaults
\* that are texts. They print booleans and lists differently, and a float in the path
\* or in a query part; fields with no more than a null default or empty aliases are
\* mapped by the original only. A call fails in both or in neither, but for an empty
\* list in the path.
PortAgrees ==
  /\ \A f \in DOMAIN input \ OneSided : Alike(f) =>
       {e \in Request("ts", def, input) : e.from = f} = {e \in Request("py", def, input) : e.from = f}
  /\ (\A g \in AutoMapped("ts", def) :
        def.props[g].default # "null" /\ (def.props[g].default = "true" => def.hasBody)) =>
       {e \in Request("ts", def, input) : e.from = NoField} = {e \in Request("py", def, input) : e.from = NoField}

RequestIsFaithful ==
  /\ LookupIsHarmless
  /\ phase = "sent" => PortAgrees /\ \A f \in DOMAIN input \cap Offered(def) : SentOnce(f)
  /\ phase = "failed" => PathFails("ts", def, input) \/ \E f \in def.path : input[f] = "empty list"

\* The details of an answer are those of the response's items, in their order, from
\* the first to the limit, whichever order they arrive in and whichever fail.
AnswerIsFaithful ==
  phase = "answered" /\ def.limit # -2 =>
    /\ \A i \in DOMAIN answer : answer[i][1] = items[i].item
    /\ \A i, j \in DOMAIN items : i < j => items[i].item < items[j].item
    /\ Len(answer) <= Limit(side, def)
=============================================================================
