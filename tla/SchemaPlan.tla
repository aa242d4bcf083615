----------------------------- MODULE SchemaPlan -----------------------------
(***************************************************************************)
(* How `extract` asks a provider for an answer that fits a pydantic model, *)
(* and how it reads the answer: the dialects of src/actants/llm/           *)
(* structured.py as operators on schemas and on JSON values.               *)
(*                                                                         *)
(* A schema is a tree of nodes.  What a dialect does to a node depends on  *)
(* its kind alone, so a kind stands for every type treated alike:          *)
(*   "int"    a type sent and validated as it is                           *)
(*   "str"    a type with a constraint that strict mode and Gemini drop    *)
(*   "union"  several types, none of them null                             *)
(*   "oneof"  a discriminated union                                        *)
(*   "dict"   an object without declared properties                        *)
(*   "rec"    a $ref back to a model that encloses it                      *)
(*   "opt"    X | None       "list"  list[X]       "obj"  a nested model   *)
(* A $ref that is no cycle, and the one-branch allOf around it, are        *)
(* inlined by every dialect and do not appear.  A property that is not in  *)
(* `required` has need "default".                                          *)
(***************************************************************************)
EXTENDS Naturals, Sequences, FiniteSets

Strict == {"openai_json_schema", "anthropic_tool"}
Modes == Strict \cup {"none", "gemini", "ollama"}

Leaf(k) == [k |-> k]
Opt(t) == [k |-> "opt", of |-> t]
List(t) == [k |-> "list", of |-> t]
Obj(fs) == [k |-> "obj", fields |-> fs]
Field(t, need) == [type |-> t, need |-> need]

(***************************************************************************)
(* JSON values, and the instance a model makes of one.                     *)
(***************************************************************************)
Null == [k |-> "null"]
Num == [k |-> "num"]
Digit == [k |-> "digit"]         \* the first half of a Num
Text == [k |-> "text"]
Short == [k |-> "short"]         \* a string the dropped constraint forbids
Arr(items) == [k |-> "arr", items |-> items]
Map(at) == [k |-> "map", at |-> at]
Default == [k |-> "default"]     \* the field's default, in an instance

Defaulted(f) == f.need = "default"

RECURSIVE Kinds(_)
Kinds(n) ==
  {n.k} \cup CASE n.k \in {"opt", "list"} -> Kinds(n.of)
               [] n.k = "obj" -> UNION {Kinds(n.fields[x].type) : x \in DOMAIN n.fields}
               [] OTHER -> {}

(***************************************************************************)
(* The kinds a dialect has no form for; `build_schema_plan` then declines  *)
(* the native path instead of raising.                                     *)
(***************************************************************************)
Refused(mode) ==
  CASE mode \in Strict -> {"rec", "dict", "oneof"}
    [] mode = "gemini" -> {"rec", "dict", "union"}
    [] mode = "ollama" -> {"rec"}

(***************************************************************************)
(* The fields strict mode had to make nullable only to say that they may   *)
(* be absent, as paths from the root.  The conversion passes the path on   *)
(* into the properties of an object, and into nothing else.                *)
(***************************************************************************)
\* Mutant: only the fields of the outermost model are recorded.
Widened_Shallow(n, path) ==
  {Append(path, x) : x \in {y \in DOMAIN n.fields : Defaulted(n.fields[y]) /\ n.fields[y].type.k # "opt"}}

RECURSIVE Widened(_, _)
Widened(n, path) ==
  IF n.k # "obj" THEN {}
  ELSE UNION { Widened(n.fields[x].type, Append(path, x))
               \cup IF Defaulted(n.fields[x]) /\ n.fields[x].type.k # "opt"
                    THEN {Append(path, x)} ELSE {} : x \in DOMAIN n.fields }

Native(mode, streaming, schema) ==
  /\ mode # "none"
  /\ ~(streaming /\ mode = "anthropic_tool")
  /\ Kinds(schema) \cap Refused(mode) = {}

BuildSchemaPlan(schema, mode, streaming) ==
  LET native == Native(mode, streaming, schema)
  IN [ native |-> native, mode |-> mode,
       nullsMeanDefault |-> IF native /\ mode \in Strict
                            THEN Widened(schema, <<>>) ELSE {} ]

(***************************************************************************)
(* Reading an answer: the nulls that stand for an absent field are         *)
(* deleted, what is left is validated, and defaults fill the gaps.         *)
(***************************************************************************)
RECURSIVE DropDefaultedNulls(_, _), DropDefaultedNulls_Every(_, _)

\* Mutant: every null of an object is taken for an absent field.
DropDefaultedNulls_Every(v, paths) ==
  IF v.k # "map" THEN v
  ELSE Map([x \in {y \in DOMAIN v.at : v.at[y] # Null} |-> DropDefaultedNulls_Every(v.at[x], paths)])

DropDefaultedNulls(v, paths) ==
  LET Deeper(x) == {Tail(p) : p \in {q \in paths : Head(q) = x /\ Len(q) > 1}}
  IN IF paths = {} \/ v.k # "map" THEN v
     ELSE Map([x \in {y \in DOMAIN v.at : ~(v.at[y] = Null /\ <<y>> \in paths)}
                 |-> DropDefaultedNulls(v.at[x], Deeper(x))])

RECURSIVE Valid(_, _)
Valid(n, v) ==
  CASE n.k \in {"int", "oneof"} -> v \in {Num, Digit}
    [] n.k = "str" -> v = Text
    [] n.k = "union" -> v \in {Num, Digit, Text}
    [] n.k = "dict" -> v.k = "map"
    [] n.k = "rec" -> v.k = "map"
    [] n.k = "opt" -> v = Null \/ Valid(n.of, v)
    [] n.k = "list" -> v.k = "arr" /\ \A i \in DOMAIN v.items : Valid(n.of, v.items[i])
    [] n.k = "obj" -> /\ v.k = "map"
                      /\ \A x \in DOMAIN n.fields :
                           IF x \in DOMAIN v.at THEN Valid(n.fields[x].type, v.at[x])
                           ELSE Defaulted(n.fields[x])

RECURSIVE Instance(_, _)
Instance(n, v) ==
  CASE n.k = "opt" /\ v # Null -> Instance(n.of, v)
    [] n.k = "list" -> Arr([i \in DOMAIN v.items |-> Instance(n.of, v.items[i])])
    [] n.k = "obj" -> Map([x \in DOMAIN n.fields |->
                             IF x \in DOMAIN v.at THEN Instance(n.fields[x].type, v.at[x])
                             ELSE Default])
    [] OTHER -> v

(***************************************************************************)
(* The answers a provider that obeys the request may give: what the        *)
(* converted schema admits.  Strict mode demands every field and admits a  *)
(* null for each optional one; the other dialects can say "absent".        *)
(***************************************************************************)
Admitted(mode, f, values) == IF mode \in Strict /\ Defaulted(f) THEN values \cup {Null} ELSE values
MayOmit(mode, f) == mode \notin Strict /\ Defaulted(f)

RECURSIVE Conforming(_, _)
Conforming(mode, n) ==
  CASE n.k = "int" -> {Num}
    [] n.k = "str" -> IF mode = "ollama" THEN {Text} ELSE {Text, Short}
    [] n.k = "union" -> {Num, Text}
    [] n.k = "oneof" -> IF mode = "gemini" THEN {Num, Text, Null} ELSE {Num}
    [] n.k \in {"dict", "rec"} -> {Map(<<>>)}
    [] n.k = "opt" -> {Null} \cup Conforming(mode, n.of)
    [] n.k = "list" -> {Arr(<<>>)} \cup {Arr(<<v>>) : v \in Conforming(mode, n.of)}
    [] n.k = "obj" ->
         LET Values(x) == Admitted(mode, n.fields[x], Conforming(mode, n.fields[x].type))
             All == UNION {Values(x) : x \in DOMAIN n.fields}
         IN UNION { {Map(at) : at \in {g \in [D -> All] : \A x \in D : g[x] \in Values(x)}} :
                      D \in {E \in SUBSET DOMAIN n.fields :
                              \A x \in DOMAIN n.fields \ E : MayOmit(mode, n.fields[x])} }

(***************************************************************************)
(* The reference: what an answer means.  A null for a field that has a     *)
(* default and does not admit null is that default, at any depth.          *)
(***************************************************************************)
RECURSIVE Meant(_, _)
Meant(n, v) ==
  CASE n.k = "opt" /\ v # Null -> Meant(n.of, v)
    [] n.k = "list" -> Arr([i \in DOMAIN v.items |-> Meant(n.of, v.items[i])])
    [] n.k = "obj" -> Map([x \in DOMAIN n.fields |->
                             IF \/ x \notin DOMAIN v.at
                                \/ /\ v.at[x] = Null
                                   /\ Defaulted(n.fields[x]) /\ n.fields[x].type.k # "opt"
                             THEN Default ELSE Meant(n.fields[x].type, v.at[x])])
    [] OTHER -> v

(***************************************************************************)
(* A default that is out of the reach of the paths: in a list or behind    *)
(* "| None", where the conversion stops recording them.                    *)
(***************************************************************************)
RECURSIVE HidesDefault(_, _)
HidesDefault(n, below) ==
  CASE n.k \in {"opt", "list"} -> HidesDefault(n.of, TRUE)
    [] n.k = "obj" -> \E x \in DOMAIN n.fields :
                         \/ below /\ Defaulted(n.fields[x]) /\ n.fields[x].type.k # "opt"
                         \/ HidesDefault(n.fields[x].type, below)
    [] OTHER -> FALSE

(***************************************************************************)
(* The schemas a dialect keeps whole: no constraint dropped, no union      *)
(* left open, and no default out of reach.                                 *)
(***************************************************************************)
KeptWhole(mode, n) ==
  CASE mode \in Strict -> "str" \notin Kinds(n) /\ ~HidesDefault(n, FALSE)
    [] mode = "gemini" -> Kinds(n) \cap {"str", "oneof"} = {}
    [] OTHER -> TRUE
=============================================================================
