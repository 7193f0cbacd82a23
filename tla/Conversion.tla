------------------------------ MODULE Conversion ------------------------------
(***************************************************************************)
(* The conversion of a manifest into the models of the Kubernetes library,   *)
(* in _utils/kubernetes_utils.py.  It is recursive over the manifest, and    *)
(* in a module of its own that nothing with a theorem uses.                  *)
(*                                                                           *)
(* A value of a manifest is a record: "is" is its Python type, "n" tells the  *)
(* values of a type apart (0 is the one that is false for Python), "items"   *)
(* and "fields" are what it holds.  The schema stands for the models of the  *)
(* library: an object with one attribute per type string they use.           *)
(***************************************************************************)
EXTENDS Manifests, FiniteSets

Null == [is |-> "None"]
Error == [is |-> "error"]
Scalar(is, n) == [is |-> is, n |-> n]
List(s) == [is |-> "list", items |-> s]
Dict(f) == [is |-> "dict", fields |-> f]
Object(model, f) == [is |-> "model", of |-> model, fields |-> f]

T(t) == [t |-> t]
ListOf(t) == [t |-> "list", of |-> t]
DictOf(t) == [t |-> "dict", of |-> t]
Model(m) == [t |-> "model", of |-> m]

Schema ==
  [Outer |-> [inner |-> Model("Inner"), inners |-> ListOf(Model("Inner")),
              labels |-> DictOf(T("str")), limits |-> DictOf(T("int"))],
   Inner |-> [name |-> T("str"), host_port |-> T("int"), external_i_ps |-> ListOf(T("str")),
              ready |-> T("bool"), ratio |-> T("float"), since |-> T("datetime"),
              json_path |-> T("object")]]

\* The attributes that the constructor of a model asks for.
Required == [Outer |-> {}, Inner |-> {"name"}]

\* A boolean is an integer for Python, and a date a string.
Instances(t) ==
  CASE t = "int" -> {"int", "bool"}
    [] t = "float" -> {"float", "int", "bool"}
    [] t = "str" -> {"str", "date"}
    [] t = "datetime" -> {"date"}
    [] OTHER -> {t}

Raises(values) == \E v \in values : v = Error

Refuses(model, kwargs) ==
  \E a \in Required[model] : a \notin DOMAIN kwargs \/ kwargs[a] = Null

\* Mutant: a value that is false for Python is left out.
BuiltIfTrue(model, kwargs) ==
  LET false(v) == v.is \in {"int", "float", "bool", "str"} /\ v.n = 0
      true == {a \in DOMAIN kwargs : ~false(kwargs[a])}
  IN  IF Refuses(model, kwargs) THEN Error
      ELSE Object(model, [a \in true |-> kwargs[a]])

Built(model, kwargs) ==
  IF Refuses(model, kwargs) THEN Error ELSE Object(model, kwargs)

RECURSIVE _cast_value(_, _), _build_standard_object(_, _)

\* A TypeError at any depth ends in a ValueError of the attribute above it.
\* Integers and booleans are returned as they are.
_cast_value(v, type) ==
  CASE v = Null -> v
    [] type.t = "object" -> v
    [] type.t = "dict" ->
         IF v.is # "dict" THEN Error
         ELSE LET items == [k \in DOMAIN v.fields |-> _cast_value(v.fields[k], type.of)]
              IN  IF Raises({items[k] : k \in DOMAIN items}) THEN Error ELSE Dict(items)
    [] type.t = "list" ->
         IF v.is # "list" THEN Error
         ELSE LET items == [i \in DOMAIN v.items |-> _cast_value(v.items[i], type.of)]
              IN  IF Raises({items[i] : i \in DOMAIN items}) THEN Error ELSE List(items)
    [] type.t = "model" ->
         IF v.is # "dict" THEN Error ELSE _build_standard_object(type.of, v)
    [] OTHER ->
         CASE v.is \notin Instances(type.t) -> Error
           [] type.t \in {"float", "datetime"} -> Scalar(type.t, v.n)
           [] OTHER -> v

\* The manifests here have no two keys for one attribute.
_build_standard_object(model, manifest) ==
  LET keys == DOMAIN manifest.fields
      value(k) == _cast_value(manifest.fields[k], Schema[model][Attribute(k)])
  IN  IF \/ \E k \in keys : Attribute(k) \notin DOMAIN Schema[model]
         \/ Raises({value(k) : k \in keys})
      THEN Error
      ELSE Built(model, [a \in {Attribute(k) : k \in keys} |->
                           value(CHOOSE k \in keys : Attribute(k) = a)])

convert_manifest_to_object(key, force_custom_object, manifest) ==
  CASE ~Known(key) -> Error
    [] Known(key) /\ (force_custom_object \/ get_kind_info(key).custom) -> manifest
    [] OTHER -> _build_standard_object("Outer", manifest)

-----------------------------------------------------------------------------
(* A reference for the conversion: the leaves of a value, each at the end of *)
(* a path, against what the schema says of that path.                        *)

RECURSIVE Leaves(_)
Leaves(v) ==
  LET below(step, value) == {<<<<step>> \o l[1], l[2]>> : l \in Leaves(value)}
  IN  CASE v.is = "list" /\ v.items # <<>> ->
             UNION {below([item |-> i], v.items[i]) : i \in DOMAIN v.items}
        [] v.is = "dict" /\ DOMAIN v.fields # {} ->
             UNION {below([key |-> k], v.fields[k]) : k \in DOMAIN v.fields}
        [] v.is = "model" /\ DOMAIN v.fields # {} ->
             UNION {below([attribute |-> a], v.fields[a]) : a \in DOMAIN v.fields}
        [] OTHER -> {<<<<>>, v>>}

\* A step down a manifest: the type that the schema has there ("nothing" where
\* it has none; below an attribute of any type, anything goes), and the step
\* that leads to the same place in what the manifest is converted to.
Down(at, step) ==
  LET type == at.type
      isKey == "key" \in DOMAIN step
      known == type.t = "model" /\ isKey /\ Attribute(step.key) \in DOMAIN Schema[type.of]
  IN  [type |-> CASE type.t = "object" -> type
                  [] type.t = "list" /\ ~isKey -> type.of
                  [] type.t = "dict" /\ isKey -> type.of
                  [] known -> Schema[type.of][Attribute(step.key)]
                  [] OTHER -> T("nothing"),
       path |-> Append(at.path, IF known THEN [attribute |-> Attribute(step.key)] ELSE step)]

Place(model, path) == FoldLeft(Down, [type |-> Model(model), path |-> <<>>], path)

Admits(type, leaf) ==
  \/ type.t = "object"
  \/ leaf = Null /\ type.t # "nothing"
  \/ leaf.is = "list" /\ type.t = "list"
  \/ leaf.is = "dict" /\ type.t \in {"dict", "model"}
  \/ leaf.is \in Instances(type.t)

Converted(type, leaf) ==
  CASE leaf = Null -> leaf
    [] type.t \in {"float", "datetime"} -> Scalar(type.t, leaf.n)
    [] type.t = "model" -> Object(type.of, leaf.fields)
    [] OTHER -> leaf

\* What is given for an attribute of the model that path p leads to.
Given(leaves, p, a) ==
  \E l \in leaves :
    /\ Len(l[1]) > Len(p) /\ SubSeq(l[1], 1, Len(p)) = p
    /\ Attribute(l[1][Len(p) + 1].key) = a
    /\ l # <<Append(p, l[1][Len(p) + 1]), Null>>

\* Where a leaf lies in a model, that model has what it requires.
HasRequired(model, leaves, l) ==
  \A i \in 0..Len(l[1]) :
    LET p == SubSeq(l[1], 1, i)
        type == Place(model, p).type
    IN  type.t = "model" /\ (i < Len(l[1]) \/ l[2] # Null) =>
          \A a \in Required[type.of] : Given(leaves, p, a)

Numbers == {"int", "float", "bool", "str"}
Scalars == {Scalar(x, n) : x \in Numbers, n \in {0, 1}} \cup {Scalar("date", 1), Null}
Lists(S) == {List(s) : s \in {<<>>} \cup [1..1 -> S] \cup [1..2 -> S]}
Dicts(keys, S) == UNION {{Dict(f) : f \in [ks -> S]} : ks \in {k \in SUBSET keys : Cardinality(k) <= 2}}

Flat == Lists(Scalars) \cup Dicts({"name", "hostPort", "since", "bogus"}, Scalars)
Deep == {Dict([k \in {key} |-> v]) :
           key \in {"inner", "inners", "labels", "limits", "JSONPath", "externalIPs", "ratio"},
           v \in Scalars \cup Flat \cup {List(<<x>>) : x \in Flat}}

(***************************************************************************)
(* A manifest is refused exactly when a leaf is not of the type that the     *)
(* schema has at the end of its path, at any depth, or when a model on the   *)
(* way has not all it requires; otherwise what it is converted to has these  *)
(* leaves, each with its value at its place, and no other: no attribute is   *)
(* skipped, and no item of a list is dropped or moved.                       *)
(***************************************************************************)
ConversionIsComplete ==
  \A model \in {"Outer", "Inner"}, v \in Deep \cup Scalars \cup Flat :
    LET leaves == Leaves(v)
        accepted == \A l \in leaves : /\ Admits(Place(model, l[1]).type, l[2])
                                      /\ HasRequired(model, leaves, l)
        result == _cast_value(v, Model(model))
    IN  IF accepted
        THEN Leaves(result) = {<<Place(model, l[1]).path, Converted(Place(model, l[1]).type, l[2])>> : l \in leaves}
        ELSE result = Error
=============================================================================
