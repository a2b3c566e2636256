----------------------------- MODULE JsonValues -----------------------------
(***************************************************************************)
(* JSON documents as the modules about messages see them: records tagged   *)
(* with their type.  A number is "int" when it fits 32 bits, "long" when   *)
(* it fits 64, and "number" when it does neither.                          *)
(***************************************************************************)
EXTENDS Naturals, Sequences, SequencesExt, TLC

Obj(members) == [t |-> "object", m |-> members]
Arr(items) == [t |-> "array", items |-> items]
Str(s) == [t |-> "string", v |-> s]
Num(s) == [t |-> "int", v |-> s]
Null == [t |-> "null"]
Missing == [t |-> "missing"]

IsObject(v) == v.t = "object"
IsArray(v) == v.t = "array"
IsString(v) == v.t = "string"

Get(v, key) == IF IsObject(v) /\ key \in DOMAIN v.m THEN v.m[key] ELSE Missing
Has(v, key) == Get(v, key) # Missing

(* key :> v and f @@ g, spelled out for the provers. *)
Member(key, v) == [k \in {key} |-> v]
Joined(f, g) == [k \in DOMAIN f \cup DOMAIN g |-> IF k \in DOMAIN f THEN f[k] ELSE g[k]]

Put(v, key, to) == Obj(Joined(Member(key, to), v.m))
ItemsOf(v) == IF IsArray(v) THEN v.items ELSE <<>>

(* An optional field that is absent or null. *)
None(v) == v \in {Missing, Null}

(* The values that are n members and items deep in a document. *)
Children(v) ==
  CASE IsObject(v) -> {v.m[key] : key \in DOMAIN v.m}
    [] IsArray(v) -> {v.items[i] : i \in DOMAIN v.items}
    [] OTHER -> {}

Nested(v, n) ==
  LET at[k \in 0 .. n] == IF k = 0 THEN {v} ELSE UNION {Children(w) : w \in at[k - 1]}
  IN  at[n]

(* A list in a document is a list.                                         *)
ProperList(v) == ItemsOf(v) \in Seq(ToSet(ItemsOf(v)))

(* Two lists of entries that are the same ones in the same places, by what *)
(* they are called and by whether they have what their kind needs.         *)
Names == {"name", "uri", "uriTemplate"}

SameEntries(before, after, needs) ==
  /\ DOMAIN after = DOMAIN before
  /\ \A i \in DOMAIN before :
       /\ \A key \in Names : Get(after[i], key) = Get(before[i], key)
       /\ \A key \in needs : Has(after[i], key) <=> Has(before[i], key)

(* The document with only these members; those it lacks are left out. *)
Keeping(v, keys) ==
  Obj([k \in {k \in keys : Has(v, k)} |-> v.m[k]])
=============================================================================
