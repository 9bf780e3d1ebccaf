------------------------------ MODULE Mapping ------------------------------
(***************************************************************************)
(* core/mappingx: a struct is filled from a map, as the tags of its fields *)
(* say.  A type is a sequence of fields: numbers, structs under a key of   *)
(* their own, and embedded structs.  A value is a number, a json.Number, a *)
(* text (with the number it reads as), nil or a map.  A valuer is the      *)
(* sequence of the maps where a value is looked for, the innermost first.  *)
(*                                                                         *)
(* Left out: slices, maps and pointers as fields, durations and text       *)
(* unmarshallers, dotted keys, the canonical key function, and that the    *)
(* merged entries are also written to the map of the caller.               *)
(***************************************************************************)
EXTENDS Integers, Sequences

CONSTANTS Fields, \* at place d the fields whose structs have at most d levels
          Types,  \* struct types
          Inputs, \* maps to fill them from
          Maps,   \* maps that stand in other maps
          Unset   \* no number, no key

VARIABLES type, input,
          outcome \* what Unmarshal returns: whether it is no error, and the numbers it has set

mappingVars == <<type, input, outcome>>

Absent == [is |-> "absent"]
Number(n) == [is |-> "number", n |-> n]
JsonNumber(n) == [is |-> "json", n |-> n] \* by its kind both a number and a string
String(n) == [is |-> "text", n |-> n] \* Unset, if it is not a number
Nil == [is |-> "nil"]
MapOf(m) == [is |-> "map", m |-> m]

\* The zero value of fieldOptions.  `tagged` is FALSE for the nil pointer.
NoOptions == [tagged |-> FALSE, optional |-> FALSE, dep |-> Unset, negated |-> FALSE, default |-> Unset,
              inherit |-> FALSE, fromString |-> FALSE, options |-> {}, env |-> Unset, range |-> Unset]

Field == UNION {Fields[d] : d \in DOMAIN Fields}
Valuer == Seq(Inputs \cup Maps) \ {<<>>}

\* The merge of recursiveValuer.Value: of a key in both, the inner map has the value.
Merge(inner, outer) ==
    [k \in DOMAIN inner \cup DOMAIN outer |-> IF k \in DOMAIN inner THEN inner[k] ELSE outer[k]]

\* Fields and maps are finite things, and no other ones come up on the way.
ASSUME MappingAssumption ==
    /\ Fields \in Seq(SUBSET Field)
    /\ \A d \in DOMAIN Fields : \A f \in Fields[d] :
           /\ f.kind \in {"number", "struct", "embedded"}
           /\ f.opts.tagged \/ f.opts = NoOptions
           /\ f.sub \in Seq(UNION {Fields[e] : e \in 1 .. d - 1})
    /\ Types \subseteq Seq(Field)
    /\ <<>> \in Maps
    /\ \A m, n \in Maps : Merge(m, n) \in Maps
    /\ \A m \in Inputs \cup Maps : \A k \in DOMAIN m : m[k] # Absent /\ (m[k].is = "map" => m[k].m \in Maps)

MappingInit == type \in Types /\ input \in Inputs /\ outcome = [ok |-> FALSE, set |-> {}]
-----------------------------------------------------------------------------
Failed == [ok |-> FALSE, set |-> {}]
Set(numbers) == [ok |-> TRUE, set |-> numbers]

\* A number is set at the place of its field: the indices that lead there.
SetHere(f, n) == Set({[at |-> <<>>, field |-> f, n |-> n]})
Under(i, numbers) == {[at |-> <<i>> \o s.at, field |-> s.field, n |-> s.n] : s \in numbers}

\* The first error is returned.
Together(parts) ==
    IF \A i \in DOMAIN parts : parts[i].ok
    THEN Set(UNION {Under(i, parts[i].set) : i \in DOMAIN parts}) ELSE Failed

In(m, key) == IF key \in DOMAIN m THEN m[key] ELSE Absent
Own(chain, key) == In(chain[1], key)

\* recursiveValuer.Value: the value of the innermost map, with what further ones add to it.
Inherited(chain, key) ==
    LET last[n \in 0 .. Len(chain)] == \* what the n outermost maps have
            IF n = 0 THEN Absent
            ELSE LET v == In(chain[Len(chain) - n + 1], key)
                     up == last[n - 1]
                 IN  IF v = Absent THEN up
                     ELSE IF v.is = "map" /\ up.is = "map" THEN MapOf(Merge(v.m, up.m))
                     ELSE v
    IN  last[Len(chain)]

\* Mutant: a field that depends on another is not compared with it.
WithoutContext(f, chain) == [ok |-> TRUE, opts |-> f.opts]

\* toOptionsWithContext: with a dependency, a field is optional or it is not.  When it
\* is not, Inherit and Range are lost.
toOptionsWithContext(f, chain) ==
    LET o == f.opts
        baseOn == Own(chain, o.dep) # Absent
        selfOn == Own(chain, f.key) # Absent
        optional == IF o.negated THEN baseOn ELSE ~baseOn
    IN  IF ~o.optional \/ o.dep = Unset THEN [ok |-> TRUE, opts |-> o]
        ELSE [ok |-> IF o.negated THEN baseOn # selfOn ELSE baseOn = selfOn,
              opts |-> IF optional THEN o
                       ELSE [o EXCEPT !.optional = FALSE, !.dep = Unset, !.inherit = FALSE, !.range = Unset]]

validateNumberRange(n, o) == o.range = Unset \/ (o.range[1] <= n /\ n <= o.range[2])
validateValueInOptions(n, o) == o.options = {} \/ n \in o.options

Accepts(o, n) == n # Unset /\ validateNumberRange(n, o) /\ validateValueInOptions(n, o)
Valid(f, n, o) == IF Accepts(o, n) THEN SetHere(f, n) ELSE Failed

\* implicitValueRequiredStruct, for one field
required ==
    LET needs[f \in Field] ==
            IF ~f.opts.tagged THEN f.kind = "number" \/ \E i \in DOMAIN f.sub : needs[f.sub[i]]
            ELSE (~f.opts.optional /\ f.opts.default = Unset) \/ f.opts.negated
    IN  needs

structValueRequired(fields) == \E i \in DOMAIN fields : required[fields[i]]
-----------------------------------------------------------------------------
\* processNamedFieldWithoutValue, and a default that is taken without being checked
WithoutNumber(f, o) ==
    IF o.default # Unset THEN SetHere(f, o.default)
    ELSE IF o.optional THEN Set({}) ELSE Failed

\* processNamedFieldWithValue
WithNumber(f, v, o) ==
    IF v.is = "nil" /\ o.optional THEN Set({})
    ELSE IF v.is \in {"json", IF o.fromString THEN "text" ELSE "number"} THEN Valid(f, v.n, o)
    ELSE Failed

\* createValuer and getValue
ValueOf(f, chain, o) == IF o.inherit THEN Inherited(chain, f.key) ELSE Own(chain, f.key)

\* processNamedField, for a number
NamedNumber(f, chain) ==
    LET context == toOptionsWithContext(f, chain)
        o == context.opts
        v == ValueOf(f, chain, o)
    IN  IF ~context.ok THEN Failed
        ELSE IF o.env # Unset THEN Valid(f, o.env, o)
        ELSE IF v = Absent THEN WithoutNumber(f, o) ELSE WithNumber(f, v, o)

\* unmarshalWithFullName: `parts` is what processField makes of each field, for every valuer.
Fill(parts, chain) == Together([i \in DOMAIN parts |-> parts[i][chain]])

\* processNamedField, for a struct: an environment value or a default is not of its type,
\* and one that is absent is filled from an empty map.
NamedStruct(f, parts, chain) ==
    LET context == toOptionsWithContext(f, chain)
        o == context.opts
        v == ValueOf(f, chain, o)
    IN  IF ~context.ok \/ o.env # Unset THEN Failed
        ELSE IF v = Absent
             THEN IF o.default # Unset THEN Failed
                  ELSE IF o.optional THEN Set({})
                  ELSE IF structValueRequired(f.sub) THEN Failed
                  ELSE Fill(parts, << <<>> >>)
        ELSE IF v.is = "map" THEN Fill(parts, <<v.m>> \o chain)
        ELSE IF v.is = "nil" /\ o.optional THEN Set({})
        ELSE Failed

\* processAnonymousStructFieldOptional: of its fields, none is given or all that are required.
EmbeddedOptional(f, parts, chain) ==
    LET given == {i \in DOMAIN f.sub : Own(chain, f.sub[i].key) # Absent}
        context(i) == toOptionsWithContext(f.sub[i], chain)
    IN  IF /\ \A i \in DOMAIN f.sub : context(i).ok
           /\ given # {} => \A i \in DOMAIN f.sub : context(i).opts.optional \/ i \in given
        THEN Together([i \in given |-> parts[i][chain]]) ELSE Failed

\* processAnonymousField
Embedded(f, parts, chain) ==
    LET context == toOptionsWithContext(f, chain)
    IN  IF ~context.ok THEN Failed
        ELSE IF context.opts.optional THEN EmbeddedOptional(f, parts, chain)
        ELSE Fill(parts, chain)

processField ==
    LET process[f \in Field] ==
            LET parts == [i \in DOMAIN f.sub |-> process[f.sub[i]]]
            IN  [chain \in Valuer |->
                    IF f.kind = "number" THEN NamedNumber(f, chain)
                    ELSE IF f.kind = "struct" THEN NamedStruct(f, parts, chain)
                    ELSE Embedded(f, parts, chain)]
    IN  process

PartsOf(fields) == [i \in DOMAIN fields |-> processField[fields[i]]]

Unmarshal ==
    /\ outcome' = Fill(PartsOf(type), <<input>>)
    /\ UNCHANGED <<type, input>>

MappingSpec == MappingInit /\ [][Unmarshal]_mappingVars
-----------------------------------------------------------------------------
\* What has been set of the struct at place i.
SetIn(i) == {s \in outcome.set : s.at[1] = i}

RangesAreKept ==
    \A s \in outcome.set :
        LET o == s.field.opts
        IN  o.dep = Unset => o.range = Unset \/ s.n = o.default \/ (o.range[1] <= s.n /\ s.n <= o.range[2])

DependencesAreKept ==
    \A i \in DOMAIN type :
        LET o == type[i].opts
        IN  o.optional /\ o.dep # Unset =>
                (o.negated <=> (o.dep \in DOMAIN input) # (type[i].key \in DOMAIN input))

EmbeddedWhole ==
    \A i \in DOMAIN type :
        LET sub == type[i].sub
        IN  type[i].kind = "embedded" /\ SetIn(i) # {} =>
                \A j \in DOMAIN sub :
                    sub[j].kind = "number" => sub[j].opts.optional \/ \E s \in SetIn(i) : s.at = <<i, j>>

\* A field and the fields within it.
nested ==
    LET within[f \in Field] == {f} \cup UNION {within[f.sub[i]] : i \in DOMAIN f.sub}
    IN  within

\* A field that can be an error whether or not it is given: by its environment value,
\* a default that a struct cannot take, or fields that exclude each other.
Refuses(f) ==
    \/ f.kind = "number" /\ f.opts.env # Unset /\ ~Accepts(f.opts, f.opts.env)
    \/ f.kind = "struct" /\ (f.opts.env # Unset \/ f.opts.default # Unset)
    \/ f.kind = "embedded" /\ f.opts.default # Unset
    \/ /\ f.kind = "embedded" /\ f.opts.optional
       /\ \E i \in DOMAIN f.sub : f.sub[i].opts.optional /\ f.sub[i].opts.negated

AbsentIsFilled ==
    \A i \in DOMAIN type :
        LET fields == type[i].sub
        IN  /\ type[i].kind = "struct" /\ ~structValueRequired(fields)
            /\ \A j \in DOMAIN fields : \A f \in nested[fields[j]] : ~Refuses(f)
            => Fill(PartsOf(fields), << <<>> >>).ok

(***************************************************************************)
(* When Unmarshal returns no error, the tags have been honoured:           *)
(* - a number that is set, at any depth, is the default of its field or    *)
(*   keeps to its range, unless the field depends on another: the range of *)
(*   one whose partner is there is not looked at (fieldoptions.go:105);    *)
(* - of two fields of which one depends on the other, both are in the map  *)
(*   or none is, and of two that exclude each other one is;                *)
(* - the numbers of an embedded struct are set as a whole, or not at all.  *)
(* And a struct that may be absent can be filled from nothing: what        *)
(* structValueRequired says agrees with what is found missing then, if no  *)
(* field in the struct is an error by itself.                              *)
(***************************************************************************)
TagsAreHonoured ==
    /\ outcome.ok => RangesAreKept /\ DependencesAreKept /\ EmbeddedWhole
    /\ AbsentIsFilled
=============================================================================
