--------------------------- MODULE MCChConverter ---------------------------
(* TLC instances of ChConverter: column types and row values that reach the *)
(* cases of its switches.                                                   *)
EXTENDS ChConverter

Scalar(name) == [t |-> name]
LowCardinality(type) == [t |-> "LowCardinality", of |-> type]
MaybeNull(type) == [t |-> "Nullable", of |-> type]
ArrayOf(type) == [t |-> "Array", of |-> type]
MapType(key, type) == [t |-> "Map", key |-> key, of |-> type]
Enum(words) == [t |-> "Enum", words |-> words, first |-> Text("member", 1)]

Columns ==
    {Scalar(name) : name \in DOMAIN ScalarWords \ {"FixedString", "Int8"}}
    \cup {LowCardinality(MaybeNull(Scalar("String"))), MaybeNull(LowCardinality(Scalar("Int64"))),
          MaybeNull(Scalar("Float64")), MaybeNull(Scalar("DateTime")),
          Enum({}), Enum({"INT"}), MaybeNull(Enum({})),
          [t |-> "Tuple", parts |-> {Scalar("String"), Scalar("Int64")}],
          ArrayOf(Scalar("Int8")), ArrayOf(Scalar("Date")), ArrayOf(Scalar("UUID")), ArrayOf(Scalar("Point")),
          ArrayOf([t |-> "Tuple", parts |-> {Scalar("String"), Scalar("Int64")}]),
          ArrayOf(MaybeNull(Scalar("UUID"))),
          ArrayOf(MaybeNull(Scalar("UInt64"))), ArrayOf(Scalar("Variant")),
          MapType(LowCardinality(Scalar("String")), Scalar("Int64")),
          MapType(Scalar("Int64"), ArrayOf(Enum({}))),
          MapType(Scalar("String"), MapType(Scalar("String"), Scalar("Bool"))),
          MapType(Scalar("String"), Scalar("Decimal")),
          MapType(Scalar("String"), Scalar("IPv4")),
          ArrayOf(Scalar("Float64"))}

RECURSIVE Within(_), DepthOf(_)
Within(type) == {type} \cup UNION {Within(part) : part \in Parts(type)}
DepthOf(type) ==
    IF Parts(type) = {} THEN 0
    ELSE 1 + (CHOOSE d \in {DepthOf(part) : part \in Parts(type)} :
                \A part \in Parts(type) : d >= DepthOf(part))

MCTypes == UNION {Within(type) : type \in Columns}
MCDepth == [type \in MCTypes |-> DepthOf(type)]

Bare(text) == [func |-> "none", quoted |-> FALSE, text |-> text]
MCDefaults ==
    {NoDefault, Bare(Text("int", 1)), Bare(Text("half", 2)), Bare(Text("true", 1)),
     Bare(Text("word", 1)), [func |-> "none", quoted |-> TRUE, text |-> Text("member", 2)]}
    \cup {[func |-> f, quoted |-> FALSE, text |-> EmptyText] :
            f \in {"now", "today", "generateuuidv4"}}

Any == [k |-> "any"]
Numbers ==
    {Number(kind, 3) : kind \in Signed \cup Unsigned \cup {"json"}}
    \cup {Number("int64", -2), Number("int64", 0), Number("uint64", WordMax + 2),
          Number("uint", WordMax + 1), Number("json", WordMax + 2), Go("json", 1, "half")}
    \cup {Go(kind, n, "int") : kind \in Floats, n \in {0, 3}}
    \cup {Go("float64", 0, "half"), Go("float64", WordMax, "huge"),
          Go("float64", -WordMax - 1, "huge"), Go("float64", -WordMax - 1, "inf"),
          Go("float32", WordMax, "inf"), Number("decimal", 2)}
Texts ==
    {EmptyText, Text("true", 1), Text("word", 1), Text("member", 1), Text("ip", 1)}
    \cup {Text(form, 1) : form \in {"int", "half", "rfc3339", "datetime", "day", "slashed"}}
    \cup {Text("int", WordMax + 2)}
Others ==
    {Truth(TRUE), Truth(FALSE), Instant(2, "given"), Go("uuid", 1, "given"),
     Go("point", 3, "given"), Go("ip", 1, "ip"), Go("ip", 2, "ip4"), Go("ip", 0, "empty"),
     Go("addr", 1, "ip"), Go("addr", 0, "invalid"),
     ByteSlice(0), ByteSlice(1), ByteSlice(UuidSize)}
Pointers ==
    {Pointer(kind, Number(kind, 3)) : kind \in {"int64", "int16", "uint", "float32"}}
    \cup {Pointer("string", Text("int", 1)), Pointer("time", Instant(2, "given")),
          Pointer("bool", Truth(TRUE)), Pointer("string", Nil), Pointer("int64", Nil),
          Pointer("addr", Go("addr", 1, "ip"))}

Elements == SliceOf(Any, <<Number("float64", 3), Nil, Text("int", 1), Number("int64", 6)>>)
Entries == MapOf(Any, {<<Text("word", 1), Number("int64", 1)>>, <<Text("word", 2), Text("true", 1)>>})
Containers ==
    {Elements, Entries, JsonText(Elements), JsonText(Entries), JsonBytes(Entries),
     Pointer("slice", Elements), SliceOf(Any, <<Pointer("int64", Number("int64", 2))>>),
     MapOf(Any, {<<Text("word", 1), MapOf(Any, {<<Text("int", 1), Truth(TRUE)>>})>>}),
     SliceOf(Any, <<Go("uuid", 1, "given"), ByteSlice(UuidSize), Text("uuid", 1)>>),
     SliceOf(Any, <<Nil, ByteSlice(1)>>), SliceOf(Any, <<Go("ip", 1, "ip"), Go("ip", 2, "ip4")>>),
     SliceOf(Any, <<SliceOf(FloatSlice, <<Go("float64", 0, "half"), Number("float64", 3)>>)>>),
     SliceOf(Any, <<Go("point", 3, "given"), SliceOf(FloatSlice, <<Number("float64", 3)>>)>>),
     MapOf(Any, {<<Text("word", 1), Go("float64", -WordMax - 1, "inf")>>}),
     MapOf(Any, {<<Number("int", 1), SliceOf(Any, <<Text("member", 1), Nil>>)>>})}

RECURSIVE Inside(_)
Inside(v) ==
    {v} \cup
    CASE v.go = "ptr" -> Inside(v.to)
      [] v.go \in {"string", "bytes"} /\ v.form = "json" ->
            Inside(v.doc)
      [] v.go = "map" -> UNION {Inside(p[1]) \cup Inside(p[2]) : p \in v.pairs}
      [] v.go = "slice" -> UNION {Inside(v.elems[i]) : i \in DOMAIN v.elems}
      [] OTHER -> {}

MCValues ==
    UNION {Inside(v) : v \in {Nil, Number("uint8", 1)} \cup Numbers \cup Texts \cup Others \cup Pointers \cup Containers}
=============================================================================
