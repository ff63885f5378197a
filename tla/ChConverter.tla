---------------------------- MODULE ChConverter ----------------------------
(***************************************************************************)
(* src/ch/converter.go: a row of DESCRIBE becomes a TableColumn            *)
(* (parseColumnType), and the value a row map holds for that column, or    *)
(* its absence, becomes the Go value handed to the ClickHouse driver       *)
(* (getColumnValue of src/ch/writer.go).                                   *)
(*                                                                         *)
(* A ClickHouse type is the tree its text spells; the code looks for words *)
(* in that text, so Words gives the words the text contains.  A Go value   *)
(* is its dynamic type, a number and, in "form", what the rest of the      *)
(* value is or what its text reads as: a string of form "int" and number 3 *)
(* is "3".  The number of a float too large for an int64, of form "huge",  *)
(* or infinite or NaN, of form "inf", is the int64 that the build at hand  *)
(* makes of it.  64 bits are WordMax wide and 8 bits ByteMax wide here.    *)
(*                                                                         *)
(* Some values make a conversion panic; nothing recovers on the writer's   *)
(* goroutine, so that ends the program.                                    *)
(*                                                                         *)
(* What the code computes by recursion is a recursive function here, over  *)
(* the column types or the Go types in use: both contain their own parts.  *)
(***************************************************************************)
EXTENDS Integers, Sequences, FiniteSets

CONSTANTS
    Types,      \* column types a table has, and the types inside them
    Depth,      \* how deep the types inside a column type nest
    MaxDepth,
    Defaults,   \* default expressions DESCRIBE reports (NoDefault: none)
    Values,     \* values rows give, and what is inside (Nil: nil, or no entry)
    WordMax,    \* stands for the largest int64
    ByteMax,    \* stands for the largest int8
    UuidSize    \* stands for the 16 bytes of a UUID

ASSUME WidthAssumption ==
    /\ WordMax \in Nat /\ ByteMax \in Nat /\ ByteMax < WordMax
    /\ UuidSize \in Nat /\ UuidSize > 1

VARIABLES
    col,        \* the TableColumn in use
    value,      \* the value given for it
    sent        \* what the driver was handed; Panic: the conversion panicked

converterVars == <<col, value, sent>>

-----------------------------------------------------------------------------
(* Go values.                                                              *)
Go(kind, n, form) == [go |-> kind, n |-> n, form |-> form]
Nil == Go("nil", 0, "nil")
Number(kind, n) == Go(kind, n, "int")
Text(form, n) == Go("string", n, form)
EmptyText == Text("empty", 0)
Truth(b) == Go("bool", IF b THEN 1 ELSE 0, IF b THEN "true" ELSE "false")
Instant(n, unit) == Go("time", n, unit)
MinTime == Instant(0, "epoch")
ZeroIP == Go("ip", 0, "zero")
Pointer(kind, to) == [go |-> "ptr", kind |-> kind, to |-> to]
SliceOf(type, elems) == [go |-> "slice", type |-> type, elems |-> elems]
MapOf(type, pairs) == [go |-> "map", type |-> type, pairs |-> pairs]
JsonText(doc) == [go |-> "string", n |-> 0, form |-> "json", doc |-> doc]
Bytes(size) == [j \in 1..size |-> Number("uint8", 1)]
ByteSlice(size) == [go |-> "bytes", n |-> 1, form |-> "read", elems |-> Bytes(size)]
JsonBytes(doc) == [go |-> "bytes", n |-> 0, form |-> "json", doc |-> doc,
                   elems |-> Bytes(1)]  \* one byte stands for them all
NotSent == Go("none", 0, "none")
Panic == Go("panic", 0, "none")

\* A scalar of a kind; the string or json form of a document carries it.
Forms == {"nil", "none", "int", "half", "huge", "inf", "ip4", "empty", "true", "false", "word", "member",
          "uuid", "ip", "invalid", "given", "zero", "json", "rfc3339", "datetime", "day",
          "slashed", "now", "today", "read", "epoch", "ms", "s"}
ScalarValues(kind) ==
    [go : {kind}, n : Int, form : Forms] \cup [go : {kind}, n : Int, form : Forms, doc : Values]

Signed == {"int64", "int", "int32", "int16", "int8"}
Unsigned == {"uint64", "uint", "uint32", "uint16", "uint8"}
Floats == {"float64", "float32"}

KindOf(v) == IF v.go = "ptr" THEN v.kind ELSE v.go
Pointee(v) == IF v.go = "ptr" THEN v.to ELSE v

\* A type switch with a case for each of the kinds and for a pointer to each of
\* them but the unpointed; it turns a nil pointer and any other type into a zero.
Takes(v, kinds, unpointed) ==
    /\ KindOf(v) \in kinds
    /\ v.go = "ptr" => v.to # Nil /\ v.kind \notin unpointed

-----------------------------------------------------------------------------
(* The type of a column.                                                   *)
Wrappers == {"LowCardinality", "Nullable"}

ScalarWords ==
    [Int8 |-> {"INT"}, Int64 |-> {"INT"}, UInt64 |-> {"INT"}, Point |-> {"INT"},
     String |-> {"STRING"}, FixedString |-> {"STRING"}, Float64 |-> {"FLOAT"},
     Bool |-> {"BOOL"}, DateTime |-> {"DATETIME", "DATE"}, Date |-> {"DATE"},
     Decimal |-> {"DECIMAL"}, IPv4 |-> {}, UUID |-> {}, Variant |-> {}]

Parts(type) ==
    CASE type.t \in Wrappers \cup {"Array"} -> {type.of}
      [] type.t = "Map" -> {type.key, type.of}
      [] type.t = "Tuple" -> type.parts
      [] OTHER -> {}

\* The text of a type is finite: a type is deeper than the types inside it.
ASSUME TypesAssumption ==
    /\ MaxDepth \in Nat
    /\ Depth \in [Types -> 0..MaxDepth]
    /\ \A type \in Types :
        /\ type.t \in DOMAIN ScalarWords \cup Wrappers \cup {"Array", "Map", "Tuple", "Enum"}
        /\ \A part \in Parts(type) : part \in Types /\ Depth[part] < Depth[type]
        /\ type.t = "Enum" => type.first \in ScalarValues("string")

Words[type \in Types] ==
    CASE type.t = "Enum" -> {"ENUM"} \cup type.words
      [] type.t \in DOMAIN ScalarWords -> ScalarWords[type.t]
      [] OTHER -> UNION {Words[part] : part \in Parts(type)}

\* Looks at the outermost wrapper only.
UnwrapOuter(type) ==
    IF type.t = "Nullable" THEN [base |-> type.of, nullable |-> TRUE]
                           ELSE [base |-> type, nullable |-> FALSE]

Unwrapped[type \in Types] ==
    IF type.t \in Wrappers
    THEN [base |-> Unwrapped[type.of].base,
          nullable |-> Unwrapped[type.of].nullable \/ type.t = "Nullable"]
    ELSE [base |-> type, nullable |-> FALSE]
Unwrap(type) == Unwrapped[type]

\* In the order of the cases of the switch.
Keywords == << <<"INT", "Int">>, <<"STRING", "String">>, <<"FLOAT", "Float">>,
    <<"BOOL", "Bool">>, <<"DATETIME", "DateTime">>, <<"DATE", "Date">>,
    <<"DECIMAL", "Decimal">>, <<"ENUM", "Enum">> >>

\* The keywords the text of the type contains, by their place in the switch.
Found(base) == {i \in DOMAIN Keywords : Keywords[i][1] \in Words[base]}
ClassFound(base) == Keywords[CHOOSE i \in Found(base) : \A j \in Found(base) : i <= j][2]

\* Looks for the words before it looks at the prefix.
WordsFirst(base) ==
    IF Found(base) # {} THEN ClassFound(base)
    ELSE IF base.t \in {"Map", "Array"} THEN base.t ELSE "Unknown"

ParsedType(base) ==
    IF base.t \in {"Map", "Array"} THEN base.t
    ELSE IF Found(base) # {} THEN ClassFound(base)
    ELSE IF base.t = "IPv4" THEN "IP" ELSE "Unknown"

\* The Go type the driver scans a column type into; "tuple" is []any, the one of
\* a Tuple without names.
Unresolved == [k |-> "unresolved"]
DriverKind ==
    [Int8 |-> "int8", Int64 |-> "int64", UInt64 |-> "uint64", String |-> "string",
     FixedString |-> "string", Float64 |-> "float64", Bool |-> "bool",
     DateTime |-> "time", Date |-> "time", Decimal |-> "decimal", IPv4 |-> "ip",
     UUID |-> "uuid", Point |-> "point"]

ScanType[type \in Types] ==
    CASE type.t = "LowCardinality" -> ScanType[type.of]
      [] type.t = "Enum" -> [k |-> "string"]
      [] type.t = "Tuple" -> [k |-> "tuple"]
      [] type.t \in {"Nullable", "Array"} ->
            IF ScanType[type.of] = Unresolved THEN Unresolved
            ELSE [k |-> IF type.t = "Array" THEN "slice" ELSE "ptr", of |-> ScanType[type.of]]
      [] type.t = "Map" ->
            IF Unresolved \in {ScanType[type.key], ScanType[type.of]} THEN Unresolved
            ELSE [k |-> "map", key |-> ScanType[type.key], of |-> ScanType[type.of]]
      [] type.t \in DOMAIN DriverKind -> [k |-> DriverKind[type.t]]
      [] OTHER -> Unresolved

GoTypes == {ScanType[type] : type \in Types} \ {Unresolved}

EnumFirst(base) == IF base.t = "Enum" THEN base.first ELSE EmptyText

\* A default expression is a call of a function, a quoted text or a bare text;
\* "func" is the function when the code knows how to evaluate it.
NoDefault == [func |-> "none", quoted |-> FALSE, text |-> EmptyText]

DefaultValue(d, class) ==
    LET number == d.text.form = "int"
        fraction == d.text.form = "half"
    IN  CASE d = NoDefault -> Nil
          [] d.func # "none" -> Go("func", 0, d.func)
          [] d.func = "none" /\ d.quoted -> d.text
          [] d # NoDefault /\ d.func = "none" /\ ~d.quoted ->
                CASE class = "Int" -> Number("int64", IF number THEN d.text.n ELSE 0)
                  [] class \in {"Float", "Decimal"} ->
                        Go(IF class = "Float" THEN "float64" ELSE "decimal",
                           IF number \/ fraction THEN d.text.n ELSE 0,
                           IF fraction THEN "half" ELSE "int")
                  [] class = "Bool" -> Truth(d.text.form = "true" \/ (number /\ d.text.n = 1))
                  [] OTHER -> d.text

ParseColumnType(type, d) ==
    LET unwrapped == Unwrap(type)
        class == ParsedType(unwrapped.base)
    IN  [type |-> type,
         base |-> unwrapped.base,
         nullable |-> unwrapped.nullable,
         class |-> class,
         default |-> DefaultValue(d, class),
         first |-> IF class = "Enum" THEN EnumFirst(unwrapped.base) ELSE EmptyText,
         scan |-> IF class \in {"Map", "Array"} THEN ScanType[unwrapped.base] ELSE Unresolved]

Evaluate(func) ==
    CASE func \in {"now", "now64"} -> Instant(1, "now")
      [] func = "today" -> Instant(0, "day")
      [] func = "yesterday" -> Instant(-1, "day")
      [] func = "generateuuidv4" -> Text("uuid", 1)

ZeroOf ==
    [Unknown |-> Nil, String |-> EmptyText, Int |-> Number("int64", 0),
     Float |-> Number("float64", 0), Decimal |-> Number("decimal", 0),
     Bool |-> Truth(FALSE), DateTime |-> MinTime, Date |-> MinTime, IP |-> ZeroIP]

EmptyContainer(type) == IF type.k = "map" THEN MapOf(type, {}) ELSE SliceOf(type, <<>>)

ZeroValue(c) ==
    IF c.nullable THEN Nil
    ELSE CASE c.class \in DOMAIN ZeroOf -> ZeroOf[c.class]
           [] c.class = "Enum" -> c.first
           [] c.class \in {"Map", "Array"} ->
                IF c.scan = Unresolved THEN Nil ELSE EmptyContainer(c.scan)

-----------------------------------------------------------------------------
(* The converters of scalar values.                                        *)
Unpointed == {"json", "ip", "addr", "bytes"}
Numeric == Signed \cup Unsigned \cup Floats
CommonNumbers == {"int64", "int", "int32", "uint64"} \cup Floats
StringKinds == {"string", "bool"} \cup CommonNumbers
IntKinds == {"string", "bool", "json"} \cup Numeric
FloatKinds == {"string", "json"} \cup CommonNumbers
DecimalKinds == {"decimal"} \cup FloatKinds
BoolKinds == {"bool", "string"} \cup CommonNumbers
DateTimeKinds == {"int64", "int", "json", "time", "string"} \cup Floats
DateKinds == {"int64", "int", "json", "time", "string", "float64"}
Basic == DecimalKinds \cup IntKinds \cup DateTimeKinds \cup {"ip", "addr", "uuid", "point"}
IPKinds == {"ip", "addr", "string", "bytes"}

\* int64(v) without the comparison.
WrapAround(n) == IF n > WordMax THEN n - 2 * (WordMax + 1) ELSE n
Clamp(n) == IF n > WordMax THEN WordMax ELSE n

AsString(v) ==
    IF ~Takes(v, StringKinds, Unpointed) THEN EmptyText
    ELSE IF KindOf(v) = "string" THEN Pointee(v)
    ELSE Text(Pointee(v).form, Pointee(v).n)

AsInt(v) ==
    LET x == Pointee(v)
        n == CASE KindOf(v) \in Signed \cup Unsigned -> Clamp(x.n)
               [] KindOf(v) \in Floats \cup {"bool"} -> x.n
               [] KindOf(v) \in {"string", "json"} ->
                    IF x.form = "int" /\ x.n <= WordMax THEN x.n ELSE 0
    IN  Number("int64", IF Takes(v, IntKinds, Unpointed) THEN n ELSE 0)

Fractional(kind, v) ==
    LET x == Pointee(v)
    IN  IF x.form \in {"int", "half", "huge"} THEN Go(kind, x.n, x.form) ELSE Number(kind, 0)

AsFloat(v) ==
    IF ~Takes(v, FloatKinds, Unpointed) THEN Number("float64", 0)
    ELSE IF Pointee(v).form = "inf" THEN Go("float64", Pointee(v).n, "inf")
    ELSE Fractional("float64", v)

\* decimal.NewFromFloat panics on an infinity and on NaN.
AsDecimal(v) ==
    IF ~Takes(v, DecimalKinds, Unpointed) THEN Number("decimal", 0)
    ELSE IF KindOf(v) \in Floats /\ Pointee(v).form = "inf" THEN Panic
    ELSE Fractional("decimal", v)

AsBool(v) ==
    LET x == Pointee(v)
    IN  Truth(/\ Takes(v, BoolKinds, Unpointed)
              /\ \/ KindOf(v) = "bool" /\ x.n = 1
                 \/ KindOf(v) \in Numeric /\ (x.n # 0 \/ x.form # "int")
                 \/ KindOf(v) = "string" /\ (x.form = "true" \/ (x.form = "int" /\ x.n = 1)))

\* A number is an instant in the given unit; a text has one of the layouts or
\* becomes the epoch.
AsTime(v, kinds, unit, layouts) ==
    LET x == Pointee(v)
    IN  IF ~Takes(v, kinds, Unpointed) THEN MinTime
        ELSE CASE KindOf(v) = "time" -> x
               [] KindOf(v) = "string" ->
                    IF x.form \in layouts THEN Instant(x.n, "read") ELSE MinTime
               [] KindOf(v) = "json" ->
                    IF x.form = "int" /\ x.n <= WordMax THEN Instant(x.n, unit) ELSE MinTime
               [] KindOf(v) \in Numeric -> Instant(x.n, unit)

AsDateTime(v) == AsTime(v, DateTimeKinds, "ms", {"rfc3339", "datetime", "day"})
AsDate(v) == AsTime(v, DateKinds, "s", {"rfc3339", "day", "slashed"})

AsEnum(v, first) == IF v = EmptyText THEN first ELSE v

\* The bytes of a slice are the address, however many they are.
AsIP(v) ==
    CASE v.go = "ip" /\ v.form # "empty" -> v
      [] v.go = "bytes" /\ v.elems # <<>> -> Go("ip", v.n, "read")
      [] v.go \in {"addr", "string"} /\ v.form \in {"ip", "ip4"} -> Go("ip", v.n, v.form)
      [] OTHER -> ZeroIP

-----------------------------------------------------------------------------
(* Maps and arrays.  The type of a container is the driver's: every element *)
(* is converted to the Go type it expects there.                           *)

\* Go's conversion of an integer to a narrower type.
Wrap(n, low, high) == low + ((n - low) % (high - low + 1))

Scalars == {"string", "int8", "int64", "uint64", "float64", "bool", "time", "decimal", "ip"}
ConvertScalar(v, k) ==
    CASE k = "string" -> AsString(v)
      [] k = "int8" -> Number("int8", Wrap(AsInt(v).n, -ByteMax - 1, ByteMax))
      [] k = "int64" -> AsInt(v)
      [] k = "uint64" -> Number("uint64", Wrap(AsInt(v).n, 0, 2 * WordMax + 1))
      [] k = "float64" -> AsFloat(v)
      [] k = "bool" -> AsBool(v)
      [] k = "time" -> AsDateTime(v)
      [] k = "decimal" -> AsDecimal(v)
      [] k = "ip" -> AsIP(v)

\* What entries or elements are taken from: the value a pointer points to, or
\* the document a JSON text holds; Nil if there is none of the wanted kind.
Source(v, kind, texts) ==
    LET held == IF v.go \in texts /\ v.form = "json" THEN v.doc ELSE Pointee(v)
    IN  IF held.go = kind THEN held ELSE Nil

NormalizeMapInput(v) == Source(v, "map", {"string", "bytes"})

\* Of Kind Slice or Array are these too.
Indexed == {"bytes", "ip", "uuid", "point"}
IPSize(form) == CASE form = "empty" -> 0 [] form = "ip4" -> 1 [] OTHER -> UuidSize
ItemsOf(v) ==
    CASE v.go \in {"slice", "bytes"} -> v.elems
      [] v.go = "ip" -> Bytes(IPSize(v.form))
      [] v.go = "uuid" -> Bytes(UuidSize)
      [] v.go = "point" -> <<Number("float64", v.n), Number("float64", v.n)>>

NormalizeSliceInput(v) ==
    LET given == Pointee(v)
    IN  IF given.go \in Indexed THEN SliceOf([k |-> given.go], ItemsOf(given))
        ELSE Source(v, "slice", {"string"})

\* coerceTo a Go array: reflect converts a slice of its items, and panics when
\* the slice is shorter than the array.
FloatSlice == [k |-> "slice", of |-> [k |-> "float64"]]
ArraySize == [uuid |-> UuidSize, point |-> 2]
Convertible(v, k) ==
    IF k = "uuid" THEN v.go \in {"bytes", "ip"} ELSE v.go = "slice" /\ v.type = FloatSlice
CoerceTo(v, k) ==
    IF v.go = k THEN v
    ELSE IF ~Convertible(v, k) THEN Go(k, 0, "zero")
    ELSE IF Len(ItemsOf(v)) >= ArraySize[k] THEN Go(k, 1, "read")
    ELSE Panic

\* Rows are finite trees too: what is inside a value is a value.
ASSUME ValuesAssumption ==
    \A v \in Values :
        /\ Pointee(v).go \in Basic => Pointee(v) \in ScalarValues(Pointee(v).go)
        /\ v.go = "nil" => v = Nil
        /\ v # Panic
        /\ v.go = "ptr" => v.to = Nil \/ v.to.go = v.kind
        /\ v.go = "bytes" => v.n \in Int
        /\ NormalizeMapInput(v) # Nil => NormalizeMapInput(v).pairs \subseteq Values \X Values
        /\ NormalizeSliceInput(v) # Nil => NormalizeSliceInput(v).elems \in Seq(Values)

\* "key" and "of" convert the keys and the values.  Keys that convert alike
\* leave one entry with one of their values, which one is up to Go's iteration
\* order: their pairs all stay, as its possible values.
BuildMap(v, type, key, of) ==
    LET src == NormalizeMapInput(v)
        pairs == IF src = Nil THEN {} ELSE {<<key[p[1]], of[p[2]]>> : p \in src.pairs}
    IN  IF \E p \in pairs : Panic \in {p[1], p[2]} THEN Panic ELSE MapOf(type, pairs)

SliceOrPanic(type, elems) ==
    IF \E i \in DOMAIN elems : elems[i] = Panic THEN Panic ELSE SliceOf(type, elems)

\* Leaves null elements out, as BuildMap leaves invalid entries out.
BuildSliceDense(v, type, of) ==
    LET src == NormalizeSliceInput(v)
        given == IF src = Nil THEN <<>> ELSE SelectSeq(src.elems, LAMBDA e : e # Nil)
    IN  SliceOrPanic(type, [i \in DOMAIN given |-> of[given[i]]])

BuildSlice(v, type, of) ==
    LET src == NormalizeSliceInput(v)
    IN  SliceOrPanic(type, IF src = Nil THEN <<>> ELSE [i \in DOMAIN src.elems |-> of[src.elems[i]]])

PointerOrPanic(kind, to) == IF to = Panic THEN Panic ELSE Pointer(kind, to)

ConvertElem[type \in GoTypes] ==
    [v \in Values |->
        CASE type.k = "ptr" -> PointerOrPanic(type.of.k, ConvertElem[type.of][v])
          [] type.k \in Scalars -> ConvertScalar(v, type.k)
          [] type.k = "map" -> BuildMap(v, type, ConvertElem[type.key], ConvertElem[type.of])
          [] type.k = "slice" -> BuildSlice(v, type, ConvertElem[type.of])
          [] type.k = "tuple" -> BuildSlice(v, type, [e \in Values |-> e])
          [] type.k \in DOMAIN ArraySize -> CoerceTo(v, type.k)]

-----------------------------------------------------------------------------
(* The converter of a column, and the value a row sends.                   *)
Convert(v, c) ==
    CASE c.class \in {"Unknown", "String"} -> AsString(v)
      [] c.class = "Int" -> AsInt(v)
      [] c.class = "Float" -> AsFloat(v)
      [] c.class = "Decimal" -> AsDecimal(v)
      [] c.class = "Bool" -> AsBool(v)
      [] c.class = "DateTime" -> AsDateTime(v)
      [] c.class = "Date" -> AsDate(v)
      [] c.class = "Enum" -> AsEnum(v, c.first)
      [] c.class = "IP" -> AsIP(v)
      [] c.class \in {"Map", "Array"} ->
            CASE c.scan = Unresolved -> Nil
              [] c.scan.k = "map" ->
                    BuildMap(v, c.scan, ConvertElem[c.scan.key], ConvertElem[c.scan.of])
              [] c.scan.k = "slice" -> BuildSlice(v, c.scan, ConvertElem[c.scan.of])

GetColumnValue(v, c) ==
    IF v # Nil THEN Convert(v, c)
    ELSE IF c.default = Nil THEN ZeroValue(c)
    ELSE IF c.default.go = "func" THEN Evaluate(c.default.form)
    ELSE c.default

ConverterInit ==
    /\ \E type \in Types : col = ParseColumnType(type, NoDefault)
    /\ value = NotSent
    /\ sent = NotSent

\* DESCRIBE reports the column anew: another type or another default.
Describe(type, d) ==
    /\ sent # Panic
    /\ col' = ParseColumnType(type, d)
    /\ value' = NotSent
    /\ sent' = NotSent

\* batchInsert appends the value of a row to the batch, if converting it does
\* not end the program.
AppendRow(v) ==
    /\ sent # Panic
    /\ value' = v
    /\ sent' = GetColumnValue(v, col)
    /\ UNCHANGED col

ConverterNext ==
    \/ \E type \in Types, d \in Defaults : Describe(type, d)
    \/ \E v \in Values : AppendRow(v)

ConverterSpec == ConverterInit /\ [][ConverterNext]_converterVars

-----------------------------------------------------------------------------
(* Properties.                                                             *)
\* The outcomes of a conversion to a Go type: its Go values, and a panic where a
\* decimal, a UUID or a point is the type or inside it.
Mapping(type, keys, values) ==
    [go : {"map"}, type : {type}, pairs : SUBSET ((keys \ {Panic}) \X (values \ {Panic}))]
        \cup ((keys \cup values) \cap {Panic})
Listing(type, values) ==
    [go : {"slice"}, type : {type}, elems : Seq(values \ {Panic})] \cup (values \cap {Panic})
Pointing(kind, values) ==
    [go : {"ptr"}, kind : {kind}, to : values \ {Panic}] \cup (values \cap {Panic})

Outcomes[type \in GoTypes] ==
    CASE type.k = "ptr" -> Pointing(type.of.k, Outcomes[type.of])
      [] type.k = "map" -> Mapping(type, Outcomes[type.key], Outcomes[type.of])
      [] type.k = "slice" -> Listing(type, Outcomes[type.of])
      [] type.k = "tuple" -> Listing(type, Values)
      [] type.k \in {"decimal", "uuid", "point"} -> ScalarValues(type.k) \cup {Panic}
      [] OTHER -> ScalarValues(type.k)

\* The Go types README's table promises for a ClickHouse type (ch/README.md,
\* "Type Conversion"; the driver's own for maps and arrays).
HasPromise(base) ==
    /\ base.t \notin {"Point", "UUID", "Variant", "Tuple"}
    /\ base.t \in {"Map", "Array"} => ScanType[base] # Unresolved
Promised(base) ==
    CASE base.t \in {"Map", "Array"} -> Outcomes[ScanType[base]]
      [] base.t = "Decimal" -> ScalarValues("decimal") \cup {Panic}
      [] base.t \in {"Int8", "Int64", "UInt64"} -> ScalarValues("int64")
      [] base.t = "Enum" -> ScalarValues("string")
      [] OTHER -> ScalarValues(DriverKind[base.t])

\* Whatever the row gives for a column of the table's types, or if it gives
\* nothing and there is no default, the driver gets NULL for a Nullable column or
\* a value of the promised Go type, inside containers too: a Map(String, Int64)
\* is never taken for an integer, nor an Array column sent NULL.  There are two
\* exceptions: a member of an Enum whose text contains another keyword (see
\* EnumFirstSent), and values that make the conversion panic, which happens only
\* where the column has a Decimal, a UUID or a Point in it (see ArraysFallBack).
SentFits ==
    (/\ sent # NotSent
     /\ HasPromise(col.base)
     /\ value # Nil \/ col.default = Nil
     /\ col.base.t = "Enum" => col.base.words = {} /\ value.go \in {"nil", "string"})
    => sent \in Promised(col.base) \/ (sent = Nil /\ col.nullable)

Nullable[type \in Types] ==
    type.t = "Nullable" \/ (type.t = "LowCardinality" /\ Nullable[type.of])

\* A row that gives nil for a column that is Nullable, at whatever depth of
\* LowCardinality, and that has no default, stores NULL and not a zero value.
AbsentIsNull ==
    (value = Nil /\ Nullable[col.type] /\ col.default = Nil) => sent = Nil

\* An integer of any Go type, or a pointer to one, reaches an integer column
\* unchanged, or as the largest int64 when it is larger.
IntsKept ==
    LET given == Pointee(value)
    IN  (sent # NotSent /\ col.base.t = "Int64" /\ given.go \in Signed \cup Unsigned)
        => sent = Number("int64", IF given.n > WordMax THEN WordMax ELSE given.n)

\* An array column gets as many elements as the row gave, null ones included,
\* and element i is what element i alone is converted to: nothing shifts.
PositionsKept ==
    LET given == IF value.go = "string" /\ value.form = "json" THEN value.doc ELSE Pointee(value)
    IN  (col.class = "Array" /\ sent.go = "slice" /\ given.go = "slice") =>
            /\ Len(sent.elems) = Len(given.elems)
            /\ \A i \in DOMAIN given.elems :
                    sent.elems[i] = BuildSlice(SliceOf(given.type, <<given.elems[i]>>), sent.type,
                                               ConvertElem[sent.type.of]).elems[1]

-----------------------------------------------------------------------------
(* Properties the code does not have.                                      *)

\* An element that is no value of the driver's type becomes the type's zero value
\* (the comment of coerceTo, converter.go:1252-1253).  A byte slice shorter than a
\* UUID panics in reflect; so do an infinite or NaN float given for a Decimal, in
\* decimal.NewFromFloat, but no comment speaks of that.
ArraysFallBack ==
    (col.class = "Array" /\ col.base.of.t \in {"UUID", "Point"}) => sent # Panic

\* A nil pointer given for a Nullable column without default stores NULL: the
\* converters take pointers, and ch/README.md says nil is for NULL.  The code
\* stores the zero value.
TypedNilStaysNull ==
    (col.nullable /\ col.default = Nil /\ value.go = "ptr" /\ value.to = Nil) => sent = Nil

\* A number is not turned into a zero by a floating point column (ch/README.md
\* promises conversion between Go types and column types).  FloatConverter has
\* no case for int16, uint32 and other kinds IntConverter takes.
NumbersReachFloats ==
    LET given == Pointee(value)
    IN  (sent # NotSent /\ col.class = "Float" /\ given.go \in Numeric) => sent.n = given.n

\* An absent Enum value is stored as the first member (ch/README.md:261).  A
\* member whose text contains INT or STRING makes the column another class.
EnumFirstSent ==
    (col.base.t = "Enum" /\ value = EmptyText) => sent = col.base.first

\* A default for an array column is a value the driver takes (the comment of
\* getZeroValue says it rejects strings).  The default expression is sent as text.
DefaultFits ==
    (col.class = "Array" /\ col.scan # Unresolved /\ value = Nil /\ col.default # Nil)
        => sent \in Outcomes[col.scan]

\* Two distinct keys given to a map column stay two entries.  Keys the converter
\* cannot read all become the zero value of the key type.
KeysStayApart ==
    (sent.go = "map" /\ value.go = "map") =>
        Cardinality({p[1] : p \in sent.pairs}) = Cardinality({p[1] : p \in value.pairs})

=============================================================================
