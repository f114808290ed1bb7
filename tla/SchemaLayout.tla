---------------------------- MODULE SchemaLayout ----------------------------
(***************************************************************************)
(* Where the fields of a struct lie. The layout is computed three times:   *)
(* by the defstruct handler (main/slang_env.cc), which sums sizes into     *)
(* TypeSchema::size; by ObjectWriter::FindDataStore (storage/              *)
(* object_writer.cc), which walks to the field it writes; and by           *)
(* JsonSerializer::WriteObject (json/json_serializer.cc), which walks over *)
(* all of them. The last two walk from the address of an object.           *)
(***************************************************************************)
EXTENDS Naturals, Sequences

CONSTANTS
    BasicSizes,   \* size and alignment of the basic types
    MaxStructs,   \* bound on the structs that are defined
    MaxFields,    \* bound on the fields of one struct
    Addresses     \* where objects, and structs in objects, may lie

ASSUME LayoutAssumption ==
    /\ BasicSizes \subseteq Nat \ {0}
    /\ \A a, b \in BasicSizes : a <= b => b % a = 0      \* powers of two
    /\ MaxStructs \in Nat
    /\ MaxFields \in Nat
    /\ Addresses \subseteq Nat

VARIABLES
    schemas,      \* the structs defined so far, in order
    fields,       \* the struct being defined: the schemas of its fields,
    offsets,      \* where each of them starts,
    total,        \* total_size
    alignment     \* and alignment

layoutVars == <<schemas, fields, offsets, total, alignment>>

Basics == {[size |-> b, alignment |-> b, basic |-> TRUE,
            fields |-> <<>>, offsets |-> <<>>] : b \in BasicSizes}

Known == Basics \cup {schemas[i] : i \in 1 .. Len(schemas)}

LayoutInit ==
    /\ schemas = <<>>
    /\ fields = <<>>
    /\ offsets = <<>>
    /\ total = 0
    /\ alignment = 0

(* (ptr + a - 1) & ~(a - 1), for a power of two; for a = 0 the mask is 0.  *)
AlignPtr(ptr, a) == IF a = 0 THEN 0 ELSE ((ptr + a - 1) \div a) * a

Larger(a, b) == IF a > b THEN a ELSE b

-----------------------------------------------------------------------------
(* One turn of the loop of the defstruct handler.                          *)
DefineField(f) ==
    LET at == AlignPtr(total, f.alignment) IN
    /\ Len(schemas) < MaxStructs
    /\ Len(fields) < MaxFields
    /\ fields' = Append(fields, f)
    /\ offsets' = Append(offsets, at)
    /\ total' = at + f.size
    /\ alignment' = Larger(alignment, f.alignment)
    /\ UNCHANGED schemas

(* The end of the handler: padding, and the schema is complete.            *)
DefineStruct ==
    /\ Len(schemas) < MaxStructs
    /\ schemas' = Append(schemas, [size |-> AlignPtr(total, alignment),
                                   alignment |-> alignment, basic |-> FALSE,
                                   fields |-> fields, offsets |-> offsets])
    /\ fields' = <<>>
    /\ offsets' = <<>>
    /\ total' = 0
    /\ alignment' = 0

LayoutNext == (\E f \in Known : DefineField(f)) \/ DefineStruct

LayoutSpec == LayoutInit /\ [][LayoutNext]_layoutVars

-----------------------------------------------------------------------------
(* Fault: the walk does not align its pointer.                             *)
WalkUnaligned(schema, address) ==
    LET n == Len(schema.fields)
        end[i \in 0 .. n] ==
            IF i = 0 THEN address ELSE end[i - 1] + schema.fields[i].size
    IN  [i \in 1 .. n |-> end[i - 1]]

(* The walk of FindDataStore and WriteObject over the fields fs of an      *)
(* object: the address behind each of them.                                *)
WalkEnds(fs, address) ==
    LET end[i \in 0 .. Len(fs)] ==
            IF i = 0 THEN address
            ELSE AlignPtr(end[i - 1], fs[i].alignment) + fs[i].size
    IN  end

(* Where the walk takes field i of the object at an address to be.         *)
Walk(schema, address) ==
    LET fs == schema.fields
        end == WalkEnds(fs, address)
    IN  [i \in 1 .. Len(fs) |-> AlignPtr(end[i - 1], fs[i].alignment)]

(* The structs that have a field, and whose fields all have one. AlignPtr  *)
(* with the alignment of a struct without fields, which is 0, gives 0: the *)
(* fields behind one of that type are put over the ones before it.         *)
Structs ==
    {s \in {schemas[i] : i \in 1 .. Len(schemas)} :
        /\ s.fields # <<>>
        /\ \A i \in 1 .. Len(s.fields) : s.fields[i].alignment # 0}

(* No field overlaps another or reaches beyond the size of its struct, and *)
(* that size lets structs follow one another: no write changes another     *)
(* field, also when structs are nested.                                    *)
FieldsDisjoint ==
    \A s \in Structs :
        /\ \A i, j \in 1 .. Len(s.fields) :
              i < j => s.offsets[i] + s.fields[i].size <= s.offsets[j]
        /\ \A i \in 1 .. Len(s.fields) :
              s.offsets[i] + s.fields[i].size <= s.size
        /\ s.size % s.alignment = 0

(* The writer and the serializer, walking over an object, or over a struct *)
(* in an object at an address of its alignment, find every field where     *)
(* defstruct has put it, and aligned (the assertion of WriteObject).       *)
WalkAgrees ==
    \A s \in Structs : \A a \in {a \in Addresses : a % s.alignment = 0} :
        \A i \in 1 .. Len(s.fields) :
            /\ Walk(s, a)[i] = a + s.offsets[i]
            /\ Walk(s, a)[i] % s.fields[i].alignment = 0

(* The layout is sound and the same in all three places.                   *)
LayoutInv == FieldsDisjoint /\ WalkAgrees
=============================================================================
