----------------------------- MODULE SdkHeaders -----------------------------
(* src/import-schema.cpp: the C++ headers of --sdk, one per class that has a size
   and fields, and what includes what.

   A header is named by where it lies, <<module, subfolder, class>>.  mods are
   the parsed modules (see ExeOutput) and lookup is class_lookup: the class that
   a name leads to.  Formatting and comments are left out.                    *)
EXTENDS Naturals, Sequences, SequencesExt, FiniteSets, Rows

CONSTANTS
  CppSize,        \* RICH_TYPES, PRIMITIVE_MAP and ALIAS_TABLE: the size of the
                  \* C++ type that stands for a schema type
  KindSize,       \* the sizes of CHandle, of a pointer and of CHandleVector
  ArrayOf,        \* the type of the elements of an array type, and their number
  ElementSize,    \* the sizes of char, CHandle and the types of CppSize of which
                  \* there can be arrays
  EntityRoot      \* CEntityInstance

Useful(c) == c.size > 0 /\ c.fields # << >>
UsefulOf(mod) == {c \in ToSet(mod.classes) : Useful(c)}

-----------------------------------------------------------------------------
(* SharedState: keyed by the bare name of a class or enum, the last module that
   has it wins.                                                              *)

ClassNames(mods) == UNION {{c.name : c \in ToSet(mods[i].classes)} : i \in DOMAIN mods}

class_to_module(mods) ==
  [n \in ClassNames(mods) |->
     mods[Max({i \in DOMAIN mods : \E c \in ToSet(mods[i].classes) : c.name = n})].name]

all_enums(mods) ==
  LET named == UNION {{e.name : e \in mods[i].enums} : i \in DOMAIN mods}
  IN  [n \in named |->
         LET i == Max({j \in DOMAIN mods : \E e \in mods[j].enums : e.name = n})
             e == CHOOSE x \in mods[i].enums : x.name = n
         IN  IF e.size > 0 THEN e.size ELSE 4]

\* is_entity_class: up the parents while they are known.
is_entity_class(lookup, name) ==
  LET up[k \in Nat] == IF k = 0 THEN {name}
                       ELSE up[k - 1] \cup {lookup[n].parent : n \in up[k - 1] \cap DOMAIN lookup}
  IN  EntityRoot \in (up[Cardinality(DOMAIN lookup)] \cap DOMAIN lookup)

\* class_subfolder: a module with both kinds is split in two, one with entities
\* alone has them in their folder; a later module overrules an earlier one.
class_subfolder(mods, lookup) ==
  LET Split(sub, mod) ==
        LET names    == {c.name : c \in UsefulOf(mod)}
            entities == {n \in names : is_entity_class(lookup, n)}
        IN  IF entities = {} THEN sub
            ELSE [n \in names |-> IF n \in entities THEN "entities" ELSE "structs"] @@ sub
  IN  FoldLeft(Split, << >>, mods)

SubfolderOf(sub, name) == IF name \in DOMAIN sub THEN sub[name] ELSE ""

-----------------------------------------------------------------------------
(* Includes. *)

\* Variant: the parent is looked for in the folder of the class.
include_sibling(mods, sub, m, name, parent) ==
  LET to_module == class_to_module(mods)
  IN  <<IF to_module[name] = to_module[parent] THEN m ELSE to_module[parent],
        SubfolderOf(sub, name), parent>>

\* compute_include_path, as seen from the header of class name in module m: a
\* path inside the module when both names belong to the same one.
compute_include_path(mods, sub, m, name, parent) ==
  LET to_module == class_to_module(mods)
  IN  <<IF to_module[name] = to_module[parent] THEN m ELSE to_module[parent],
        SubfolderOf(sub, parent), parent>>

\* The headers of a module, each with the header it includes, if any: the ones
\* of the useful classes for --sdk, the ones of all for --internal-sdk.
HeadersOf(mods, lookup, mod, classes) ==
  LET sub == class_subfolder(mods, lookup)
  IN  [path \in {<<mod.name, SubfolderOf(sub, c.name), c.name>> : c \in classes} |->
         LET c == CHOOSE x \in classes : x.name = path[3]
         IN  IF c.parent \in DOMAIN lookup
             THEN {compute_include_path(mods, sub, mod.name, c.name, c.parent)} ELSE {}]

-----------------------------------------------------------------------------
(* The struct of a class: its members in their order, packed. *)

enum_int_size(n) == IF n \in {1, 2, 4, 8} THEN n ELSE 4

\* schema_to_cpp_type: the size of the member that is declared for a field, the
\* size the schema says for containers, embedded classes, unknown types and
\* arrays of these.
schema_to_cpp_type(enums, f) ==
  LET array == ArrayOf[f.type]
  IN  CASE f.kind \in DOMAIN KindSize -> KindSize[f.kind]
        [] f.kind = "value" /\ f.type \in DOMAIN CppSize -> CppSize[f.type]
        [] f.kind = "value" /\ f.type \in DOMAIN enums \ DOMAIN CppSize -> enum_int_size(enums[f.type])
        [] f.kind = "array" /\ array.base \in DOMAIN ElementSize -> array.count * ElementSize[array.base]
        [] f.kind = "array" /\ array.base \in DOMAIN enums \ DOMAIN ElementSize ->
             array.count * enum_int_size(enums[array.base])
        [] OTHER -> f.size

Pad(from, to) == IF to > from THEN <<[name |-> "_pad", size |-> to - from]>> ELSE << >>

\* emit_field: a bitfield, and a field of no size and no known type, is a comment
\* only; the padding before it is written all the same and the cursor stays.
emit_field(enums, st, f) ==
  LET padded == st.members \o Pad(st.cursor, f.offset)
  IN  IF f.kind = "bits" \/ schema_to_cpp_type(enums, f) = 0
      THEN [st EXCEPT !.members = padded]
      ELSE [cursor  |-> f.offset + f.size,
            members |-> Append(padded, [name |-> f.name, size |-> schema_to_cpp_type(enums, f)])]

\* Variant: a field that overlaps the one before it is declared too.
emit_all(enums, start, fields) ==
  FoldLeft(LAMBDA st, f : emit_field(enums, st, f), [cursor |-> start, members |-> << >>], fields)

\* generate_struct_header, its loop: what lies before the cursor is left out, the
\* inherited part and fields that share their place with an earlier one.
emit_next(enums, st, f) == IF f.offset < st.cursor THEN st ELSE emit_field(enums, st, f)

emit_fields(enums, start, fields) ==
  LET upto[i \in 0..Len(fields)] ==
        IF i = 0 THEN [cursor |-> start, members |-> << >>]
        ELSE emit_next(enums, upto[i - 1], fields[i])
  IN  upto[Len(fields)]

ByOffset(fields) == SortedBy(fields, [i \in DOMAIN fields |-> fields[i].offset])

\* generate_struct_header: from the end of the parent to the size of the class.
generate_struct_header(enums, lookup, c) ==
  LET base == IF c.parent \in DOMAIN lookup THEN lookup[c.parent].size ELSE 0
      body == emit_fields(enums, base, ByOffset(c.fields))
  IN  body.members \o Pad(body.cursor, c.size)

-----------------------------------------------------------------------------
\* process_sdk_module: nothing at all for a module without useful classes and
\* enums; _offsets.hpp and _enums.hpp each only when there is something in them.
process_sdk_module(mods, lookup, i) ==
  LET mod == mods[i]
      enums == all_enums(mods)
      headers == HeadersOf(mods, lookup, mod, UsefulOf(mod))
  IN  [module  |-> mod.name,
       valid   |-> UsefulOf(mod) # {} \/ mod.enums # {},
       headers |-> headers,
       structs |-> [path \in DOMAIN headers |->
                      generate_struct_header(enums, lookup,
                        CHOOSE c \in UsefulOf(mod) : c.name = path[3])],
       files   |-> (IF UsefulOf(mod) # {} THEN {"_offsets"} ELSE {})
                     \cup (IF mod.enums # {} THEN {"_enums"} ELSE {})]

\* generate_all_offsets and generate_all_enums: the masters include both files of
\* every module that wrote something.
MasterIncludes(results) ==
  {<<r.module, f>> : r \in {x \in results : x.valid}, f \in {"_offsets", "_enums"}}

\* generate_all_vtables: classes with functions and a name C++ can spell.
generate_all_vtables(exported, unspeakable) ==
  UNION {{<<m.name, v.class, v.vtable, Len(v.functions)>> :
            v \in {x \in m.vtables : x.functions # << >> /\ x.class \notin unspeakable}} :
          m \in ToSet(exported)}

\* generate_rtti_layouts: a header for each class with inferred members that has
\* none from the schema; the master lists just these.
generate_rtti_layouts(layouts, mods, unspeakable) ==
  LET schema_classes == UNION {{c.name : c \in UsefulOf(mods[i])} : i \in DOMAIN mods}
  IN  UNION {{<<m, c>> : c \in (DOMAIN layouts[m] \ schema_classes) \ unspeakable} : m \in DOMAIN layouts}

-----------------------------------------------------------------------------
\* The offset at which the packed struct has each of its members, and its size.
OffsetsOf(base, members) ==
  LET at[i \in 1..(Len(members) + 1)] == IF i = 1 THEN base ELSE at[i - 1] + members[i - 1].size
  IN  at

\* The static_asserts of a header, for a base of some size: the size of the class
\* and the offset of every field that was declared, those without a size aside
\* (import-schema.cpp:1036 and 1044).
AssertsOf(base, members, c) ==
  LET at == OffsetsOf(base, members)
  IN  /\ at[Len(members) + 1] = c.size
      /\ \A i \in DOMAIN members, f \in ToSet(c.fields) :
           members[i].name = f.name /\ f.size > 0 => at[i] = f.offset
=============================================================================
