----------------------------- MODULE InternalSdk -----------------------------
(* src/vfunc-namer.cpp and src/generate-internal-sdk.cpp: the headers of
   --internal-sdk, which find the offsets of members at run time and know the
   virtual functions of a class by their slots.

   exported are the modules of the export file with their vtables, strings the
   strings found per module, layouts the inferred members per module and class. *)
EXTENDS SdkHeaders, Signatures

CONSTANTS
  BareName         \* normalize_class_name: a name without its C_ or C

VtableIn(exported, m, class) ==
  {v \in UNION {x.vtables : x \in {y \in ToSet(exported) : y.name = m}} : v.class = class}

\* rva_index: for a function that several vtables share, the slot met last in
\* the order of the export, which is the order of a hash map.
RvaIndexes(exported) ==
  LET slots == UNION {UNION {{[at |-> <<m.name, v.functions[i].rva>>, class |-> v.class, index |-> i] :
                                i \in DOMAIN v.functions} : v \in m.vtables} : m \in ToSet(exported)}
      keys  == {s.at : s \in slots}
      OneOfEach(S) == {s.at : s \in S} = keys /\ \A s, t \in S : s.at = t.at => s = t
  IN  {[k \in keys |-> CHOOSE s \in S : s.at = k] : S \in {T \in SUBSET slots : OneOfEach(T)}}

\* Phase 1: the length of the vtable of the parent, in this module or else in
\* any other that has one; 0 for a class without a schema.
parent_vfunc_counts(exported, lookup, m, class) ==
  LET parent == IF class \in DOMAIN lookup THEN {lookup[class].parent} ELSE {}
      own    == UNION {VtableIn(exported, m, p) : p \in parent}
      others == UNION {UNION {VtableIn(exported, x.name, p) : p \in parent} : x \in ToSet(exported)}
      from   == IF own # {} THEN own ELSE others
  IN  IF from = {} THEN {0} ELSE {Len(v.functions) : v \in from}

\* Pass 1: the first string "Class::Method" for debugging that a function of the
\* vtable refers to names it, if the index leads from the function to this slot.
NameFromString(strings, index, m, class, i) ==
  LET names(s) == /\ s.category \in {"debug", "lifecycle"}
                  /\ s.text # << >>
                  /\ \E f \in ToSet(s.xrefs) :
                       /\ <<m, f>> \in DOMAIN index
                       /\ index[<<m, f>>].class = class /\ index[<<m, f>>].index = i
                  /\ BareName[class] = BareName[s.text[1]]
      found == IF m \in DOMAIN strings THEN SelectSeq(strings[m], names) ELSE << >>
  IN  IF found = << >> THEN << >> ELSE <<found[1].text[2]>>

\* Pass 3: a member of the schema that one function alone reads, or writes, but
\* not both, names that function; the lowest offset is looked at first.
NamesFromMember(layouts, lookup, m, class, i) ==
  LET layout == IF m \in DOMAIN layouts /\ class \in DOMAIN layouts[m] THEN layouts[m][class] ELSE << >>
      fields == IF class \in DOMAIN lookup THEN ToSet(lookup[class].fields) ELSE {}
      fit    == {o \in DOMAIN layout : /\ layout[o].funcs = {i}
                                       /\ Cardinality(layout[o].access \cap {"read", "write"}) = 1
                                       /\ \E f \in fields : f.offset = o}
      first  == CHOOSE o \in fit : \A p \in fit : o <= p
      verb   == IF "write" \in layout[first].access THEN "Set" ELSE "Get"
  IN  IF fit = {} THEN {} ELSE {<<verb, f.name>> : f \in {x \in fields : x.offset = first}}

\* build_vfunc_map and emit_vfunc_section: the slots that are shown for a class,
\* neither inherited nor stubs, each with its name if it got one.
emit_vfunc_section(exported, lookup, strings, layouts, index, m, v) ==
  LET shown == {i \in DOMAIN v.functions :
                  /\ \E n \in parent_vfunc_counts(exported, lookup, m, v.class) : i > n
                  /\ ~detect_stub(v.functions[i].raw)}
  IN  [i \in shown |->
         LET debug == NameFromString(strings, index, m, v.class, i)
         IN  IF debug # << >> THEN debug
             ELSE SetToSeq(NamesFromMember(layouts, lookup, m, v.class, i))]

\* generate_internal_class_header: bitfields are left out, and so is every field
\* that has the name of an inherited one.
ShownFields(lookup, c) ==
  LET up[k \in Nat] == IF k = 0 THEN {c.parent} \cap DOMAIN lookup
                       ELSE up[k - 1] \cup ({lookup[n].parent : n \in up[k - 1]} \cap DOMAIN lookup)
      inherited == UNION {{f.name : f \in ToSet(lookup[n].fields)} : n \in up[Cardinality(DOMAIN lookup)]}
  IN  {f.name : f \in {x \in ToSet(c.fields) : x.name \notin inherited /\ x.kind # "bits"}}

\* process_module: a header for every class, useful or not.
process_internal_module(mods, exported, lookup, strings, layouts, index, i) ==
  LET mod == mods[i]
      own == UNION {VtableIn(exported, mod.name, c.name) : c \in ToSet(mod.classes)}
  IN  [module  |-> mod.name,
       headers |-> HeadersOf(mods, lookup, mod, ToSet(mod.classes)),
       fields  |-> [n \in {c.name : c \in ToSet(mod.classes)} |->
                      ShownFields(lookup, CHOOSE c \in ToSet(mod.classes) : c.name = n)],
       vfuncs  |-> [n \in {v.class : v \in own} |->
                      emit_vfunc_section(exported, lookup, strings, layouts, index, mod.name,
                                         CHOOSE v \in own : v.class = n)],
       files   |-> IF mod.enums # {} THEN {"_enums"} ELSE {}]
=============================================================================
