----------------------------- MODULE ExeOutput -----------------------------
(* The exe from the export file to the text files: main.cpp from parse_modules()
   to generate_entity_paths(), with src/output-generator.cpp.

   A pointer into a vector of classes is the pair <<module index, slot>>: it
   keeps pointing at the slot when the vector is sorted.                      *)
EXTENDS WorkerDump

CONSTANTS
  NameOrder,     \* all class names, in the order std::string compares them
  EntityRoots,   \* CEntityInstance, C_BaseEntity, ...
  FieldDepth     \* --field-depth

\* A class bears one of the names.
ASSUME NamesAssumption ==
  /\ IsRow(NameOrder)
  /\ \A g \in Games : \A e \in DOMAIN g.infos : g.infos[e].name \in ToSet(NameOrder) \cup {Unprintable}

VARIABLES
  step,                  \* what main() does next
  modules,               \* std::vector<ModuleData>
  global_class_lookup,   \* class name -> <<module index, slot>>
  emitted,               \* how many modules the output loop has passed
  flattened,             \* <<module, class>> -> its fields with those of its bases,
                         \* under FLATTENED and as the full layout
  trees                  \* <<heading, class>> -> the field tree below it

exeVars == <<step, modules, global_class_lookup, emitted, flattened, trees>>

At(mods, p) == mods[p[1]].classes[p[2]]

-----------------------------------------------------------------------------
\* Read, trim and parse; a missing or broken file ends the program.
ParseExport ==
  /\ step = "parse"
  /\ phase = "done"
  /\ IF export = << >>
     THEN /\ step' = "done"
          /\ UNCHANGED modules
     ELSE /\ step' = "lookup"
          /\ modules' = [i \in DOMAIN export.modules |->
               [name    |-> export.modules[i].name,
                classes |-> export.modules[i].classes,
                enums   |-> export.modules[i].enums]]
  /\ UNCHANGED <<global_class_lookup, emitted, flattened, trees>>

Slots(mods) == UNION {{<<i, j>> : j \in DOMAIN mods[i].classes} : i \in DOMAIN mods}
Names(mods) == {At(mods, p).name : p \in Slots(mods)}
Named(mods, n) == {p \in Slots(mods) : At(mods, p).name = n}
Before(p, q) == p[1] < q[1] \/ (p[1] = q[1] /\ p[2] <= q[2])

\* The cross-module lookup: the first module that has the class wins.
BuildLookup ==
  /\ step = "lookup"
  /\ global_class_lookup' =
       [n \in Names(modules) |->
          CHOOSE p \in Named(modules, n) : \A q \in Named(modules, n) : Before(p, q)]
  /\ step' = "modules"
  /\ UNCHANGED <<modules, emitted, flattened, trees>>

\* build_class_lookup: the last one wins.
build_class_lookup(mods) ==
  [n \in Names(mods) |->
     At(mods, CHOOSE p \in Named(mods, n) : \A q \in Named(mods, n) : Before(q, p))]

-----------------------------------------------------------------------------
\* FlatCollector::find: the class in this module, its C_ variant, or whatever
\* the other lookup says.
FindIn(local, global, name) ==
  IF name \in DOMAIN local THEN {local[name]}
  ELSE IF name \in DOMAIN ClientName /\ ClientName[name] \in DOMAIN local
       THEN {local[ClientName[name]]}
       ELSE IF name \in DOMAIN global THEN {global[name]} ELSE {}

InFieldOrder(shown) == SortedBy(shown, [i \in DOMAIN shown |-> shown[i].field.offset])

\* FlatCollector::collect, one class: its fields, then the parent is next, until
\* a name is met again or found nowhere.
CollectFrom(local, global, w) ==
  LET found == IF w.at \in w.visited \cup {NoName} THEN {} ELSE FindIn(local, global, w.at)
      cls   == CHOOSE c \in found : TRUE
  IN  IF found = {} THEN w
      ELSE [at      |-> cls.parent,
            visited |-> w.visited \cup {w.at, cls.name},
            fields  |-> w.fields \o [i \in DOMAIN cls.fields |->
                          [field |-> cls.fields[i], defined_in |-> cls.info]]]

CollectStart(class) == [at |-> class, visited |-> {}, fields |-> << >>]

\* Variant: only the class itself is looked up in its module.
collect_global(local, global, class) ==
  LET last == 2 * Cardinality(DOMAIN m_cache) + 1
      walk[k \in 0..last] ==
        IF k = 0 THEN CollectStart(class)
        ELSE CollectFrom(IF k = 1 THEN local ELSE << >>, global, walk[k - 1])
  IN  InFieldOrder(walk[last].fields)

\* FlatCollector::collect: the fields of the class and of its parents in turn.
collect(local, global, class) ==
  LET last == 2 * Cardinality(DOMAIN m_cache) + 1
      walk[k \in 0..last] ==
        IF k = 0 THEN CollectStart(class) ELSE CollectFrom(local, global, walk[k - 1])
  IN  InFieldOrder(walk[last].fields)

\* Where a name stands in the order of the strings.
RankOf(name) == CHOOSE r \in DOMAIN NameOrder : NameOrder[r] = name

\* generate_module_txt shows a class under FLATTENED when its chain has three
\* names or more, generate_hierarchy its full layout when it has a parent.
IsFlattened(class) == Len(class.inheritance) >= 3 \/ class.parent # NoName

\* One round of the output loop.  A module without classes and enums is passed
\* over; otherwise its classes are sorted by name, which moves them between the
\* slots, and both generators collect the fields of the ones they flatten.
EmitModule ==
  LET i      == emitted + 1
      sorted == SortedBy(modules[i].classes, [k \in DOMAIN modules[i].classes |-> RankOf(modules[i].classes[k].name)])
      mods   == [modules EXCEPT ![i].classes = sorted]
      local  == [n \in {c.name : c \in ToSet(sorted)} |-> CHOOSE c \in ToSet(sorted) : c.name = n]
      global == [n \in DOMAIN global_class_lookup |-> At(mods, global_class_lookup[n])]
      shown  == {<<modules[i].name, n>> : n \in {x \in DOMAIN local : IsFlattened(local[x])}}
  IN  /\ step = "modules"
      /\ emitted' = i
      /\ IF modules[i].classes = << >> /\ modules[i].enums = {}
         THEN UNCHANGED <<modules, flattened>>
         ELSE /\ modules' = mods
              /\ flattened' = [k \in DOMAIN flattened \cup shown |->
                   IF k \in DOMAIN flattened THEN flattened[k] ELSE collect(local, global, k[2])]
      /\ step' = IF i = Len(modules) THEN "layouts" ELSE "modules"
      /\ UNCHANGED <<global_class_lookup, trees>>

-----------------------------------------------------------------------------
\* TreeWriter::write: the fields of a class in the order of their offsets;
\* behind a pointer to a known class and inside an embedded one the tree goes
\* on, at most FieldDepth deep and into each class once per tree.  The result is
\* the set of classes expanded so far and the lines written.
write(lookup, class) ==
  LET Opens(c, f, seen) ==
        f.kind \notin {"handle", "handles", "vector", "pointers"} /\ f.type \in DOMAIN lookup /\ f.type \notin seen /\ f.type # c
      below[d \in Nat, c \in DOMAIN lookup, seen \in SUBSET DOMAIN lookup] ==
        IF d > FieldDepth THEN [seen |-> seen, lines |-> << >>]
        ELSE FoldLeft(LAMBDA acc, e :
               LET line  == <<[depth |-> d, field |-> e.field.name, defined_in |-> e.defined_in]>>
                   inner == below[d + 1, e.field.type, acc.seen \cup {e.field.type}]
               IN  IF Opens(c, e.field, acc.seen)
                   THEN [seen |-> inner.seen, lines |-> acc.lines \o line \o inner.lines]
                   ELSE [seen |-> acc.seen, lines |-> acc.lines \o line],
               [seen |-> seen, lines |-> << >>], collect(lookup, lookup, c))
  IN  below[0, class, {class}].lines

\* generate_globals_txt and generate_access_paths: a tree for each global whose
\* class has a schema and is in the lookup.
GlobalTrees(lookup) ==
  LET shown == UNION {{<<m, e.class>> : e \in {x \in ToSet(export.globals[m]) : x.schema}} :
                        m \in DOMAIN export.globals}
  IN  [k \in {x \in shown : x[2] \in DOMAIN lookup} |-> write(lookup, k[2])]

\* generate_entity_paths: a tree for each class of each module that inherits
\* from an entity.
EntityTrees(lookup) ==
  LET entities == {<<modules[p[1]].name, At(modules, p).name>> :
                     p \in {q \in Slots(modules) :
                              \E n \in ToSet(At(modules, q).inheritance) : n \in EntityRoots}}
  IN  [k \in entities |-> write(lookup, k[2])]

WriteTrees ==
  LET lookup == build_class_lookup(modules)
  IN  /\ step = "trees"
      /\ trees' = [globals |-> GlobalTrees(lookup), entities |-> EntityTrees(lookup)]
      /\ step' = "signatures"
      /\ UNCHANGED <<modules, global_class_lookup, emitted, flattened>>

ExeInit ==
  /\ step = "parse"
  /\ modules = << >>
  /\ global_class_lookup = << >>
  /\ emitted = 0
  /\ flattened = << >>
  /\ trees = [globals |-> << >>, entities |-> << >>]

ExeNext ==
  \/ ParseExport \/ BuildLookup \/ EmitModule \/ WriteTrees
-----------------------------------------------------------------------------
\* Whether the classes of the line of a class are cached under its module, and
\* none has more bases than the worker reads.
HasLine(k) ==
  /\ k[2] \in DOMAIN Loaded(k[1]).decl
  /\ \A c \in LineOf(Loaded(k[1]).decl, k[2]) :
       <<k[1], c>> \in DOMAIN m_cache /\ ReadableBases(Loaded(k[1]).decl, c)

\* The fields a class of the game declares itself.
DeclaredIn(e) == {[field |-> f, defined_in |-> e] : f \in ToSet(NamedOnly(game.infos[e].fields))}

\* From the memory of the game to the text files: under FLATTENED and in its full
\* layout a class that has its line of bases in its own module shows exactly their
\* fields, in the order of the offsets, each under the class that declares it.
FlattenedIsDeclared ==
  \A k \in DOMAIN flattened :
    LET shown == flattened[k]
    IN  HasLine(k) =>
          /\ ToSet(shown) = UNION {DeclaredIn(m_cache[<<k[1], c>>].info) : c \in LineOf(Loaded(k[1]).decl, k[2])}
          /\ \A i, j \in DOMAIN shown : i < j => shown[i].field.offset <= shown[j].field.offset

\* The full layout of a class, and its part of FLATTENED, shows fields of its
\* parent, when there is such a class and it has fields, whichever module that is
\* in ("Build cross-module class lookup for flattening inherited fields" at
\* main.cpp:545, "all inherited fields" at src/output-generator.cpp:532).
FlattenedIsInherited ==
  \A k \in DOMAIN flattened :
    \A p \in Slots(modules) :
      LET class  == At(modules, p)
          parent == {class.parent} \cup (IF class.parent \in DOMAIN ClientName
                                          THEN {ClientName[class.parent]} ELSE {})
          known  == {q \in Slots(modules) : At(modules, q).name \in parent}
      IN  /\ modules[p[1]].name = k[1] /\ class.name = k[2]
          /\ known # {}
          /\ \A q \in known : At(modules, q).fields # << >>
          => \E i \in DOMAIN flattened[k] : game.infos[flattened[k][i].defined_in].name \in parent
=============================================================================
