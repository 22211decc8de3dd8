----------------------------- MODULE WorkerDump -----------------------------
(* worker_thread() of worker.cpp from the schema system to the export file: the
   phases in their order over one game, and what they leave for the next.

   The game also has a name and the entries of patterns.json (config).  A loaded
   module is a record
     decl      the classes it was compiled from, which the worker never sees
     name, system (under \Windows\), small (less than 64 KiB)
     image     for build_rtti_hierarchy (see RttiHierarchy)
     text      its virtual functions, each with its instructions, the bytes they
               are encoded in and, for Signatures, a shorter row of cells (raw)
     data      the words of its writable sections, code its .text, lists its
               interface list, strings its candidate strings (see Scanners)   *)
EXTENDS SchemaWalk, RttiHierarchy, Scanners

CONSTANTS
  MaxModules     \* 512, the array the worker gives EnumProcessModules

\* Words, instructions and the entries of patterns.json stand in a row, and what
\* a word of .rdata may point at in .text is a function of the module.
ASSUME RowsAssumption ==
  \A g \in Games :
    /\ IsRow(g.config)
    /\ \A i \in DOMAIN g.loaded :
         LET m == g.loaded[i]
         IN  /\ IsRow(m.data) /\ IsRow(m.image.rdata)
             /\ \A w \in ToSet(m.image.rdata) : w.to = "text" => w.at \in DOMAIN m.text
             /\ \A f \in DOMAIN m.text : IsRow(m.text[f].code)

\* The image of a module is what was made of the classes it was compiled from.
ASSUME ImagesAssumption ==
  \A g \in Games : \A i \in DOMAIN g.loaded : IsCompiled(g.loaded[i].decl, g.loaded[i].image)

VARIABLES
  phase,         \* what the worker thread does next
  m_rtti_map,    \* <<module, class>> -> InheritanceInfo
  unresolved,    \* the keys of m_rtti_map phase 2 has not looked up yet
  discovered,    \* GlobalMap
  patterns,      \* the results of resolve_all, per entry of patterns.json
  refs,          \* the interfaces and the strings found
  export         \* the export file, << >> while there is none

workerVars == <<phase, m_rtti_map, unresolved, discovered, patterns, refs, export>>
dumpVars == <<schemaVars, workerVars>>

-----------------------------------------------------------------------------
LoadedNames == {game.loaded[i].name : i \in DOMAIN game.loaded}
Loaded(m)   == game.loaded[CHOOSE i \in DOMAIN game.loaded : game.loaded[i].name = m]

\* EnumProcessModules fills MaxModules entries and reports how many there are:
\* the loop runs over that many, and what it reads past the array may be any
\* handle that is still on the stack, or none.
SeenBy(S) ==
  LET within == {game.loaded[i].name : i \in {j \in DOMAIN game.loaded : j <= MaxModules}}
  IN  IF Len(game.loaded) > MaxModules THEN {within \cup T : T \in SUBSET S} ELSE {S}

\* Modules that are scanned: not of the system, not too small.
Interesting(S) == {m \in S : ~Loaded(m).system /\ ~Loaded(m).small}

\* phase_schema: init() and dump_all_modules(); without a module the dump ends.
PhaseSchema ==
  /\ phase = "schema"
  /\ dump_all_modules
  /\ phase' = IF m_dumped_modules' = << >> THEN "done" ELSE "rtti"
  /\ UNCHANGED <<m_rtti_map, unresolved, discovered, patterns, refs, export>>

\* load_rtti: entries of a module that are there already stay.
load_rtti(map, m) ==
  LET info == build_rtti_hierarchy(Loaded(m).image)
  IN  [k \in DOMAIN map \cup {<<m, c>> : c \in DOMAIN info} |->
         IF k \in DOMAIN map THEN map[k] ELSE info[k[2]]]

\* The entries of a set of modules, one module after another.
RttiOf(mods) ==
  LET upto[i \in 0..Len(ModuleOrder)] ==
        IF i = 0 THEN m_rtti_map
        ELSE IF ModuleOrder[i] \in mods THEN load_rtti(upto[i - 1], ModuleOrder[i]) ELSE upto[i - 1]
  IN  upto[Len(ModuleOrder)]

\* phase_rtti, first part: the dumped modules, then all others worth scanning.
PhaseRtti ==
  /\ phase = "rtti"
  /\ \E seen \in SeenBy(LoadedNames) :
       m_rtti_map' = RttiOf(ToSet(m_dumped_modules) \cup Interesting(seen))
  /\ unresolved' = DOMAIN m_rtti_map'
  /\ phase' = "resolve"
  /\ UNCHANGED <<schemaVars, discovered, patterns, refs, export>>

\* phase_rtti, second part: each class RTTI knows is looked up in the dumped
\* modules until one has it, in the order of a hash map.
ResolveRtti(key) ==
  LET found == Kept(m_dumped_modules, {m \in LoadedNames : Finds(m, key[2])})
  IN  /\ phase = "resolve"
      /\ key \in unresolved
      /\ IF found = << >> THEN UNCHANGED m_cache ELSE find_class(found[1], key[2])
      /\ unresolved' = unresolved \ {key}
      /\ UNCHANGED <<game, m_enum_cache, m_dumped_modules, phase, m_rtti_map,
                     discovered, patterns, refs, export>>

\* phase_globals: the classes with a schema serve to tag what is found.
PhaseGlobals ==
  /\ phase = "resolve" /\ unresolved = {}
  /\ discovered' = ScanGlobals(m_rtti_map, {k[2] : k \in DOMAIN m_cache},
                               [m \in LoadedNames |-> Loaded(m).data])
  /\ phase' = "patterns"
  /\ UNCHANGED <<schemaVars, m_rtti_map, unresolved, patterns, refs, export>>

\* phase_patterns: nothing without a patterns.json.
PhasePatterns ==
  /\ phase = "patterns"
  /\ patterns' = resolve_all(game.config, game.name, [m \in LoadedNames |-> Loaded(m).code])
  /\ phase' = "interfaces"
  /\ UNCHANGED <<schemaVars, m_rtti_map, unresolved, discovered, refs, export>>

\* phase_interfaces and phase_strings: interfaces of every module that is not of
\* the system, strings of those that are not small either.
PhaseReferences ==
  /\ phase = "interfaces"
  /\ \E seen \in SeenBy(LoadedNames) :
       refs' = [interfaces |-> ScanInterfaces([m \in {x \in seen : ~Loaded(x).system} |-> Loaded(m).list]),
                strings    |-> ScanStrings([m \in Interesting(seen) |-> Loaded(m).strings],
                                           {k[2] : k \in DOMAIN m_rtti_map})]
  /\ phase' = "export"
  /\ UNCHANGED <<schemaVars, m_rtti_map, unresolved, discovered, patterns, export>>

-----------------------------------------------------------------------------
(* write_export *)

\* get_inheritance: the entry of the module, or the one of that bare name which
\* the walk over the hash map meets first; first says which that is.
get_inheritance(first, key) ==
  IF key \in DOMAIN m_rtti_map THEN {key}
  ELSE IF key[2] \in DOMAIN first THEN {first[key[2]]} ELSE {}

MetFirst ==
  {f \in [{k[2] : k \in DOMAIN m_rtti_map} -> DOMAIN m_rtti_map] : \A c \in DOMAIN f : f[c][2] = c}

\* The module list: the dumped ones, then those that only RTTI knows, in the
\* order of a hash map.
ExportModules ==
  {m_dumped_modules \o rest : rest \in SetToSeqs({k[1] : k \in DOMAIN m_rtti_map} \ ToSet(m_dumped_modules))}

\* One class: what the cache holds under its key, with the parent and the chain
\* of the RTTI entry, if there is one and it has a parent.
ExportClass(key, entry) ==
  LET cls  == m_cache[key]
      rtti == IF entry = {} THEN [parent |-> NoName] ELSE m_rtti_map[CHOOSE k \in entry : TRUE]
  IN  [name |-> cls.name, info |-> cls.info, size |-> cls.size, fields |-> cls.fields,
       statics |-> cls.statics, bases |-> cls.bases, metadata |-> cls.metadata,
       parent |-> rtti.parent,
       inheritance |-> IF rtti.parent = NoName THEN << >> ELSE rtti.chain]

\* A function with its rva and its first FUNC_BYTES_SIZE bytes.
BodyOf(m, f) == [rva |-> f, raw |-> Loaded(m).text[f].raw, bytes |-> Loaded(m).text[f].bytes]

\* The vtables of a module: classes RTTI found a vtable for, schema or not.
ExportVtables(m) ==
  {[class |-> k[2], vtable |-> m_rtti_map[k].vtable,
    functions |-> [i \in DOMAIN m_rtti_map[k].funcs |-> BodyOf(m, m_rtti_map[k].funcs[i])]] :
     k \in {x \in DOMAIN m_rtti_map : x[1] = m /\ m_rtti_map[x].vtable # 0}}

\* A module with its classes in the order of a hash map, its enums and vtables.
ExportModule(first, order, m) ==
  LET keys == Kept(order, {k \in DOMAIN m_cache : k[1] = m})
  IN  [name    |-> m,
       classes |-> [j \in DOMAIN keys |-> ExportClass(keys[j], get_inheritance(first, keys[j]))],
       enums   |-> {m_enum_cache[k] : k \in {x \in DOMAIN m_enum_cache : x[1] = m}},
       vtables |-> ExportVtables(m)]

ExportPatterns ==
  UNION {{[name |-> game.config[i].name, module |-> game.config[i].module, rva |-> r] : r \in patterns[i]} :
           i \in DOMAIN patterns}

\* The file: the modules, the globals that have entries, and the patterns that
\* were found.
WriteExport ==
  /\ phase = "export"
  /\ \E first \in MetFirst, order \in SetToSeqs(DOMAIN m_cache), names \in ExportModules :
       export' =
         [modules  |-> [i \in DOMAIN names |-> ExportModule(first, order, names[i])],
          globals  |-> [m \in {x \in DOMAIN discovered : discovered[x] # << >>} |-> discovered[m]],
          patterns |-> ExportPatterns,
          refs     |-> refs]
  /\ phase' = "done"
  /\ UNCHANGED <<schemaVars, m_rtti_map, unresolved, discovered, patterns, refs>>

DumpInit ==
  /\ SchemaInit
  /\ phase = "schema"
  /\ m_rtti_map = << >>
  /\ unresolved = {}
  /\ discovered = << >>
  /\ patterns = << >>
  /\ refs = << >>
  /\ export = << >>

DumpNext ==
  \/ PhaseSchema \/ PhaseRtti \/ PhaseGlobals \/ PhasePatterns \/ PhaseReferences \/ WriteExport
  \/ \E key \in unresolved : ResolveRtti(key)

DumpSpec == DumpInit /\ [][DumpNext]_dumpVars
-----------------------------------------------------------------------------
\* What phase 1 caches under a module are classes of that module, and of a
\* cached class every base that is of the module is cached too, so that the
\* layout of a class can be put together from one module (the comment at
\* schema-manager.cpp:950).
CacheIsClosed ==
  phase = "rtti" =>
    \A k \in DOMAIN m_cache :
      /\ BelongsTo(m_cache[k].info, k[1])
      /\ \A b \in m_cache[k].bases :
           BelongsTo(b, k[1]) => /\ <<k[1], game.infos[b].name>> \in DOMAIN m_cache
                                 /\ m_cache[<<k[1], game.infos[b].name>>].info = b

\* What RTTI yields are the declared classes: parent, chain and the functions of
\* the primary vtable, whatever the order of locators and vtables in memory; of
\* a module past the first MaxModules nothing is promised, nor of one that has no
\* schema and is not scanned.
RttiAsDeclared ==
  phase \notin {"schema", "rtti"} /\ m_dumped_modules # << >> =>
    \A m \in {game.loaded[i].name : i \in {j \in DOMAIN game.loaded : j <= MaxModules}} :
      m \in ToSet(m_dumped_modules) \cup Interesting(LoadedNames) =>
        LET own == {k \in DOMAIN m_rtti_map : k[1] = m}
        IN  AsDeclared(Loaded(m).decl, [c \in {k[2] : k \in own} |-> m_rtti_map[<<m, c>>]])

\* Of the objects of a class, and of the pointers to objects of it, in the
\* writable data of a scanned module exactly the first is reported.
FirstOfEachIsReported ==
  \A m \in DOMAIN discovered :
    LET data == Loaded(m).data
        At(c, pointer) == {i \in DOMAIN data : /\ Matches(m_rtti_map, data[i])
                                               /\ data[i].class[2] = c
                                               /\ data[i].to = IF pointer THEN "object" ELSE "vtable"}
    IN  \A c \in {data[i].class[2] : i \in DOMAIN data}, pointer \in BOOLEAN :
          {e.rva : e \in {x \in ToSet(discovered[m]) : x.class = c /\ x.pointer = pointer}}
            = IF At(c, pointer) = {} THEN {} ELSE {Lowest(At(c, pointer))}

\* A derived entry follows the entry it names, wherever that stands in the file
\* if it has a pattern of its own (the comment at pattern-scanner.cpp:204) and
\* above if it is derived itself; names that several entries bear are left out.
DerivedFollowBase ==
  \A i, j \in DOMAIN patterns :
    LET e     == game.config[i]
        base  == game.config[j]
        field == scan_extract_u32(Loaded(e.module).code, e.pattern, e.offset)
    IN  /\ e.mode = "derived" /\ e.module \in LoadedNames
        /\ e.from = base.name /\ (base.mode = "derived" => j < i)
        /\ \A k \in DOMAIN patterns \ {j} : game.config[k].name # base.name
        /\ patterns[j] # {} /\ field # 0
        => patterns[i] = {(rva + field) % RvaModulus : rva \in patterns[j]}
=============================================================================
