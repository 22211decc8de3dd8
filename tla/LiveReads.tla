----------------------------- MODULE LiveReads -----------------------------
(* src/live-bridge.cpp behind the pipe: the schema cache loaded from the export,
   objects read field by field, the names of their classes and the list of
   entities, asked for by the WebSocket thread and by the subscription thread.

   The memory of the running game (game.live) has words by address, each with
   the pointer, the vtable <<module, rva>> or the count it holds; the addresses
   that can be read; the static pointers at <<module, rva>>; what is where in
   truth (entities, chunk_offset); and whether single reads may fail (flaky).  *)
EXTENDS Generators

CONSTANTS
  Threads,         \* the WebSocket thread (Socket) and the subscription thread
  Socket,
  Requests,        \* the <<address, module, class>> that are asked for
  MaxVisited,      \* 16
  MaxObject,       \* 0x10000
  MaxItems,        \* 64
  MaxCount,        \* 4096
  ChunkOffsets,    \* 0x08, 0x10 .. 0x80
  FallbackOffset,  \* 0x10
  Strides,         \* 0x70, 0x78, 0x80
  ProbeSlots,      \* 8
  PrimitiveSize,   \* primitive_size
  MaxChunks, ChunkSize, Batch     \* 64, 512 and 64 slots

\* The name of a class that the locator in front of a vtable leads to, whatever
\* the offset in the locator says.
NameIn(g, v) ==
  LET img == g.loaded[CHOOSE i \in DOMAIN g.loaded : g.loaded[i].name = v[1]].image
  IN  IF v[2] - 1 \in DOMAIN img.rdata /\ img.rdata[v[2] - 1].to = "col"
      THEN img.tds[img.cols[img.rdata[v[2] - 1].at].td] ELSE NoName

\* An object that is said to be of a class begins with a vtable of the class.
ASSUME ObjectsAssumption ==
  \A g \in Games : \A a \in DOMAIN g.live.objects :
    /\ a..(a + 7) \subseteq g.live.readable
    /\ a \in DOMAIN g.live.words /\ g.live.words[a].vtable # << >>
    /\ NameIn(g, g.live.words[a].vtable) = g.live.objects[a]

VARIABLES
  cache,           \* SchemaCache, << >> until it is loaded
  s_rtti_cache,    \* vtable -> name, NoName for one whose walk failed
  m_ent_config,
  jobs,            \* per thread the pointers it has yet to follow (todo), the vtable
                   \* whose name it looks for (walking) and what it has shown
  entities         \* the answer of entity.list

liveVars == <<cache, s_rtti_cache, m_ent_config, jobs, entities>>

Zero == [ptr |-> 0, vtable |-> << >>, count |-> 0]
WordAt(a) == IF a \in DOMAIN game.live.words THEN game.live.words[a] ELSE Zero
Readable(a, n) == n > 0 /\ a..(a + n - 1) \subseteq game.live.readable
is_valid_ptr(p) == p > 0

-----------------------------------------------------------------------------
(* SchemaCache *)

\* A class of the file as the cache has it; two of a module under one name do
\* not occur in a file (see GamesAssumption).
CachedClass(m, c) ==
  [module |-> m, name |-> c.name, info |-> c.info, size |-> c.size, parent |-> c.parent, fields |-> c.fields]

ClassOf(file, k) ==
  CHOOSE c \in UNION {ToSet(x.classes) : x \in {y \in ToSet(file.modules) : y.name = k[1]}} : c.name = k[2]

CachedGlobal(m, g) ==
  [module |-> m, class |-> g.class, rva |-> g.rva, vtable |-> g.vtable, pointer |-> g.pointer]

\* load(): classes under module::name, the modules with the client first.
Load(file) ==
  LET keys == UNION {{<<x.name, c.name>> : c \in ToSet(x.classes)} : x \in ToSet(file.modules)}
  IN  [modules  |-> InModuleOrder({x.name : x \in ToSet(file.modules)}),
       classes  |-> [k \in keys |-> CachedClass(k[1], ClassOf(file, k))],
       enums    |-> UNION {{e.name : e \in x.enums} : x \in ToSet(file.modules)},
       vtables  |-> UNION {{[class |-> v.class, module |-> x.name, rva |-> v.vtable] : v \in x.vtables} :
                             x \in ToSet(file.modules)},
       globals  |-> UNION {{CachedGlobal(m, g) : g \in ToSet(file.globals[m])} : m \in DOMAIN file.globals},
       patterns |-> file.patterns]

\* The first of several answers that is not empty.
FirstAnswer(answers) ==
  LET given == {i \in DOMAIN answers : answers[i] # << >>}
  IN  IF given = {} THEN << >> ELSE answers[Lowest(given)]

\* Variant: the parent is looked for in the order of the modules.
AnyModuleFirst(m) == cache.modules

\* Where flat_fields looks for a parent: the module of the class, then all.
OwnModuleFirst(m) == <<m>> \o cache.modules

\* What a class has from its parent, when the flat fields of all classes are known.
InheritedFields(known, k) ==
  LET places == OwnModuleFirst(k[1])
      keys   == [i \in DOMAIN places |-> <<places[i], cache.classes[k].parent>>]
  IN  IF cache.classes[k].parent = NoName THEN << >>
      ELSE FirstAnswer([i \in DOMAIN places |-> IF keys[i] \in DOMAIN cache.classes THEN known[keys[i]] ELSE << >>])

\* flat_fields: the fields of the parent, and of its parent, then those of the class.
flat_fields(m, name) ==
  LET last == Cardinality(DOMAIN cache.classes)
      flat[d \in 0..last] ==
        [k \in DOMAIN cache.classes |->
           ByOffset((IF d = 0 THEN << >> ELSE InheritedFields(flat[d - 1], k)) \o cache.classes[k].fields)]
  IN  IF <<m, name>> \in DOMAIN cache.classes THEN flat[last][<<m, name>>] ELSE << >>

\* find_class_any: the first module that has a class of that name.
find_class_any(name) ==
  LET within == {i \in DOMAIN cache.modules : <<cache.modules[i], name>> \in DOMAIN cache.classes}
  IN  IF within = {} THEN {} ELSE {cache.classes[<<cache.modules[Lowest(within)], name>>]}

\* resolve_wrapper: the index of classes that only wrap one field of their size.
Wrappers ==
  {c.name : c \in {cache.classes[k] : k \in {x \in DOMAIN cache.classes :
     LET d == cache.classes[x]
         f == IF d.parent = NoName THEN d.fields ELSE flat_fields(d.module, d.name)
     IN  Len(f) = 1 /\ f[1].size = d.size /\ d.size > 0}}}

-----------------------------------------------------------------------------
(* process_field.  Only pointers to follow are of interest: the result is the
   sequence of them that lie in a field, with the types met on the way.       *)

FieldsOf(c) == LET flat == flat_fields(c.module, c.name) IN IF flat = << >> THEN c.fields ELSE flat

\* read_utlvector: the first MaxItems elements of a field f with the word w, when
\* all can be read at once; pointers, classes of no size and unknown types are
\* taken to have 8 bytes.
Elements(w, f) ==
  LET sizes == IF f.kind = "pointers" THEN {}
               ELSE IF f.type \in DOMAIN PrimitiveSize THEN {PrimitiveSize[f.type]}
               ELSE {c.size : c \in find_class_any(f.type)} \ {0}
      size  == IF sizes = {} THEN 8 ELSE Max(sizes)
      n     == IF w.count > MaxItems THEN MaxItems ELSE w.count
  IN  IF \/ f.size < 16 \/ w.count \notin 1..MaxCount
         \/ ~is_valid_ptr(w.ptr) \/ ~Readable(w.ptr, n * size)
      THEN << >>
      ELSE [i \in 1..n |-> [at |-> w.ptr + (i - 1) * size, size |-> size]]

\* process_field at base, of which size bytes were read.
process_field(field, start, length, seen) ==
  LET links[d \in Nat, f \in [name : STRING, offset : Nat, type : STRING, kind : STRING, size : Nat],
            base \in Nat, size \in Nat, visited \in SUBSET STRING] ==
        LET word  == WordAt(base + f.offset)
            items == Elements(word, f)
            open  == f.type \notin visited /\ Cardinality(visited) < MaxVisited
            inner == find_class_any(f.type)
            subs  == IF inner = {} THEN << >>
                     ELSE SelectSeq(FieldsOf(CHOOSE c \in inner : TRUE),
                                    LAMBDA s : f.offset + s.offset + s.size <= size)
        IN  IF d = 0 \/ f.offset + f.size > size THEN << >>
            ELSE IF f.kind \in {"vector", "pointers"}
            THEN FlattenSeq([i \in DOMAIN items |->
                   links[d - 1, [name |-> "", offset |-> 0, type |-> f.type,
                                 kind |-> IF f.kind = "vector" THEN "value" ELSE "ptr",
                                 size |-> items[i].size], items[i].at, items[i].size, visited]])
            ELSE IF f.kind = "ptr"
            THEN IF is_valid_ptr(word.ptr) /\ Cardinality(visited) < MaxVisited
                 THEN <<[to |-> word.ptr, type |-> f.type, visited |-> visited]>> ELSE << >>
            ELSE IF f.kind \in {"handle", "handles"} \/ f.type \in cache.enums \cup Wrappers \/ ~open THEN << >>
            ELSE FlattenSeq([i \in DOMAIN subs |->
                   links[d - 1, subs[i], base + f.offset, f.size, visited \cup {f.type}]])
  IN  links[2 * MaxVisited, field, start, length, seen]

\* All fields of an object that was read.
LinksOf(fields, addr, size, visited) ==
  FlattenSeq([i \in DOMAIN fields |-> process_field(fields[i], addr, size, visited)])

ReadSize(fields) == Max({0} \cup {fields[i].offset + fields[i].size : i \in DOMAIN fields})

NothingRead == [lines |-> {}, links |-> << >>]

\* A pointer whose object has the class name, or none: what is shown behind it
\* and the pointers that lie there.  A class the schema does not know, or knows
\* without fields, leaves the declared type.
Dereferenced(l, name) ==
  LET usable(n) == {c \in find_class_any(n) : c.fields # << >>}
      use       == IF usable(name) # {} THEN name ELSE l.type
      read      == {c \in usable(use) : c.size \in 1..MaxObject /\ Readable(l.to, c.size)}
  IN  IF use \in l.visited \/ read = {} THEN NothingRead
      ELSE LET c == CHOOSE x \in read : TRUE
           IN  [lines |-> {[at |-> l.to, class |-> c.name, module |-> c.module, within |-> l.visited]},
                links |-> LinksOf(FieldsOf(c), l.to, c.size, l.visited \cup {use})]

-----------------------------------------------------------------------------
(* Reading an object, by either thread. *)

\* A read, which fails now and then in a flaky game.
MayFail(result, failed) == {result} \cup (IF game.live.flaky THEN {failed} ELSE {})

NoJob == [todo |-> << >>, walking |-> << >>, shown |-> {}]
IsIdle(t) == jobs[t].todo = << >>

LoadCache ==
  /\ step = "done" /\ "live" \in opts /\ export # << >>
  /\ cache = << >>
  /\ cache' = Load(export)
  /\ UNCHANGED <<s_rtti_cache, m_ent_config, jobs, entities>>

\* mem.read_object, or one round of a subscription: a class without fields and
\* memory that cannot be read give an error and change nothing.
ReadObject(t, q) ==
  LET fields == flat_fields(q[2], q[3])
  IN  /\ cache # << >> /\ IsIdle(t)
      /\ fields # << >> /\ Readable(q[1], ReadSize(fields))
      /\ jobs' = [jobs EXCEPT ![t] = [NoJob EXCEPT !.todo = LinksOf(fields, q[1], ReadSize(fields), {})]]
      /\ UNCHANGED <<cache, s_rtti_cache, m_ent_config, entities>>

\* The head of todo has been resolved to name: depth first.
Follow(t, name) ==
  \E next \in MayFail(Dereferenced(Head(jobs[t].todo), name), NothingRead) :
    jobs' = [jobs EXCEPT ![t] = [todo    |-> next.links \o Tail(@.todo),
                                 walking |-> << >>,
                                 shown   |-> @.shown \cup next.lines]]

\* resolve_rtti_cached, first part: an object without a vtable has no name; a
\* vtable that is in the cache is not looked at again.
LookUp(t) ==
  /\ jobs[t].todo # << >> /\ jobs[t].walking = << >>
  /\ LET at == Head(jobs[t].todo).to
     IN  \E v \in MayFail(IF Readable(at, 8) THEN WordAt(at).vtable ELSE << >>, << >>) :
           IF v # << >> /\ v \notin DOMAIN s_rtti_cache
           THEN jobs' = [jobs EXCEPT ![t].walking = v]
           ELSE Follow(t, IF v = << >> THEN NoName ELSE s_rtti_cache[v])
  /\ UNCHANGED <<cache, s_rtti_cache, m_ent_config, entities>>

\* The rest of resolve_rtti_cached: from the vtable to the name.
NameBehind(v) == NameIn(game, v)

WalkedNames(v) == MayFail(NameBehind(v), NoName)

\* resolve_rtti_cached, the rest: the lock is not held during the walk, and its
\* result, a failure too, overwrites what another thread has put there.
Walk(t) ==
  /\ jobs[t].walking # << >>
  /\ \E name \in WalkedNames(jobs[t].walking) :
       /\ s_rtti_cache' = [v \in DOMAIN s_rtti_cache \cup {jobs[t].walking} |->
                             IF v = jobs[t].walking THEN name ELSE s_rtti_cache[v]]
       /\ Follow(t, name)
  /\ UNCHANGED <<cache, m_ent_config, entities>>

-----------------------------------------------------------------------------
(* The entity system. *)

\* probe_entity_config, step 1: a pattern by either name, else the pointers to
\* a CGameEntitySystem among the globals that lead somewhere.
StaticPtr(m, rva) == IF <<m, rva>> \in DOMAIN game.live.statics THEN game.live.statics[<<m, rva>>] ELSE 0

EntitySystems ==
  LET ByPattern(n) == {StaticPtr(p.module, p.rva) : p \in {x \in cache.patterns : x.name = n}}
      named == IF \E p \in cache.patterns : p.name = "dwGameEntitySystem"
               THEN ByPattern("dwGameEntitySystem") ELSE ByPattern("dwEntityList")
      globals == {StaticPtr(g.module, g.rva) :
                    g \in {x \in cache.globals : x.class = "CGameEntitySystem" /\ x.pointer}}
      valid(S) == {p \in S : is_valid_ptr(p)}
  IN  IF valid(named) # {} THEN valid(named) ELSE valid(globals)

\* Variant: any pointer will do.
AnyPointer(p) == is_valid_ptr(p) /\ Readable(p, 8)

\* What the probes take for an entity: an object whose first word is a vtable.
LooksLikeEntity(p) == is_valid_ptr(p) /\ Readable(p, 8) /\ WordAt(p).vtable # << >>

\* Step 2: the size of CEntityIdentity in the first module that has it, or 0.
schema_stride ==
  LET sizes == [i \in DOMAIN cache.modules |->
                  {c.size : c \in {cache.classes[k] : k \in DOMAIN cache.classes \cap
                                                             {<<cache.modules[i], "CEntityIdentity">>}}} \ {0}]
      given == {i \in DOMAIN sizes : sizes[i] # {}}
  IN  IF given = {} THEN 0 ELSE Max(sizes[Min(given)])

\* Step 3: the first offset with a chunk whose first slot holds an entity.
probe_chunk_offset(ges) ==
  LET slot == Max({8, IF schema_stride > 0 THEN schema_stride ELSE Strides[1]})
      fits == {o \in ChunkOffsets : LET chunk == WordAt(ges + o).ptr
                                    IN  is_valid_ptr(chunk) /\ Readable(chunk, slot)
                                        /\ LooksLikeEntity(WordAt(chunk).ptr)}
  IN  IF fits = {} THEN FallbackOffset ELSE Min(fits)

\* Step 4: the stride that finds the most entities, the first of several.
probe_stride(chunk) ==
  LET score(i) == Cardinality({k \in 0..(ProbeSlots - 1) :
                    LET at == chunk + k * Strides[i] IN Readable(at, 8) /\ LooksLikeEntity(WordAt(at).ptr)})
      best == {i \in DOMAIN Strides : \A j \in DOMAIN Strides : score(j) <= score(i)}
  IN  Strides[Min(best)]

\* What the schema says goes before what the probe finds.
IdentityStride(chunk) == IF schema_stride > 0 THEN schema_stride ELSE probe_stride(chunk)

\* probe_entity_config: kept for good, also when a read failed on the way and a
\* default took its place; without an entity system nothing is kept.
ProbeEntityConfig ==
  /\ cache # << >> /\ IsIdle(Socket) /\ ~m_ent_config.probed
  /\ \E ges \in EntitySystems :
     \E offset \in MayFail(probe_chunk_offset(ges), FallbackOffset) :
       LET chunk == WordAt(ges + offset).ptr
       IN  m_ent_config' \in [probed : {TRUE}, ges : {ges}, offset : {offset},
                              stride : IF game.live.flaky \/ ~is_valid_ptr(chunk)
                                       THEN {Strides[1]} ELSE {IdentityStride(chunk)}]
  /\ UNCHANGED <<cache, s_rtti_cache, jobs, entities>>

\* Variant: globals whose vtable is not known are used as well.
SeedAll ==
  {[vtable |-> <<v.module, v.rva>>, class |-> v.class] : v \in cache.vtables}
    \cup {[vtable |-> <<g.module, g.vtable>>, class |-> g.class] : g \in cache.globals}

\* entity.list, before the chunks: the vtables of the export and those of the
\* globals, if they were found under the module of the global.
Seeds ==
  {[vtable |-> <<v.module, v.rva>>, class |-> v.class] : v \in cache.vtables}
    \cup {[vtable |-> <<g.module, g.vtable>>, class |-> g.class] :
            g \in {x \in cache.globals : x.vtable # 0}}

SeededAs(v) == (CHOOSE s \in Seeds : s.vtable = v).class

\* The slots of the chunks: a batch that cannot be read ends its chunk.
EntitySlots(cfg) ==
  LET chunk(i) == WordAt(cfg.ges + cfg.offset + 8 * i).ptr
      read(i, b) == is_valid_ptr(chunk(i))
                    /\ Readable(chunk(i) + b * Batch * cfg.stride, Batch * cfg.stride)
      slots == {x \in (0..(MaxChunks - 1)) \X (0..(ChunkSize - 1)) :
                  \A b \in 0..(x[2] \div Batch) : read(x[1], b)}
  IN  {<<x[1] * ChunkSize + x[2], WordAt(chunk(x[1]) + x[2] * cfg.stride).ptr>> : x \in slots}

\* entity.list: the cache of names is seeded, then each entity is named by it,
\* or by a walk that the cache keeps.
EntityList ==
  LET seeded == {s.vtable : s \in Seeds}
      held   == {s \in EntitySlots(m_ent_config) : is_valid_ptr(s[2])}
      new    == {WordAt(s[2]).vtable : s \in {x \in held : Readable(x[2], 8)}}
                  \ (seeded \cup DOMAIN s_rtti_cache \cup {<< >>})
  IN  /\ cache # << >> /\ IsIdle(Socket)
      /\ m_ent_config.probed
      /\ Readable(m_ent_config.ges + m_ent_config.offset, MaxChunks * 8)
      /\ \E walked \in [new -> UNION {WalkedNames(v) : v \in new}] :
           /\ \A v \in new : walked[v] \in WalkedNames(v)
           /\ s_rtti_cache' = [v \in new \cup seeded \cup DOMAIN s_rtti_cache |->
                                 IF v \in new THEN walked[v]
                                 ELSE IF v \in seeded THEN SeededAs(v) ELSE s_rtti_cache[v]]
      /\ entities' = {<<s[1], s[2], IF Readable(s[2], 8) /\ WordAt(s[2]).vtable # << >>
                                    THEN s_rtti_cache'[WordAt(s[2]).vtable] ELSE NoName>> : s \in held}
      /\ UNCHANGED <<cache, m_ent_config, jobs>>

LiveInit ==
  /\ cache = << >>
  /\ s_rtti_cache = << >>
  /\ m_ent_config = [probed |-> FALSE]
  /\ jobs = [t \in Threads |-> NoJob]
  /\ entities = {}

LiveNext ==
  \/ LoadCache \/ ProbeEntityConfig \/ EntityList
  \/ \E t \in Threads : LookUp(t) \/ Walk(t) \/ \E q \in Requests : ReadObject(t, q)

\* The whole of it, from the start of the worker to the answers of a live session.
LiveSpec ==
  /\ Init /\ LiveInit
  /\ [][\/ Next /\ UNCHANGED liveVars
        \/ LiveNext /\ UNCHANGED <<dumpVars, exeVars, genVars>>]_<<dumpVars, exeVars, genVars, liveVars>>
-----------------------------------------------------------------------------
\* A class that has its line of bases in its own module is read with exactly
\* their fields, as long as the last of them has any: a base without fields of
\* its own or inherited ones is taken from whichever module has some.
LiveFlatIsDeclared ==
  cache # << >> =>
    \A k \in DOMAIN cache.classes :
      LET decl      == Loaded(k[1]).decl
          fields(c) == ToSet(NamedOnly(game.infos[m_cache[<<k[1], c>>].info].fields))
      IN  /\ HasLine(k)
          /\ \A c \in LineOf(decl, k[2]) : decl[c].bases = << >> => fields(c) # {}
          => ToSet(flat_fields(k[1], k[2])) = UNION {fields(c) : c \in LineOf(decl, k[2])}

\* Whichever thread put it there, and wherever it came from, a name in the cache
\* is the name of the class whose vtable lies at that address; and when no read
\* failed, what is shown behind a pointer to the start of an object of a class
\* that has fields is that class, not the one the pointer was declared with; an
\* entity that is such an object is listed under the name of its class.
TypesAreRight ==
  /\ \A v \in DOMAIN s_rtti_cache : s_rtti_cache[v] \in {NoName, NameBehind(v)}
  /\ \A s \in UNION {jobs[t].shown : t \in Threads} :
       s.at \in DOMAIN game.live.objects /\ ~game.live.flaky =>
         LET class == game.live.objects[s.at]
         IN  (\E c \in find_class_any(class) : c.fields # << >>) => s.class = class
  /\ \A e \in entities :
       e[2] \in DOMAIN game.live.objects /\ ~game.live.flaky => e[3] = game.live.objects[e[2]]

\* When no read failed, and the first slot held an entity when the offsets were
\* probed, entity.list answers with the entities of the game under their names.
EntitiesFound ==
  entities # {} /\ ~game.live.flaky => entities = game.live.entities
=============================================================================
