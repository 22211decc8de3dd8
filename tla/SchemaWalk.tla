----------------------------- MODULE SchemaWalk -----------------------------
(* SchemaManager of src/schema-manager.cpp: how the worker reads the schema
   system of the game out of its hash tables, and what its cache answers.

   The game is a record, chosen once and never changed by the worker:
     loaded    the loaded modules, in load order (the rest of a module's
               description belongs to the modules that EXTEND this one)
     infos     per CSchemaClassInfo its name, m_pszModule, size, fields (records
               with a name, an offset, a size, a type and its kind), bases and alignment, and the
               metadata names that lie at +0x48
     scopes    per module its CSchemaSystemTypeScope: whose name it carries,
               its hash of classes, and the hashes that lie where the hash of
               enums may be, in the order they are probed
     enums     per SchemaEnumInfoData_t its name, size and enumerators        *)
EXTENDS Naturals, Sequences, SequencesExt, FiniteSets, Rows

CONSTANTS
  Games,          \* the games to start from
  ModuleOrder,    \* all module names: client.dll, the others by name, server.dll
  ClientName,     \* per name CX the name C_X, for the names that have one
  Unprintable,    \* text that seh_read_string refuses
  MinHits,        \* 3: buckets that must look right before a hash is trusted
  MaxMetadata     \* 64

\* Every module name stands once in the order.
ASSUME OrderAssumption ==
  /\ IsRow(ModuleOrder)
  /\ \A i, j \in DOMAIN ModuleOrder : ModuleOrder[i] = ModuleOrder[j] => i = j

\* A game has finitely many classes, a base of a class is a class, and no two
\* classes of a module share a name: the schema system of the game registers
\* the classes of a module under their names.  A class whose module is no text
\* counts for every module, as it does for the worker.
ASSUME GamesAssumption ==
  \A g \in Games :
    /\ IsRow(g.loaded)
    /\ \A i \in DOMAIN g.loaded : g.loaded[i].name \in ToSet(ModuleOrder)
    /\ IsFiniteSet(DOMAIN g.infos)
    /\ \A e \in DOMAIN g.infos : g.infos[e].bases \in Seq(DOMAIN g.infos)
    /\ \A d, e \in DOMAIN g.infos :
         /\ g.infos[d].name = g.infos[e].name /\ g.infos[d].name # Unprintable
         /\ g.infos[d].module = g.infos[e].module \/ Unprintable \in {g.infos[d].module, g.infos[e].module}
         => d = e

VARIABLES
  game,
  m_cache,            \* <<module, class>> -> RuntimeClass
  m_enum_cache,       \* <<module, enum>> -> RuntimeEnum
  m_dumped_modules    \* a sequence of module names

schemaVars == <<game, m_cache, m_enum_cache, m_dumped_modules>>

-----------------------------------------------------------------------------
(* CUtlTSHash: 256 buckets with two chains each, and a list of free blocks.  A
   node carries an info, or data that no validator accepts (Unprintable); valid
   are the infos that the validator at hand accepts.                         *)

FirstOf(s) == IF s = << >> THEN Unprintable ELSE s[1]

\* seh_probe_bucket_at: the first node of the uncommitted chain, or of the
\* committed one when that is empty, must carry an acceptable info.
BucketLooksRight(b, valid) ==
  FirstOf(IF b.uncommitted # << >> THEN b.uncommitted ELSE b.committed) \in valid

\* find_bucket_base: a base is believed after MinHits acceptable buckets.
find_bucket_base(hash, valid) ==
  Cardinality({i \in DOMAIN hash.buckets : BucketLooksRight(hash.buckets[i], valid)}) >= MinHits

\* collect_utltshash_entries: every chain of every bucket once the base is
\* known, and the list of free blocks if its first node is acceptable.
collect_utltshash_entries(hash, valid) ==
  LET chain(b) == IF b.uncommitted # << >> THEN b.uncommitted ELSE b.committed
      inChains == IF find_bucket_base(hash, valid)
                  THEN UNION {ToSet(chain(hash.buckets[i])) : i \in DOMAIN hash.buckets}
                  ELSE {}
      inFree   == IF FirstOf(hash.free) \in valid THEN ToSet(hash.free) ELSE {}
  IN  IF hash.allocated THEN (inChains \cup inFree) \cap valid ELSE {}

-----------------------------------------------------------------------------
(* Reading one class or enum. *)

\* seh_validate_class_info: enums do not pass, their info has no such name.
ClassInfos == {e \in DOMAIN game.infos : game.infos[e].name # Unprintable}
\* seh_validate_enum_info looks at the first letters of a name only.
EnumInfos == DOMAIN game.enums \cup ClassInfos

Printable(names)  == SelectSeq(names, LAMBDA n : n # Unprintable)
NamedOnly(fields) == Kept(fields, {f \in ToSet(fields) : f.name # Unprintable})

\* The i16 read at +0x22 holds the alignment in its low byte and the count of
\* bases, the byte at +0x23, in its high byte.
MetadataCount(info) == info.align + 256 * Len(info.bases)

\* resolve_class: names that are no text are left out one by one; nothing asks
\* in which order the bases stand.
resolve_class(e) ==
  LET info  == game.infos[e]
      count == MetadataCount(info)
      read  == IF count \in 1..(MaxMetadata - 1)
               THEN SubSeq(info.metadata, 1, IF count < Len(info.metadata) THEN count
                                             ELSE Len(info.metadata))
               ELSE << >>
  IN  [name     |-> info.name,
       info     |-> e,
       size     |-> info.size,
       fields   |-> NamedOnly(info.fields),
       statics  |-> NamedOnly(info.statics),
       bases    |-> {b \in ToSet(info.bases) : game.infos[b].name # Unprintable},
       metadata |-> Printable(read)]

\* resolve_enum: a class taken for an enum has no enumerators.
resolve_enum(e) ==
  IF e \in DOMAIN game.enums
  THEN [name |-> game.enums[e].name, size |-> game.enums[e].size, values |-> Printable(game.enums[e].values)]
  ELSE [name |-> game.infos[e].name, size |-> 0, values |-> << >>]

\* emplace() of the results under module::name; what is there already stays.
Emplace(cache, m, found) ==
  [k \in DOMAIN cache \cup {<<m, r.name>> : r \in found} |->
     IF k \in DOMAIN cache THEN cache[k] ELSE CHOOSE r \in found : r.name = k[2]]

-----------------------------------------------------------------------------
(* Dumping a module. *)

\* m_pszModule: a class of another module may lie in the hash of this one.
BelongsTo(e, m) == game.infos[e].module \in {m, Unprintable}

\* Variant: every class in the hash is taken for one of the module.
FromHashOfAll(cache, m) ==
  Emplace(cache, m, {resolve_class(e) : e \in collect_utltshash_entries(game.scopes[m].classes, ClassInfos)})

\* enumerate_scope, first half: the classes of the hash.
FromHash(cache, m) ==
  Emplace(cache, m, {resolve_class(e) : e \in
            {x \in collect_utltshash_entries(game.scopes[m].classes, ClassInfos) : BelongsTo(x, m)}})

\* enumerate_scope, second half: one round over the bases of cached classes.
FromBases(cache, m) ==
  LET bases == UNION {cache[k].bases : k \in {x \in DOMAIN cache : x[1] = m}}
  IN  Emplace(cache, m, {resolve_class(e) : e \in {x \in bases : BelongsTo(x, m)}})

\* enumerate_scope: rounds until one finds nothing, which takes at most one
\* more than there are classes.
enumerate_scope(cache, m) ==
  LET last == Cardinality(DOMAIN game.infos)
      round[k \in 0..last] == IF k = 0 THEN FromHash(cache, m) ELSE FromBases(round[k - 1], m)
  IN  round[last]

\* enumerate_enums: the first hash that looks like one of enums, whatever it is.
enumerate_enums(ecache, m) ==
  LET right == {i \in DOMAIN game.scopes[m].enums :
                  /\ game.scopes[m].enums[i].allocated
                  /\ find_bucket_base(game.scopes[m].enums[i], EnumInfos)}
      first == game.scopes[m].enums[CHOOSE i \in right : \A j \in right : i <= j]
  IN  IF right = {} THEN ecache
      ELSE Emplace(ecache, m, {resolve_enum(e) : e \in collect_utltshash_entries(first, EnumInfos)})

\* The modules of a set in their order.
InModuleOrder(S) == Kept(ModuleOrder, S)

\* dump_all_modules: FindTypeScopeForModule gives a shared scope for a module
\* that has none; it carries another name and is left alone.
HasOwnScope(m) == m \in DOMAIN game.scopes /\ game.scopes[m].name = m

\* The cache behind the first n of the loaded modules.
ClassesUpTo(n) ==
  LET upto[i \in 0..n] ==
        IF i = 0 THEN m_cache
        ELSE IF HasOwnScope(game.loaded[i].name)
             THEN enumerate_scope(upto[i - 1], game.loaded[i].name) ELSE upto[i - 1]
  IN  upto[n]

dump_all_modules ==
  LET scoped  == {m \in {game.loaded[i].name : i \in DOMAIN game.loaded} : HasOwnScope(m)}
      Enums(c, i) == IF game.loaded[i].name \in scoped THEN enumerate_enums(c, game.loaded[i].name) ELSE c
      cache   == ClassesUpTo(Len(game.loaded))
      ecache  == FoldLeft(Enums, m_enum_cache, [i \in DOMAIN game.loaded |-> i])
      yielded == {m \in scoped : \E k \in DOMAIN cache \cup DOMAIN ecache : k[1] = m}
  IN  /\ m_cache' = cache
      /\ m_enum_cache' = ecache
      /\ m_dumped_modules' = InModuleOrder(yielded)
      /\ UNCHANGED game

-----------------------------------------------------------------------------
(* Asking the cache. *)

\* FindDeclaredClass of the game: any class in the hash of the scope, also one
\* that belongs to another module.
Declared(m, name) ==
  IF m \notin DOMAIN game.scopes THEN {}
  ELSE LET h == game.scopes[m].classes
           nodes == UNION {ToSet(h.buckets[i].uncommitted) \cup ToSet(h.buckets[i].committed) :
                             i \in DOMAIN h.buckets}
       IN  {e \in nodes \cap ClassInfos : game.infos[e].name = name}

CachedAs(m, name) ==
  IF name \in DOMAIN ClientName /\ <<m, ClientName[name]>> \in DOMAIN m_cache
  THEN {<<m, ClientName[name]>>}
  ELSE {<<m, name>>} \cap DOMAIN m_cache

Finds(m, name) == CachedAs(m, name) # {} \/ Declared(m, name) # {}

\* find_class: prefers a cached C_X for CX, then what is cached under the name
\* asked for, and reads and caches the class otherwise.
find_class(m, name) ==
  IF CachedAs(m, name) # {} \/ Declared(m, name) = {}
  THEN UNCHANGED m_cache
  ELSE \E e \in Declared(m, name) : m_cache' = Emplace(m_cache, m, {resolve_class(e)})

SchemaInit ==
  /\ game \in Games
  /\ m_cache = << >>
  /\ m_enum_cache = << >>
  /\ m_dumped_modules = << >>
=============================================================================
