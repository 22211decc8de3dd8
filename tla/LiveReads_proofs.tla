--------------------------- MODULE LiveReads_proofs ---------------------------
(* Proofs about a live session: a name in the cache of RTTI names is that of the
   class whose vtable it stands for, whichever thread put it there and whether
   it comes from a walk, from the vtables of the export or from its globals; and
   the flattened fields of a class are those of its whole line of bases.      *)
EXTENDS LiveReads, Generators_proofs

-----------------------------------------------------------------------------
(* The vtable that RTTI gives a class stands behind a locator of the class. *)

PointsAt(img, rva, class) ==
  /\ rva - 1 \in DOMAIN img.rdata /\ img.rdata[rva - 1].to = "col"
  /\ img.tds[img.cols[img.rdata[rva - 1].at].td] = class

Pointing(img, info) == \A c \in DOMAIN info : info[c].vtable # 0 => PointsAt(img, info[c].vtable, c)

LEMMA WithVtablePointing ==
  ASSUME NEW img, IsRow(img.rdata), NEW i \in 1..Len(img.rdata), PrimaryAt(img, i),
         NEW info, Infos(info), Pointing(img, info)
  PROVE  Infos(WithVtable(img, info, i)) /\ Pointing(img, WithVtable(img, info, i))
<1> DEFINE class == TypeDescriptors(img)[img.cols[img.rdata[i].at].td]
           new == [info EXCEPT ![class].vtable = i + 1, ![class].funcs = VtableFrom(img, i)]
<1>1. WithVtable(img, info, i) \in {info, new} /\ (class \notin DOMAIN info => WithVtable(img, info, i) = info)
    BY DEF WithVtable
<1>2. PointsAt(img, i + 1, class)
    <2>1. i \in DOMAIN img.rdata /\ (i + 1) - 1 = i
        BY DEF IsRow
    <2>2. class = img.tds[img.cols[img.rdata[i].at].td]
        BY DEF PrimaryAt, KnownCol, TypeDescriptors
    <2> HIDE DEF class
    <2> QED BY <2>1, <2>2 DEF PointsAt, PrimaryAt
<1>3. CASE class \in DOMAIN info
    <2>1. /\ DOMAIN new = DOMAIN info
          /\ \A c \in DOMAIN info : c # class => new[c] = info[c]
          /\ new[class].vtable = i + 1 /\ DOMAIN new[class] = DOMAIN info[class]
        <3> HIDE DEF class
        <3> QED BY <1>3 DEF Infos
    <2>2. Infos(new) /\ Pointing(img, new)
        <3> HIDE DEF new, class
        <3> QED BY <1>2, <2>1 DEF Infos, Pointing
    <2> QED BY <1>1, <2>2
<1> QED BY <1>1, <1>3

LEMMA HierarchyPointing ==
  ASSUME NEW img, IsRow(img.rdata) PROVE Pointing(img, build_rtti_hierarchy(img))
<1>1. Infos(Inheritance(img)) /\ Pointing(img, Inheritance(img))
    <2>1. \A c \in DOMAIN Inheritance(img) : \E h : Inheritance(img)[c] = Hierarchy(img, h)
        BY DEF Inheritance
    <2>2. \A h : {"vtable", "funcs"} \subseteq DOMAIN Hierarchy(img, h) /\ Hierarchy(img, h).vtable = 0
        BY DEF Hierarchy
    <2> QED BY <2>1, <2>2 DEF Infos, Pointing
<1>2. CASE img.sections
    <2> DEFINE N == Len(img.rdata)
    <2>1. N \in Nat
        BY DEF IsRow
    <2>2. PICK h : VtablesOf(h, img, N) /\ build_rtti_hierarchy(img) = h[N]
        BY <1>2, <2>1, VtablesExist
    <2> DEFINE S == {i \in 0..N : Infos(h[i]) /\ Pointing(img, h[i])}
    <2>3. 0 \in S
        BY <1>1, <2>1, <2>2 DEF VtablesOf
    <2>4. ASSUME NEW i \in 0..(N - 1), i \in S PROVE i + 1 \in S
        <3>1. i + 1 \in 1..N /\ h[i + 1] = IF PrimaryAt(img, i + 1) THEN WithVtable(img, h[i], i + 1) ELSE h[i]
            BY <2>1, <2>2 DEF VtablesOf
        <3> QED BY <2>4, <3>1, WithVtablePointing
    <2>5. 0..N \subseteq S
        <3> HIDE DEF S, N
        <3> QED BY <2>1, <2>3, <2>4, StepInduction
    <2> QED BY <2>1, <2>2, <2>5
<1> QED BY <1>1, <1>2 DEF build_rtti_hierarchy

-----------------------------------------------------------------------------
(* The map of all modules, the globals found with it, and the export. *)

MapNames(map) ==
  \A k \in DOMAIN map : map[k].vtable # 0 => NameBehind(<<k[1], map[k].vtable>>) = k[2]

LEMMA NameOfPointer ==
  ASSUME NEW m, NEW rva, NEW class, PointsAt(Loaded(m).image, rva, class)
  PROVE  NameBehind(<<m, rva>>) = class
BY DEF NameBehind, NameIn, PointsAt, Loaded

LEMMA LoadKeepsNames ==
  ASSUME game \in Games, NEW map, MapNames(map), NEW m \in LoadedNames PROVE MapNames(load_rtti(map, m))
<1> DEFINE info == build_rtti_hierarchy(Loaded(m).image)
<1>1. Pointing(Loaded(m).image, info)
    <2>1. IsRow(Loaded(m).image.rdata)
        BY LoadedIs, RowsAssumption
    <2> QED BY <2>1, HierarchyPointing
<1>2. load_rtti(map, m) = [k \in DOMAIN map \cup {<<m, c>> : c \in DOMAIN info} |->
                             IF k \in DOMAIN map THEN map[k] ELSE info[k[2]]]
    BY DEF load_rtti
<1>3. \A c \in DOMAIN info : info[c].vtable # 0 => NameBehind(<<m, info[c].vtable>>) = c
    BY <1>1, NameOfPointer DEF Pointing
<1> HIDE DEF info
<1>4. \A c \in DOMAIN info : <<m, c>>[1] = m /\ <<m, c>>[2] = c
    OBVIOUS
<1> QED BY <1>2, <1>3, <1>4 DEF MapNames

LEMMA RttiKeepsNames ==
  ASSUME game \in Games, MapNames(m_rtti_map), NEW mods \in SUBSET LoadedNames PROVE MapNames(RttiOf(mods))
<1> DEFINE N == Len(ModuleOrder)
<1>1. PICK r : MapsOf(r, mods, N) /\ RttiOf(mods) = r[N]
    BY MapsExist
<1> DEFINE S == {i \in 0..N : MapNames(r[i])}
<1>2. N \in Nat
    BY OrderAssumption DEF IsRow
<1>3. 0 \in S
    BY <1>1, <1>2 DEF MapsOf
<1>4. ASSUME NEW i \in 0..(N - 1), i \in S PROVE i + 1 \in S
    <2>1. /\ i + 1 \in 0..N
          /\ \/ r[i + 1] = r[i]
             \/ ModuleOrder[i + 1] \in LoadedNames /\ r[i + 1] = load_rtti(r[i], ModuleOrder[i + 1])
        BY <1>1, <1>2 DEF MapsOf
    <2> QED BY <1>4, <2>1, LoadKeepsNames
<1>5. 0..N \subseteq S
    <2> HIDE DEF S, N
    <2> QED BY <1>2, <1>3, <1>4, StepInduction
<1> QED BY <1>1, <1>2, <1>5

\* A global carries the vtable that its class has in the module of the global.
Looked(rtti, m, found) == \A e \in ToSet(found) : e.vtable = VtableUnder(rtti, m, e.class)

LEMMA WordsAreLooked ==
  ASSUME NEW rtti, NEW schema, NEW m, NEW words, Len(words) \in Nat
  PROVE  Looked(rtti, m, ScanWords(rtti, schema, m, words))
<1> DEFINE N == Len(words)
           Entries == {EntryOf(rtti, schema, m, words, i) : i \in 1..N}
<1>1. PICK c : WordsOf(c, rtti, schema, m, words, N) /\ ScanWords(rtti, schema, m, words) = c[N]
    BY WordsExist
<1> DEFINE S == {i \in 0..N : c[i] \in Seq(Entries)}
<1> HIDE DEF N
<1>2. N \in Nat
    BY DEF N
<1>3. 0 \in S
    <2> HIDE DEF Entries
    <2>1. c[0] = << >> /\ c[0] \in Seq(Entries)
        BY <1>1 DEF WordsOf
    <2>2. 0 \in 0..N
        BY <1>2
    <2> QED BY <2>1, <2>2, Zenon
<1>4. ASSUME NEW i \in 0..(N - 1), i \in S PROVE i + 1 \in S
    <2> DEFINE e == EntryOf(rtti, schema, m, words, i + 1)
    <2>1. e \in Entries
        BY <1>2
    <2>2. c[i + 1] \in {c[i], Append(c[i], e)}
        BY <1>1, <1>2, <1>4 DEF WordsOf, ScanWord, EntryOf
    <2> HIDE DEF Entries, e
    <2>3. c[i + 1] \in Seq(Entries)
        <3>1. c[i] \in Seq(Entries)
            BY <1>4
        <3>2. Append(c[i], e) \in Seq(Entries)
            BY <2>1, <3>1
        <3> QED BY <2>2, <3>1, <3>2
    <2> QED BY <1>2, <2>3
<1>5. 0..N \subseteq S
    <2> HIDE DEF S
    <2> QED BY <1>2, <1>3, <1>4, StepInduction
<1>6. ToSet(c[N]) \subseteq Entries
    <2>1. c[N] \in Seq(Entries)
        BY <1>2, <1>5
    <2> HIDE DEF Entries
    <2> QED BY <2>1 DEF ToSet
<1>7. \A e \in Entries : e.vtable = VtableUnder(rtti, m, e.class)
    BY DEF EntryOf
<1> QED BY <1>1, <1>6, <1>7 DEF Looked, N

GlobalsNames(found) ==
  \A m \in DOMAIN found : \A e \in ToSet(found[m]) : e.vtable # 0 => NameBehind(<<m, e.vtable>>) = e.class

LEMMA LookedNames ==
  ASSUME MapNames(m_rtti_map), NEW m, NEW found, Looked(m_rtti_map, m, found), NEW e \in ToSet(found), e.vtable # 0
  PROVE  NameBehind(<<m, e.vtable>>) = e.class
<1>1. e.vtable = VtableUnder(m_rtti_map, m, e.class)
    BY DEF Looked
<1>2. <<m, e.class>> \in DOMAIN m_rtti_map /\ e.vtable = m_rtti_map[<<m, e.class>>].vtable
    BY <1>1 DEF VtableUnder
<1> QED BY <1>2 DEF MapNames

\* What the file says of vtables and of globals.
FileNames(file) ==
  /\ \A x \in ToSet(file.modules) : \A v \in x.vtables : NameBehind(<<x.name, v.vtable>>) = v.class
  /\ GlobalsNames(file.globals)

NamesInv ==
  /\ ExportInv
  /\ MapNames(m_rtti_map)
  /\ GlobalsNames(discovered)
  /\ export # << >> => FileNames(export)

LEMMA NamesInvInit == DumpInit => NamesInv
BY ExportInvInit DEF DumpInit, NamesInv, MapNames, GlobalsNames

LEMMA NamesFrame ==
  ASSUME NamesInv, UNCHANGED <<game, m_rtti_map, discovered, export>>, ExportInv'
  PROVE  NamesInv'
<1>1. \A v : NameBehind(v)' = NameBehind(v)
    BY DEF NameBehind, NameIn
<1> QED BY <1>1 DEF NamesInv, MapNames, GlobalsNames, FileNames

LEMMA NamesInvStep == NamesInv /\ [DumpNext]_dumpVars => NamesInv'
<1> SUFFICES ASSUME NamesInv, [DumpNext]_dumpVars PROVE NamesInv'
    OBVIOUS
<1>0. ExportInv' /\ game \in Games
    BY ExportInvStep DEF NamesInv, ExportInv
<1>1. CASE PhaseSchema
    <2>1. /\ UNCHANGED <<m_rtti_map, discovered, export>> /\ dump_all_modules
        BY <1>1 DEF PhaseSchema
    <2>2. game' = game
        BY <2>1, Zenon DEF dump_all_modules
    <2> QED BY <1>0, <2>1, <2>2, NamesFrame
<1>2. CASE \E key \in unresolved : ResolveRtti(key)
    BY <1>0, <1>2, NamesFrame DEF ResolveRtti
<1>3. CASE PhaseRtti
    <2>1. PICK seen \in SeenBy(LoadedNames) :
             m_rtti_map' = RttiOf(ToSet(m_dumped_modules) \cup Interesting(seen))
        BY <1>3 DEF PhaseRtti
    <2>2. UNCHANGED <<game, discovered, export>>
        BY <1>3 DEF PhaseRtti, schemaVars
    <2>3. ToSet(m_dumped_modules) \in SUBSET LoadedNames
        BY DEF NamesInv, ExportInv, OnceEach, ToSet
    <2>4. Interesting(seen) \in SUBSET LoadedNames
        BY DEF Interesting, SeenBy, LoadedNames
    <2>5. MapNames(m_rtti_map')
        BY <1>0, <2>1, <2>3, <2>4, RttiKeepsNames DEF NamesInv
    <2>6. \A v : NameBehind(v)' = NameBehind(v)
        BY <2>2 DEF NameBehind, NameIn
    <2> QED BY <1>0, <2>2, <2>5, <2>6 DEF NamesInv, MapNames, GlobalsNames, FileNames
<1>4. CASE PhaseGlobals
    <2>1. UNCHANGED <<game, m_rtti_map, export>>
        BY <1>4 DEF PhaseGlobals, schemaVars
    <2>2. ASSUME NEW m \in DOMAIN discovered' PROVE Looked(m_rtti_map, m, discovered'[m])
        <3> DEFINE words == Loaded(m).data
        <3>1. m \in LoadedNames /\ \E schema : discovered'[m] = ScanWords(m_rtti_map, schema, m, words)
            BY <1>4 DEF PhaseGlobals, ScanGlobals
        <3>2. Len(words) \in Nat
            BY <1>0, <3>1, LoadedIs, RowsAssumption DEF IsRow
        <3> HIDE DEF words
        <3> QED BY <3>1, <3>2, WordsAreLooked
    <2>3. GlobalsNames(discovered')
        BY <2>2, LookedNames DEF GlobalsNames, NamesInv
    <2>4. \A v : NameBehind(v)' = NameBehind(v)
        BY <2>1 DEF NameBehind, NameIn
    <2> QED BY <1>0, <2>1, <2>3, <2>4 DEF NamesInv, MapNames, GlobalsNames, FileNames
<1>5. CASE PhasePatterns
    BY <1>0, <1>5, NamesFrame DEF PhasePatterns, schemaVars
<1>6. CASE PhaseReferences
    BY <1>0, <1>6, NamesFrame DEF PhaseReferences, schemaVars
<1>7. CASE WriteExport
    <2>1. UNCHANGED <<game, m_rtti_map, discovered>>
        BY <1>7 DEF WriteExport, schemaVars
    <2>2. PICK first \in MetFirst, order \in SetToSeqs(DOMAIN m_cache), names \in ExportModules :
             /\ export'.modules = [i \in DOMAIN names |-> ExportModule(first, order, names[i])]
             /\ export'.globals = [m \in {x \in DOMAIN discovered : discovered[x] # << >>} |-> discovered[m]]
        BY <1>7 DEF WriteExport
    <2>3. ASSUME NEW x \in ToSet(export'.modules), NEW v \in x.vtables
          PROVE  NameBehind(<<x.name, v.vtable>>) = v.class
        <3>1. PICK i \in DOMAIN names : x = ExportModule(first, order, names[i])
            BY <2>2 DEF ToSet
        <3>2. x.name = names[i] /\ x.vtables = ExportVtables(names[i])
            BY <3>1 DEF ExportModule
        <3>3. PICK k \in DOMAIN m_rtti_map : /\ k[1] = x.name /\ m_rtti_map[k].vtable # 0
                                             /\ v.class = k[2] /\ v.vtable = m_rtti_map[k].vtable
            BY <2>3, <3>2 DEF ExportVtables
        <3> QED BY <3>3 DEF NamesInv, MapNames
    <2>4. GlobalsNames(export'.globals)
        BY <2>2 DEF NamesInv, GlobalsNames
    <2>5. FileNames(export')
        BY <2>3, <2>4 DEF FileNames
    <2>6. \A v : NameBehind(v)' = NameBehind(v)
        BY <2>1 DEF NameBehind, NameIn
    <2> QED BY <1>0, <2>1, <2>5, <2>6 DEF NamesInv, MapNames, GlobalsNames, FileNames
<1>8. CASE UNCHANGED dumpVars
    BY <1>0, <1>8, NamesFrame DEF dumpVars, schemaVars, workerVars
<1> QED BY <1>1, <1>2, <1>3, <1>4, <1>5, <1>6, <1>7, <1>8 DEF DumpNext
-----------------------------------------------------------------------------
(* The live session. *)

\* What the cache took over from the file.
CacheBooks ==
  cache # << >> =>
    /\ \A v \in cache.vtables : NameBehind(<<v.module, v.rva>>) = v.class
    /\ \A g \in cache.globals : g.vtable # 0 => NameBehind(<<g.module, g.vtable>>) = g.class
    /\ \A k \in DOMAIN cache.classes : cache.classes[k].name = k[2]
    /\ DOMAIN cache.modules \subseteq Nat

\* Without failed reads no vtable in the cache is without its name.
NameBooks ==
  \A v \in DOMAIN s_rtti_cache :
    /\ s_rtti_cache[v] \in {NoName, NameBehind(v)}
    /\ ~ game.live.flaky => s_rtti_cache[v] = NameBehind(v)

\* What TypesAreRight says of one object that is shown.
RightLine(s) ==
  s.at \in DOMAIN game.live.objects /\ ~ game.live.flaky =>
    LET class == game.live.objects[s.at]
    IN  (\E c \in find_class_any(class) : c.fields # << >>) => s.class = class

\* A thread that looks for a name looks behind the vtable of the object that its
\* next pointer leads to, and nothing is shown before there is a cache.
JobBooks ==
  /\ DOMAIN jobs = Threads
  /\ \A t \in Threads :
       /\ DOMAIN jobs[t] = {"todo", "walking", "shown"}
       /\ jobs[t].walking # << >> => /\ jobs[t].todo # << >>
                                     /\ jobs[t].walking = WordAt(Head(jobs[t].todo).to).vtable
       /\ cache = << >> => jobs[t].todo = << >> /\ jobs[t].shown = {}
       /\ \A s \in jobs[t].shown : RightLine(s)

LiveInv == NamesInv /\ CacheBooks /\ NameBooks /\ JobBooks

LEMMA GameStays == [DumpNext]_dumpVars => game' = game
<1> SUFFICES ASSUME [DumpNext]_dumpVars PROVE game' = game
    OBVIOUS
<1>1. CASE PhaseSchema
    <2>1. dump_all_modules
        BY <1>1 DEF PhaseSchema
    <2>2. game' = game
        BY <2>1, Zenon DEF dump_all_modules
    <2> QED BY <2>2
<1>2. CASE \E key \in unresolved : ResolveRtti(key)
    BY <1>2 DEF ResolveRtti
<1>3. CASE PhaseRtti
    BY <1>3 DEF PhaseRtti, schemaVars
<1>4. CASE PhaseGlobals
    BY <1>4 DEF PhaseGlobals, schemaVars
<1>5. CASE PhasePatterns
    BY <1>5 DEF PhasePatterns, schemaVars
<1>6. CASE PhaseReferences
    BY <1>6 DEF PhaseReferences, schemaVars
<1>7. CASE WriteExport
    BY <1>7 DEF WriteExport, schemaVars
<1>8. CASE UNCHANGED dumpVars
    BY <1>8 DEF dumpVars, schemaVars
<1> QED BY <1>1, <1>2, <1>3, <1>4, <1>5, <1>6, <1>7, <1>8 DEF DumpNext

LEMMA LiveInvInit == Init /\ LiveInit => LiveInv
<1> SUFFICES ASSUME Init, LiveInit PROVE LiveInv
    OBVIOUS
<1>1. NamesInv
    BY NamesInvInit DEF Init
<1>2. CacheBooks /\ NameBooks
    BY DEF LiveInit, CacheBooks, NameBooks
<1>3. JobBooks
    BY DEF LiveInit, JobBooks, NoJob
<1> QED BY <1>1, <1>2, <1>3 DEF LiveInv

LEMMA FoundIsNamed ==
  ASSUME CacheBooks, cache # << >>, NEW n, NEW c \in find_class_any(n) PROVE c.name = n
<1> DEFINE within == {i \in DOMAIN cache.modules : <<cache.modules[i], n>> \in DOMAIN cache.classes}
<1>1. within # {} /\ c = cache.classes[<<cache.modules[Lowest(within)], n>>]
    BY DEF find_class_any
<1>2. within \in SUBSET Nat
    BY DEF CacheBooks
<1>3. Lowest(within) \in within
    <2> HIDE DEF within
    <2>1. \E x \in within : \A y \in within : x <= y
        BY <1>1, <1>2, LeastNat
    <2> QED BY <2>1 DEF Lowest
<1>4. <<cache.modules[Lowest(within)], n>> \in DOMAIN cache.classes
    BY <1>3
<1> HIDE DEF within
<1> QED BY <1>1, <1>4 DEF CacheBooks

LEMMA ShownRightly ==
  ASSUME CacheBooks, cache # << >>, NEW l, NEW name,
         l.to \in DOMAIN game.live.objects /\ ~ game.live.flaky => name = game.live.objects[l.to],
         NEW s \in Dereferenced(l, name).lines
  PROVE  RightLine(s)
<1> DEFINE usable(n) == {c \in find_class_any(n) : c.fields # << >>}
           use == IF usable(name) # {} THEN name ELSE l.type
           read == {c \in usable(use) : c.size \in 1..MaxObject /\ Readable(l.to, c.size)}
           c == CHOOSE x \in read : TRUE
<1>1. read # {} /\ s = [at |-> l.to, class |-> c.name, module |-> c.module, within |-> l.visited]
    <2>1. Dereferenced(l, name) =
            IF use \in l.visited \/ read = {} THEN [lines |-> {}, links |-> << >>]
            ELSE [lines |-> {[at |-> l.to, class |-> c.name, module |-> c.module, within |-> l.visited]},
                  links |-> LinksOf(FieldsOf(c), l.to, c.size, l.visited \cup {use})]
        BY Zenon DEF Dereferenced, NothingRead
    <2> HIDE DEF use, read, c
    <2> QED BY <2>1
<1>2. c \in find_class_any(use)
    BY <1>1
<1>3. s.at = l.to /\ s.class = c.name
    BY <1>1
<1> HIDE DEF read, c
<1>4. c.name = use
    <2> HIDE DEF use
    <2> QED BY <1>2, FoundIsNamed
<1>5. (\E x \in find_class_any(name) : x.fields # << >>) => use = name
    OBVIOUS
<1> HIDE DEF use
<1> QED BY <1>3, <1>4, <1>5 DEF RightLine

\* An object of the game is found under its own name.
LEMMA ObjectNamed ==
  ASSUME game \in Games, NEW a \in DOMAIN game.live.objects
  PROVE  Readable(a, 8) /\ WordAt(a).vtable # << >> /\ NameBehind(WordAt(a).vtable) = game.live.objects[a]
<1>1. /\ a..(a + 7) \subseteq game.live.readable
      /\ a \in DOMAIN game.live.words /\ game.live.words[a].vtable # << >>
      /\ NameIn(game, game.live.words[a].vtable) = game.live.objects[a]
    BY ObjectsAssumption, Zenon
<1>2. a + 8 - 1 = a + 7
    BY ObjectsAssumption
<1> QED BY <1>1, <1>2 DEF Readable, WordAt, NameBehind

LEMMA FollowKeeps ==
  ASSUME CacheBooks, JobBooks, NEW t \in Threads, jobs[t].todo # << >>, NEW name, Follow(t, name),
         LET a == Head(jobs[t].todo).to
         IN  a \in DOMAIN game.live.objects /\ ~ game.live.flaky => name = game.live.objects[a],
         UNCHANGED <<game, cache>>
  PROVE  JobBooks'
<1> DEFINE l == Head(jobs[t].todo)
           given == Dereferenced(l, name)
<1>1. cache # << >>
    BY DEF JobBooks
<1>0. PICK next : /\ next \in {given, NothingRead}
                  /\ jobs' = [jobs EXCEPT ![t] = [todo |-> next.links \o Tail(jobs[t].todo), walking |-> << >>,
                                                  shown |-> jobs[t].shown \cup next.lines]]
    <2>1. PICK next \in MayFail(given, NothingRead) :
             jobs' = [jobs EXCEPT ![t] = [todo |-> next.links \o Tail(@.todo), walking |-> << >>,
                                          shown |-> @.shown \cup next.lines]]
        BY Zenon DEF Follow
    <2>2. next \in {given, NothingRead}
        <3> HIDE DEF given
        <3> QED BY DEF MayFail
    <2> QED BY <2>1, <2>2, Zenon
<1>2. /\ DOMAIN jobs' = Threads
      /\ jobs'[t] = [todo |-> next.links \o Tail(jobs[t].todo), walking |-> << >>,
                     shown |-> jobs[t].shown \cup next.lines]
      /\ \A u \in Threads \ {t} : jobs'[u] = jobs[u]
    <2>1. DOMAIN jobs = Threads
        BY DEF JobBooks
    <2> HIDE DEF given, l
    <2> QED BY <1>0, <2>1
<1>3. \A s : RightLine(s)' = RightLine(s)
    BY DEF RightLine, find_class_any
<1>4. \A a : WordAt(a)' = WordAt(a)
    BY DEF WordAt
<1>5. \A s \in next.lines : RightLine(s)
    <2>1. \A s \in given.lines : RightLine(s)
        BY <1>1, ShownRightly
    <2>2. NothingRead.lines = {}
        BY DEF NothingRead
    <2> HIDE DEF given
    <2> QED BY <1>0, <2>1, <2>2
<1> HIDE DEF given, l
<1>6. /\ DOMAIN jobs'[t] = {"todo", "walking", "shown"} /\ jobs'[t].walking = << >>
      /\ \A s \in jobs'[t].shown : RightLine(s)
    <2>1. \A s \in jobs[t].shown : RightLine(s)
        BY DEF JobBooks
    <2>2. jobs'[t].shown = jobs[t].shown \cup next.lines
        BY <1>2
    <2>3. DOMAIN jobs'[t] = {"todo", "walking", "shown"} /\ jobs'[t].walking = << >>
        BY <1>2
    <2> QED BY <1>5, <2>1, <2>2, <2>3
<1>7. \A u \in Threads \ {t} :
        /\ DOMAIN jobs[u] = {"todo", "walking", "shown"}
        /\ jobs[u].walking # << >> => /\ jobs[u].todo # << >>
                                      /\ jobs[u].walking = WordAt(Head(jobs[u].todo).to).vtable
        /\ \A s \in jobs[u].shown : RightLine(s)
    BY DEF JobBooks
<1> QED BY <1>1, <1>2, <1>3, <1>4, <1>6, <1>7 DEF JobBooks

\* Where only the books of the session change, and neither the game nor the file.
LEMMA SessionFrame ==
  ASSUME UNCHANGED <<dumpVars, exeVars, genVars>>, LiveInv
  PROVE  /\ NamesInv' /\ game' = game /\ export' = export /\ game \in Games
         /\ \A v : NameBehind(v)' = NameBehind(v)
<1>1. game' = game /\ export' = export /\ UNCHANGED dumpVars
    BY DEF dumpVars, schemaVars, workerVars
<1>2. NamesInv'
    BY <1>1, NamesInvStep DEF LiveInv
<1>3. game \in Games
    BY DEF LiveInv, NamesInv, ExportInv
<1>4. \A v : NameBehind(v)' = NameBehind(v)
    BY <1>1 DEF NameBehind, NameIn
<1> QED BY <1>1, <1>2, <1>3, <1>4

LEMMA CacheBooksFrame ==
  ASSUME CacheBooks, UNCHANGED <<game, cache>> PROVE CacheBooks'
<1>1. \A v : NameBehind(v)' = NameBehind(v)
    BY DEF NameBehind, NameIn
<1> QED BY <1>1 DEF CacheBooks

LEMMA NameBooksFrame ==
  ASSUME NameBooks, UNCHANGED <<game, s_rtti_cache>> PROVE NameBooks'
<1>1. \A v : NameBehind(v)' = NameBehind(v)
    BY DEF NameBehind, NameIn
<1> QED BY <1>1 DEF NameBooks

LEMMA JobBooksFrame ==
  ASSUME JobBooks, UNCHANGED <<game, cache, jobs>> PROVE JobBooks'
<1>1. \A s : RightLine(s)' = RightLine(s)
    BY DEF RightLine, find_class_any
<1>2. \A a : WordAt(a)' = WordAt(a)
    BY DEF WordAt
<1> QED BY <1>1, <1>2 DEF JobBooks

\* What Load takes over.
LEMMA LoadedRight ==
  ASSUME NEW file, FileNames(file)
  PROVE  /\ \A v \in Load(file).vtables : NameBehind(<<v.module, v.rva>>) = v.class
         /\ \A g \in Load(file).globals : g.vtable # 0 => NameBehind(<<g.module, g.vtable>>) = g.class
         /\ \A k \in DOMAIN Load(file).classes : Load(file).classes[k].name = k[2]
         /\ DOMAIN Load(file).modules \subseteq Nat
<1>1. ASSUME NEW v \in Load(file).vtables PROVE NameBehind(<<v.module, v.rva>>) = v.class
    <2>1. Load(file).vtables =
            UNION {{[class |-> w.class, module |-> x.name, rva |-> w.vtable] : w \in x.vtables} : x \in ToSet(file.modules)}
        BY DEF Load
    <2>2. PICK x \in ToSet(file.modules) :
             v \in {[class |-> w.class, module |-> x.name, rva |-> w.vtable] : w \in x.vtables}
        BY <1>1, <2>1
    <2>3. PICK w \in x.vtables : v = [class |-> w.class, module |-> x.name, rva |-> w.vtable]
        BY <2>2
    <2>4. NameBehind(<<x.name, w.vtable>>) = w.class
        BY <2>2, <2>3 DEF FileNames
    <2> QED BY <2>3, <2>4
<1>2. ASSUME NEW g \in Load(file).globals, g.vtable # 0 PROVE NameBehind(<<g.module, g.vtable>>) = g.class
    <2>1. Load(file).globals = UNION {{CachedGlobal(m, e) : e \in ToSet(file.globals[m])} : m \in DOMAIN file.globals}
        BY DEF Load
    <2>2. PICK m \in DOMAIN file.globals : g \in {CachedGlobal(m, e) : e \in ToSet(file.globals[m])}
        BY <1>2, <2>1
    <2>3. PICK e \in ToSet(file.globals[m]) : g = CachedGlobal(m, e)
        BY <2>2
    <2>4. g.module = m /\ g.class = e.class /\ g.vtable = e.vtable
        BY <2>3 DEF CachedGlobal
    <2>5. NameBehind(<<m, e.vtable>>) = e.class
        BY <1>2, <2>3, <2>4 DEF FileNames, GlobalsNames
    <2> QED BY <2>4, <2>5
<1>3. ASSUME NEW k \in DOMAIN Load(file).classes PROVE Load(file).classes[k].name = k[2]
    <2> DEFINE keys == UNION {{<<x.name, c.name>> : c \in ToSet(x.classes)} : x \in ToSet(file.modules)}
               within == UNION {ToSet(x.classes) : x \in {y \in ToSet(file.modules) : y.name = k[1]}}
    <2>1. Load(file).classes = [q \in keys |-> CachedClass(q[1], ClassOf(file, q))]
        BY DEF Load
    <2>2. k \in keys /\ Load(file).classes[k] = CachedClass(k[1], ClassOf(file, k))
        <3> HIDE DEF keys
        <3> QED BY <1>3, <2>1
    <2>3. PICK x \in ToSet(file.modules) : k \in {<<x.name, c.name>> : c \in ToSet(x.classes)}
        BY <2>2
    <2>4. PICK c \in ToSet(x.classes) : k = <<x.name, c.name>>
        BY <2>3
    <2>5. c \in within /\ c.name = k[2]
        BY <2>3, <2>4
    <2>6. ClassOf(file, k) = CHOOSE d \in within : d.name = k[2]
        BY DEF ClassOf
    <2>7. ClassOf(file, k).name = k[2]
        <3> HIDE DEF within
        <3> QED BY <2>5, <2>6
    <2> QED BY <2>2, <2>7 DEF CachedClass
<1>4. DOMAIN Load(file).modules \subseteq Nat
    <2> DEFINE S == {x.name : x \in ToSet(file.modules)}
    <2>1. Load(file).modules = Kept(ModuleOrder, S)
        BY DEF Load, InModuleOrder
    <2> HIDE DEF S
    <2>2. OnceEach(Kept(ModuleOrder, S), S)
        BY OrderAssumption, KeptOnceEach
    <2> QED BY <2>1, <2>2 DEF OnceEach
<1> QED BY <1>1, <1>2, <1>3, <1>4

LEMMA SeedsAreRight ==
  ASSUME CacheBooks, cache # << >>, NEW v \in {s.vtable : s \in Seeds}
  PROVE  SeededAs(v) = NameBehind(v)
<1>1. \A s \in Seeds : NameBehind(s.vtable) = s.class
    <2>1. ASSUME NEW w \in cache.vtables
          PROVE  NameBehind([vtable |-> <<w.module, w.rva>>, class |-> w.class].vtable) = w.class
        BY DEF CacheBooks
    <2>2. ASSUME NEW g \in cache.globals, g.vtable # 0
          PROVE  NameBehind([vtable |-> <<g.module, g.vtable>>, class |-> g.class].vtable) = g.class
        BY <2>2 DEF CacheBooks
    <2> QED BY <2>1, <2>2 DEF Seeds
<1>2. \E s \in Seeds : s.vtable = v
    OBVIOUS
<1>3. SeededAs(v) = (CHOOSE s \in Seeds : s.vtable = v).class
    BY DEF SeededAs
<1> QED BY <1>1, <1>2, <1>3

LEMMA LiveInvStep ==
  LiveInv /\ [\/ Next /\ UNCHANGED liveVars
              \/ LiveNext /\ UNCHANGED <<dumpVars, exeVars, genVars>>]_<<dumpVars, exeVars, genVars, liveVars>>
    => LiveInv'
<1> SUFFICES ASSUME LiveInv,
                    [\/ Next /\ UNCHANGED liveVars
                     \/ LiveNext /\ UNCHANGED <<dumpVars, exeVars, genVars>>]_<<dumpVars, exeVars, genVars, liveVars>>
             PROVE  LiveInv'
    OBVIOUS
<1> USE DEF LiveInv
<1>1. CASE UNCHANGED liveVars /\ [DumpNext]_dumpVars
    <2>1. NamesInv' /\ game' = game
        BY <1>1, NamesInvStep, GameStays
    <2> QED BY <1>1, <2>1, CacheBooksFrame, NameBooksFrame, JobBooksFrame DEF liveVars
<1>2. CASE Next /\ UNCHANGED liveVars
    BY <1>1, <1>2 DEF Next
<1>3. CASE LiveNext /\ UNCHANGED <<dumpVars, exeVars, genVars>>
    <2>1. /\ NamesInv' /\ game' = game /\ export' = export /\ game \in Games
          /\ \A v : NameBehind(v)' = NameBehind(v)
        BY <1>3, SessionFrame
    <2>2. CASE LoadCache
        <3>1. cache' = Load(export) /\ export # << >> /\ cache = << >> /\ UNCHANGED <<s_rtti_cache, jobs>>
            BY <2>2 DEF LoadCache
        <3>2. CacheBooks'
            <4> DEFINE new == Load(export)
            <4>1. FileNames(export)
                BY <3>1 DEF NamesInv
            <4>2. /\ \A v \in new.vtables : NameBehind(<<v.module, v.rva>>) = v.class
                  /\ \A g \in new.globals : g.vtable # 0 => NameBehind(<<g.module, g.vtable>>) = g.class
                  /\ \A k \in DOMAIN new.classes : new.classes[k].name = k[2]
                  /\ DOMAIN new.modules \subseteq Nat
                BY <4>1, LoadedRight
            <4> HIDE DEF new
            <4>3. cache' = new
                BY <3>1 DEF new
            <4> QED BY <2>1, <4>2, <4>3 DEF CacheBooks
        <3>3. JobBooks'
            BY <2>1, <3>1 DEF JobBooks
        <3> QED BY <2>1, <3>1, <3>2, <3>3, NameBooksFrame
    <2>3. CASE ProbeEntityConfig
        <3>1. UNCHANGED <<cache, s_rtti_cache, jobs>>
            BY <2>3 DEF ProbeEntityConfig
        <3> QED BY <2>1, <3>1, CacheBooksFrame, NameBooksFrame, JobBooksFrame
    <2>4. CASE EntityList
        <3> DEFINE held == {s \in EntitySlots(m_ent_config) : is_valid_ptr(s[2])}
                   seeded == {s.vtable : s \in Seeds}
                   new == {WordAt(s[2]).vtable : s \in {x \in held : Readable(x[2], 8)}}
                            \ (seeded \cup DOMAIN s_rtti_cache \cup {<< >>})
        <3>1. /\ UNCHANGED <<cache, jobs>> /\ cache # << >>
              /\ \E walked : /\ \A v \in new : walked[v] \in WalkedNames(v)
                             /\ s_rtti_cache' = [v \in new \cup seeded \cup DOMAIN s_rtti_cache |->
                                                   IF v \in new THEN walked[v]
                                                   ELSE IF v \in seeded THEN SeededAs(v) ELSE s_rtti_cache[v]]
            BY <2>4, Zenon DEF EntityList
        <3>2. \A v \in seeded : SeededAs(v) = NameBehind(v)
            BY <3>1, SeedsAreRight
        <3> HIDE DEF new, seeded, held
        <3>3. \A v : \A n \in WalkedNames(v) : n \in {NoName, NameBehind(v)} /\ (~ game.live.flaky => n = NameBehind(v))
            BY DEF WalkedNames, MayFail
        <3>4. NameBooks'
            BY <2>1, <3>1, <3>2, <3>3 DEF NameBooks
        <3> QED BY <2>1, <3>1, <3>4, CacheBooksFrame, JobBooksFrame
    <2>5. ASSUME NEW t \in Threads, LookUp(t) PROVE LiveInv'
        <3> DEFINE at == Head(jobs[t].todo).to
                   read == IF Readable(at, 8) THEN WordAt(at).vtable ELSE << >>
        <3>0. /\ jobs[t].todo # << >> /\ UNCHANGED <<cache, s_rtti_cache>>
              /\ \E v \in MayFail(read, << >>) :
                   IF v # << >> /\ v \notin DOMAIN s_rtti_cache
                   THEN jobs' = [jobs EXCEPT ![t].walking = v]
                   ELSE Follow(t, IF v = << >> THEN NoName ELSE s_rtti_cache[v])
            BY <2>5, Zenon DEF LookUp
        <3>1. PICK v \in MayFail(read, << >>) :
                 IF v # << >> /\ v \notin DOMAIN s_rtti_cache
                 THEN jobs' = [jobs EXCEPT ![t].walking = v]
                 ELSE Follow(t, IF v = << >> THEN NoName ELSE s_rtti_cache[v])
            BY <3>0, Zenon
        <3>4. v \in {read, << >>} /\ (~ game.live.flaky => v = read)
            <4> HIDE DEF read
            <4> QED BY DEF MayFail
        <3>2. CASE v # << >> /\ v \notin DOMAIN s_rtti_cache
            <4>1. jobs' = [jobs EXCEPT ![t].walking = v] /\ v = WordAt(at).vtable
                BY <3>1, <3>2, <3>4
            <4>2. /\ DOMAIN jobs' = Threads
                  /\ DOMAIN jobs'[t] = {"todo", "walking", "shown"} /\ jobs'[t].walking = v
                  /\ jobs'[t].todo = jobs[t].todo /\ jobs'[t].shown = jobs[t].shown
                  /\ \A u \in Threads \ {t} : jobs'[u] = jobs[u]
                <5>1. DOMAIN jobs = Threads /\ DOMAIN jobs[t] = {"todo", "walking", "shown"}
                    BY DEF JobBooks
                <5> HIDE DEF read, at
                <5> QED BY <4>1, <5>1
            <4>3. \A s : RightLine(s)' = RightLine(s)
                BY <2>1, <3>0 DEF RightLine, find_class_any
            <4>4. \A a : WordAt(a)' = WordAt(a)
                BY <2>1 DEF WordAt
            <4>5. cache # << >>
                BY <3>0 DEF JobBooks
            <4>6. JobBooks'
                <5> HIDE DEF read
                <5>1. v = WordAt(Head(jobs[t].todo).to).vtable
                    BY <4>1
                <5> QED BY <3>0, <4>2, <4>3, <4>4, <4>5, <5>1 DEF JobBooks
            <4> QED BY <2>1, <3>0, <4>6, CacheBooksFrame, NameBooksFrame
        <3>3. CASE ~ (v # << >> /\ v \notin DOMAIN s_rtti_cache)
            <4> DEFINE name == IF v = << >> THEN NoName ELSE s_rtti_cache[v]
            <4>1. Follow(t, name)
                BY <3>1, <3>3
            <4>2. ASSUME at \in DOMAIN game.live.objects, ~ game.live.flaky PROVE name = game.live.objects[at]
                <5>1. Readable(at, 8) /\ WordAt(at).vtable # << >> /\ NameBehind(WordAt(at).vtable) = game.live.objects[at]
                    BY <2>1, <4>2, ObjectNamed
                <5>2. v = WordAt(at).vtable /\ v # << >> /\ v \in DOMAIN s_rtti_cache
                    BY <3>3, <3>4, <4>2, <5>1
                <5>3. s_rtti_cache[v] = NameBehind(v)
                    BY <4>2, <5>2 DEF NameBooks
                <5> QED BY <5>1, <5>2, <5>3
            <4> HIDE DEF name
            <4>3. JobBooks'
                BY <2>1, <3>0, <4>1, <4>2, FollowKeeps
            <4> QED BY <2>1, <3>0, <4>3, CacheBooksFrame, NameBooksFrame
        <3> QED BY <3>2, <3>3
    <2>6. ASSUME NEW t \in Threads, Walk(t) PROVE LiveInv'
        <3> DEFINE v == jobs[t].walking
        <3>1. PICK name \in WalkedNames(v) :
                 /\ s_rtti_cache' = [w \in DOMAIN s_rtti_cache \cup {v} |-> IF w = v THEN name ELSE s_rtti_cache[w]]
                 /\ Follow(t, name)
            BY <2>6 DEF Walk
        <3>2. v # << >> /\ UNCHANGED cache
            BY <2>6 DEF Walk
        <3>3. jobs[t].todo # << >> /\ v = WordAt(Head(jobs[t].todo).to).vtable
            BY <3>2 DEF JobBooks
        <3>4. name \in {NoName, NameBehind(v)} /\ (~ game.live.flaky => name = NameBehind(v))
            BY <3>1 DEF WalkedNames, MayFail
        <3> HIDE DEF v
        <3>5. NameBooks'
            BY <2>1, <3>1, <3>4 DEF NameBooks
        <3>6. JobBooks'
            <4> DEFINE at == Head(jobs[t].todo).to
            <4>1. ASSUME at \in DOMAIN game.live.objects, ~ game.live.flaky PROVE name = game.live.objects[at]
                BY <2>1, <3>3, <3>4, <4>1, ObjectNamed
            <4> QED BY <2>1, <3>1, <3>2, <3>3, <4>1, FollowKeeps
        <3> QED BY <2>1, <3>2, <3>5, <3>6, CacheBooksFrame
    <2>7. ASSUME NEW t \in Threads, NEW q \in Requests, ReadObject(t, q) PROVE LiveInv'
        <3>1. cache # << >> /\ UNCHANGED <<cache, s_rtti_cache>>
            BY <2>7 DEF ReadObject
        <3>2. PICK links : jobs' = [jobs EXCEPT ![t] = [NoJob EXCEPT !.todo = links]]
            BY <2>7, Zenon DEF ReadObject
        <3>3. \A s : RightLine(s)' = RightLine(s)
            BY <2>1, <3>1 DEF RightLine, find_class_any
        <3>4. \A a : WordAt(a)' = WordAt(a)
            BY <2>1 DEF WordAt
        <3>5. /\ DOMAIN jobs' = Threads
              /\ DOMAIN jobs'[t] = {"todo", "walking", "shown"} /\ jobs'[t].walking = << >> /\ jobs'[t].shown = {}
              /\ \A u \in Threads \ {t} : jobs'[u] = jobs[u]
            BY <3>2 DEF JobBooks, NoJob
        <3>6. JobBooks'
            BY <3>1, <3>3, <3>4, <3>5 DEF JobBooks
        <3> QED BY <2>1, <3>1, <3>6, CacheBooksFrame, NameBooksFrame
    <2> QED BY <1>3, <2>2, <2>3, <2>4, <2>5, <2>6, <2>7 DEF LiveNext
<1>4. CASE UNCHANGED <<dumpVars, exeVars, genVars, liveVars>>
    BY <1>1, <1>4
<1> QED BY <1>2, <1>3, <1>4

\* An object of the game is listed under its own name.
EntityBooks ==
  \A e \in entities :
    e[2] \in DOMAIN game.live.objects /\ ~ game.live.flaky => e[3] = game.live.objects[e[2]]

LEMMA EntityBooksStep ==
  LiveInv /\ EntityBooks /\ [\/ Next /\ UNCHANGED liveVars
                             \/ LiveNext /\ UNCHANGED <<dumpVars, exeVars, genVars>>]_<<dumpVars, exeVars, genVars, liveVars>>
    => EntityBooks'
<1> SUFFICES ASSUME LiveInv, EntityBooks,
                    [\/ Next /\ UNCHANGED liveVars
                     \/ LiveNext /\ UNCHANGED <<dumpVars, exeVars, genVars>>]_<<dumpVars, exeVars, genVars, liveVars>>
             PROVE  EntityBooks'
    OBVIOUS
<1>1. LiveInv'
    BY LiveInvStep
<1>2. game' = game
    <2>1. [DumpNext]_dumpVars
        BY DEF Next
    <2> QED BY <2>1, GameStays
<1>3. CASE entities' = entities
    BY <1>2, <1>3 DEF EntityBooks
<1>4. CASE EntityList /\ UNCHANGED <<dumpVars, exeVars, genVars>>
    <2> DEFINE held == {s \in EntitySlots(m_ent_config) : is_valid_ptr(s[2])}
               seeded == {s.vtable : s \in Seeds}
               new == {WordAt(s[2]).vtable : s \in {x \in held : Readable(x[2], 8)}}
                        \ (seeded \cup DOMAIN s_rtti_cache \cup {<< >>})
    <2>1. /\ DOMAIN s_rtti_cache' = new \cup seeded \cup DOMAIN s_rtti_cache
          /\ entities' = {<<s[1], s[2], IF Readable(s[2], 8) /\ WordAt(s[2]).vtable # << >>
                                        THEN s_rtti_cache'[WordAt(s[2]).vtable] ELSE NoName>> : s \in held}
        <3>1. /\ \E walked : s_rtti_cache' = [v \in new \cup seeded \cup DOMAIN s_rtti_cache |->
                                               IF v \in new THEN walked[v]
                                               ELSE IF v \in seeded THEN SeededAs(v) ELSE s_rtti_cache[v]]
              /\ entities' = {<<s[1], s[2], IF Readable(s[2], 8) /\ WordAt(s[2]).vtable # << >>
                                            THEN s_rtti_cache'[WordAt(s[2]).vtable] ELSE NoName>> : s \in held}
            BY <1>4, Zenon DEF EntityList
        <3> HIDE DEF new, seeded, held
        <3> QED BY <3>1
    <2> SUFFICES ASSUME NEW e \in entities', e[2] \in DOMAIN game.live.objects, ~ game.live.flaky
                 PROVE  e[3] = game.live.objects[e[2]]
        BY <1>2 DEF EntityBooks
    <2>2. PICK s \in held : e = <<s[1], s[2], IF Readable(s[2], 8) /\ WordAt(s[2]).vtable # << >>
                                              THEN s_rtti_cache'[WordAt(s[2]).vtable] ELSE NoName>>
        <3> HIDE DEF held
        <3> QED BY <2>1
    <2> DEFINE v == WordAt(s[2]).vtable
    <2>3. /\ s[2] \in DOMAIN game.live.objects /\ e[2] = s[2]
          /\ Readable(s[2], 8) /\ v # << >> /\ NameBehind(v) = game.live.objects[s[2]]
        <3>1. e[2] = s[2]
            BY <2>2
        <3>2. game \in Games
            BY DEF LiveInv, NamesInv, ExportInv
        <3> QED BY <3>1, <3>2, ObjectNamed
    <2>4. v \in DOMAIN s_rtti_cache'
        <3>1. v \in {WordAt(x[2]).vtable : x \in {y \in held : Readable(y[2], 8)}}
            BY <2>2, <2>3
        <3> HIDE DEF v, seeded, held
        <3> QED BY <2>1, <2>3, <3>1
    <2>5. s_rtti_cache'[v] = NameBehind(v)
        <3>1. NameBehind(v)' = NameBehind(v)
            BY <1>2, <1>4 DEF NameBehind, NameIn, WordAt
        <3>2. \A x \in DOMAIN s_rtti_cache' : s_rtti_cache'[x] = NameBehind(x)'
            BY <1>1, <1>2 DEF LiveInv, NameBooks
        <3> QED BY <2>4, <1>2, <3>2 DEF NameBehind, NameIn
    <2> QED BY <2>2, <2>3, <2>5
<1>5. entities' = entities \/ (EntityList /\ UNCHANGED <<dumpVars, exeVars, genVars>>)
    <2>1. ASSUME UNCHANGED liveVars PROVE entities' = entities
        BY <2>1 DEF liveVars
    <2>2. ASSUME LoadCache \/ ProbeEntityConfig PROVE entities' = entities
        BY <2>2 DEF LoadCache, ProbeEntityConfig
    <2>3. ASSUME NEW t \in Threads, LookUp(t) PROVE entities' = entities
        BY <2>3, Zenon DEF LookUp
    <2>4. ASSUME NEW t \in Threads, Walk(t) PROVE entities' = entities
        BY <2>4 DEF Walk
    <2>5. ASSUME NEW t \in Threads, NEW q \in Requests, ReadObject(t, q) PROVE entities' = entities
        BY <2>5, Zenon DEF ReadObject
    <2>6. ASSUME LiveNext PROVE entities' = entities \/ EntityList
        BY <2>2, <2>3, <2>4, <2>5, <2>6, Zenon DEF LiveNext
    <2>7. ASSUME UNCHANGED <<dumpVars, exeVars, genVars, liveVars>> PROVE entities' = entities
        <3>1. UNCHANGED liveVars
            BY <2>7
        <3> QED BY <2>1, <3>1
    <2>8. CASE Next /\ UNCHANGED liveVars
        BY <2>1, <2>8
    <2>9. CASE LiveNext /\ UNCHANGED <<dumpVars, exeVars, genVars>>
        BY <2>6, <2>9
    <2>10. CASE UNCHANGED <<dumpVars, exeVars, genVars, liveVars>>
        BY <2>7, <2>10
    <2> QED BY <2>8, <2>9, <2>10
<1> QED BY <1>3, <1>4, <1>5

\* Whichever thread put it there, and whether it comes from a walk or from the
\* export, a name in the cache is that of the class whose vtable it stands for;
\* what is shown behind a pointer to an object is the class of the object, and an
\* entity that is one is listed under the name of its class.
THEOREM TypesStayRight == LiveSpec => []TypesAreRight
<1>1. LiveInv /\ EntityBooks => TypesAreRight
    <2> SUFFICES ASSUME LiveInv, EntityBooks PROVE TypesAreRight
        OBVIOUS
    <2>1. \A v \in DOMAIN s_rtti_cache : s_rtti_cache[v] \in {NoName, NameBehind(v)}
        BY DEF LiveInv, NameBooks
    <2>2. \A s \in UNION {jobs[t].shown : t \in Threads} : RightLine(s)
        BY DEF LiveInv, JobBooks
    <2> QED BY <2>1, <2>2 DEF TypesAreRight, RightLine, EntityBooks
<1>2. Init /\ LiveInit => EntityBooks
    BY DEF LiveInit, EntityBooks
<1> QED BY <1>1, <1>2, LiveInvInit, LiveInvStep, EntityBooksStep, PTL DEF LiveSpec

-----------------------------------------------------------------------------
(* The flattened fields of the session: level by level, the fields of a class
   are those of its first base, flattened on the level before, then its own.  *)

FlatOf(flat, last) ==
  flat = [d \in 0..last |->
            [k \in DOMAIN cache.classes |->
               ByOffset((IF d = 0 THEN << >> ELSE InheritedFields(flat[d - 1], k)) \o cache.classes[k].fields)]]

LEMMA FlatExists ==
  ASSUME NEW last \in Nat, last = Cardinality(DOMAIN cache.classes),
         NEW m, NEW n, <<m, n>> \in DOMAIN cache.classes
  PROVE  \E flat : FlatOf(flat, last) /\ flat_fields(m, n) = flat[last][<<m, n>>]
<1> DEFINE Keys == DOMAIN cache.classes
           Own(k) == cache.classes[k].fields
           Bottom == [k \in Keys |-> ByOffset(<< >> \o Own(k))]
           Step(x) == [k \in Keys |-> ByOffset(InheritedFields(x, k) \o Own(k))]
           Is(g, l) == g = [d \in 0..l |-> [k \in Keys |->
                              ByOffset((IF d = 0 THEN << >> ELSE InheritedFields(g[d - 1], k)) \o Own(k))]]
           By(g, l) == g = [d \in 0..l |-> IF d = 0 THEN Bottom ELSE Step(g[d - 1])]
           S == {l \in Nat : \E g : By(g, l)}
           f == CHOOSE g : Is(g, last)
<1>1. last \in S
    <2> HIDE DEF Step, Bottom
    <2>1. 0 \in S
        <3>1. By([k \in 0..0 |-> Bottom], 0)
            OBVIOUS
        <3> QED BY <3>1
    <2>2. ASSUME NEW l \in Nat, l \in S PROVE l + 1 \in S
        <3>1. PICK g : By(g, l)
            BY <2>2
        <3> DEFINE h == [k \in 0..(l + 1) |-> IF k = l + 1 THEN Step(g[l]) ELSE g[k]]
        <3>2. By(h, l + 1)
            BY <3>1
        <3> HIDE DEF h, By
        <3> QED BY <3>2
    <2>3. Nat \subseteq S
        <3> HIDE DEF S
        <3> QED BY <2>1, <2>2, SetInduction
    <2> QED BY <2>3
<1>2. PICK g : By(g, last)
    BY <1>1
<1>3. \A d \in 0..last : (IF d = 0 THEN Bottom ELSE Step(g[d - 1])) =
                          [k \in Keys |-> ByOffset((IF d = 0 THEN << >> ELSE InheritedFields(g[d - 1], k)) \o Own(k))]
    <2> TAKE d \in 0..last
    <2>1. CASE d = 0
        BY <2>1
    <2>2. CASE d # 0
        BY <2>2
    <2> QED BY <2>1, <2>2
<1>4. Is(g, last)
    <2> HIDE DEF Bottom, Step, Own, Keys
    <2> QED BY <1>2, <1>3
<1>5. Is(f, last)
    <2> HIDE DEF Is
    <2> QED BY <1>4
<1>6. flat_fields(m, n) = f[last][<<m, n>>]
    BY DEF flat_fields
<1>7. FlatOf(f, last)
    <2> HIDE DEF f
    <2> QED BY <1>5 DEF FlatOf
<1> HIDE DEF f
<1> QED BY <1>6, <1>7

\* The first answer counts if it is not empty.
LEMMA FirstAnswerIs ==
  ASSUME NEW answers, NEW n \in Nat, DOMAIN answers = 1..n, n >= 1, answers[1] # << >>
  PROVE  FirstAnswer(answers) = answers[1]
<1> DEFINE given == {i \in DOMAIN answers : answers[i] # << >>}
<1>1. given \in SUBSET Nat /\ 1 \in given /\ \A i \in given : 1 <= i
    OBVIOUS
<1>2. FirstAnswer(answers) = IF given = {} THEN << >> ELSE answers[Lowest(given)]
    BY DEF FirstAnswer
<1> HIDE DEF given
<1>3. Lowest(given) = 1
    BY <1>1, LowestIs
<1> QED BY <1>1, <1>2, <1>3

\* The classes of the line of n stand in the session under m, each with its first
\* base as parent; the last has fields.
Chained(m, decl, n) ==
  /\ n \in DOMAIN decl /\ FirstBases(decl) /\ NoName \notin DOMAIN decl
  /\ \A c \in LineOf(decl, n) :
       /\ <<m, c>> \in DOMAIN cache.classes /\ cache.classes[<<m, c>>].parent = ParentIn(decl, c)
       /\ cache.classes[<<m, c>>].fields \in Seq(ToSet(cache.classes[<<m, c>>].fields))
       /\ \A f \in ToSet(cache.classes[<<m, c>>].fields) : f.offset \in Nat
       /\ decl[c].bases = << >> => ToSet(cache.classes[<<m, c>>].fields) # {}
       /\ decl[c].bases # << >> => c \notin LineOf(decl, decl[c].bases[1])

FieldsAlong(m, decl, c) == UNION {ToSet(cache.classes[<<m, x>>].fields) : x \in LineOf(decl, c)}

\* The fields of the whole line, and there are some.
Whole(fields, m, decl, c) ==
  /\ fields \in Seq(ToSet(fields))
  /\ ToSet(fields) = FieldsAlong(m, decl, c)
  /\ ToSet(fields) # {}

\* The line of a class of the line is a part of it.
LEMMA LineWithin ==
  ASSUME NEW decl, FirstBases(decl), NEW n \in DOMAIN decl, NEW c \in LineOf(decl, n)
  PROVE  c \in DOMAIN decl /\ LineOf(decl, c) \subseteq LineOf(decl, n)
<1>1. c \in DOMAIN decl
    BY LineHas
<1>2. /\ LineOf(decl, n) \in SUBSET DOMAIN decl
      /\ \A d \in LineOf(decl, n) : decl[d].bases # << >> => decl[d].bases[1] \in LineOf(decl, n)
    BY LineHas
<1>3. LineOf(decl, c) \subseteq LineOf(decl, n)
    BY <1>2, LineLeast
<1> QED BY <1>1, <1>3

\* One class, with what it has from its parent.
LEMMA WholeLevel ==
  ASSUME NEW m, NEW decl, NEW n, Chained(m, decl, n), NEW c \in LineOf(decl, n),
         NEW given,
         decl[c].bases = << >> => given = << >>,
         decl[c].bases # << >> => Whole(given, m, decl, decl[c].bases[1])
  PROVE  Whole(ByOffset(given \o cache.classes[<<m, c>>].fields), m, decl, c)
<1>1. PICK own : own = cache.classes[<<m, c>>].fields
    OBVIOUS
<1>2. PICK all : all = given \o own
    OBVIOUS
<1>3. PICK fields : fields = ByOffset(all)
    OBVIOUS
<1>4. /\ own \in Seq(ToSet(own)) /\ \A f \in ToSet(own) : f.offset \in Nat
      /\ decl[c].bases = << >> => ToSet(own) # {}
    BY <1>1 DEF Chained
<1>5. given \in Seq(ToSet(given))
    <2>1. << >> \in Seq(ToSet(<< >>))
        OBVIOUS
    <2> QED BY <2>1 DEF Whole
<1>6. all \in Seq(ToSet(all)) /\ ToSet(all) = ToSet(given) \cup ToSet(own)
    BY <1>2, <1>4, <1>5, RowsConcatenate
<1>7. c \in DOMAIN decl /\ FirstBases(decl) /\ n \in DOMAIN decl /\ LineOf(decl, c) \subseteq LineOf(decl, n)
    BY LineWithin DEF Chained
<1>8. ToSet(all) = FieldsAlong(m, decl, c) /\ ToSet(all) # {}
    <2>1. CASE decl[c].bases = << >>
        <3>1. LineOf(decl, c) = {c}
            BY <1>7, <2>1, LineSplits
        <3>2. FieldsAlong(m, decl, c) = ToSet(own)
            BY <1>1, <3>1 DEF FieldsAlong
        <3>3. ToSet(given) = {}
            BY <2>1 DEF ToSet
        <3> QED BY <1>4, <1>6, <2>1, <3>2, <3>3
    <2>2. CASE decl[c].bases # << >>
        <3>1. LineOf(decl, c) = {c} \cup LineOf(decl, decl[c].bases[1])
            BY <1>7, <2>2, LineSplits
        <3>2. FieldsAlong(m, decl, c) = ToSet(own) \cup FieldsAlong(m, decl, decl[c].bases[1])
            BY <1>1, <3>1 DEF FieldsAlong
        <3>3. ToSet(given) = FieldsAlong(m, decl, decl[c].bases[1]) /\ ToSet(given) # {}
            BY <2>2 DEF Whole
        <3> QED BY <1>6, <3>2, <3>3
    <2> QED BY <2>1, <2>2
<1>9. IsRow(all)
    <2>1. \A A : \A s \in Seq(A) : IsRow(s)
        BY DEF IsRow
    <2> QED BY <1>6, <2>1, Zenon
<1> DEFINE key == [i \in DOMAIN all |-> all[i].offset]
<1>10. key \in [DOMAIN all -> Nat]
    <2>1. ASSUME NEW f \in FieldsAlong(m, decl, c) PROVE f.offset \in Nat
        <3>1. PICK x \in LineOf(decl, c) : f \in ToSet(cache.classes[<<m, x>>].fields)
            BY DEF FieldsAlong
        <3>2. x \in LineOf(decl, n)
            BY <1>7
        <3> QED BY <3>1, <3>2 DEF Chained
    <2>2. \A i \in DOMAIN all : all[i] \in ToSet(all)
        BY DEF ToSet
    <2> QED BY <1>8, <2>1, <2>2
<1>11. fields = SortedBy(all, key)
    BY <1>3 DEF ByOffset
<1>12. ToSet(fields) = ToSet(all) /\ fields \in Seq(ToSet(fields))
    <2>1. PICK k : k = key
        OBVIOUS
    <2>2. k \in [DOMAIN all -> Nat] /\ fields = SortedBy(all, k)
        BY <1>10, <1>11, <2>1
    <2> HIDE DEF key
    <2> QED BY <1>9, <2>2, SortedKeeps, SortedIsSequence
<1> QED BY <1>1, <1>2, <1>3, <1>8, <1>12 DEF Whole

\* A parent is taken from the module of the class, where it has fields.
LEMMA InheritedIs ==
  ASSUME NEW m, NEW decl, NEW n, Chained(m, decl, n), NEW c \in LineOf(decl, n),
         cache.modules \in Seq(ToSet(cache.modules)),
         NEW known,
         decl[c].bases # << >> => Whole(known[<<m, decl[c].bases[1]>>], m, decl, decl[c].bases[1])
  PROVE  InheritedFields(known, <<m, c>>) =
           IF decl[c].bases = << >> THEN << >> ELSE known[<<m, decl[c].bases[1]>>]
<1> DEFINE k == <<m, c>>
           places == OwnModuleFirst(k[1])
           keys == [i \in DOMAIN places |-> <<places[i], cache.classes[k].parent>>]
           answers == [i \in DOMAIN places |-> IF keys[i] \in DOMAIN cache.classes THEN known[keys[i]] ELSE << >>]
<1>1. InheritedFields(known, k) = IF cache.classes[k].parent = NoName THEN << >> ELSE FirstAnswer(answers)
    BY DEF InheritedFields
<1>2. cache.classes[k].parent = ParentIn(decl, c) /\ k[1] = m
    BY DEF Chained
<1>3. CASE decl[c].bases = << >>
    BY <1>1, <1>2, <1>3 DEF ParentIn
<1>4. CASE decl[c].bases # << >>
    <2>1. PICK base : base = decl[c].bases[1]
        OBVIOUS
    <2>2. cache.classes[k].parent = base /\ base # NoName /\ <<m, base>> \in DOMAIN cache.classes
        <3>1. base \in LineOf(decl, n) /\ LineOf(decl, n) \subseteq DOMAIN decl
            BY <1>4, <2>1, LineHas DEF Chained
        <3>2. cache.classes[k].parent = base
            BY <1>2, <1>4, <2>1 DEF ParentIn
        <3> QED BY <3>1, <3>2 DEF Chained
    <2>3. known[<<m, base>>] # << >>
        <3>1. ToSet(<< >>) = {}
            BY DEF ToSet
        <3>2. ToSet(known[<<m, base>>]) # {}
            BY <1>4, <2>1 DEF Whole
        <3> QED BY <3>1, <3>2
    <2>4. PICK l \in Nat : DOMAIN places = 1..l /\ l >= 1 /\ places[1] = m
        <3> DEFINE T == {m} \cup ToSet(cache.modules)
        <3>1. PICK a, b : a = <<m>> /\ b = cache.modules
            OBVIOUS
        <3>2. /\ Len(a) = 1 /\ a[1] = m /\ a \in Seq(T)
            BY <3>1
        <3>3. b \in Seq(T)
            <4>1. \A A, B : A \subseteq B => Seq(A) \subseteq Seq(B)
                OBVIOUS
            <4> QED BY <3>1, <4>1, Zenon
        <3>4. places = a \o b
            BY <1>2, <3>1 DEF OwnModuleFirst
        <3> HIDE DEF T, places
        <3>5. /\ a \o b \in Seq(T) /\ Len(a \o b) = Len(a) + Len(b)
              /\ \A i \in 1..Len(a) + Len(b) : (a \o b)[i] = IF i <= Len(a) THEN a[i] ELSE b[i - Len(a)]
            BY <3>2, <3>3, ConcatProperties, Zenon
        <3>6. Len(b) \in Nat
            BY <3>3
        <3>7. 1 \in 1..Len(a) + Len(b) /\ 1 <= Len(a)
            BY <3>2, <3>6
        <3>8. (a \o b)[1] = m
            BY <3>2, <3>5, <3>7
        <3>9. DOMAIN (a \o b) = 1..Len(b) + 1
            BY <3>2, <3>5, <3>6
        <3> QED BY <3>4, <3>6, <3>8, <3>9
    <2>5. DOMAIN answers = 1..l /\ answers[1] = known[<<m, base>>]
        <3> HIDE DEF places
        <3>1. 1 \in DOMAIN places
            BY <2>4
        <3>2. keys[1] = <<m, base>>
            BY <2>2, <2>4, <3>1
        <3> HIDE DEF keys
        <3> QED BY <2>2, <2>4, <3>1, <3>2
    <2> HIDE DEF answers, k
    <2>6. FirstAnswer(answers) = answers[1]
        BY <2>3, <2>4, <2>5, FirstAnswerIs
    <2> QED BY <1>1, <1>4, <2>1, <2>2, <2>5, <2>6 DEF k
<1> QED BY <1>3, <1>4

\* The line of the first base is shorter by one.
LEMMA LineShortens ==
  ASSUME NEW m, NEW decl, NEW n, Chained(m, decl, n), IsFiniteSet(LineOf(decl, n)),
         NEW c \in LineOf(decl, n)
  PROVE  /\ IsFiniteSet(LineOf(decl, c)) /\ Cardinality(LineOf(decl, c)) \in Nat
         /\ Cardinality(LineOf(decl, c)) # 0
         /\ decl[c].bases # << >> =>
              /\ decl[c].bases[1] \in LineOf(decl, n)
              /\ Cardinality(LineOf(decl, c)) = Cardinality(LineOf(decl, decl[c].bases[1])) + 1
<1>1. c \in DOMAIN decl /\ FirstBases(decl) /\ n \in DOMAIN decl /\ LineOf(decl, c) \subseteq LineOf(decl, n)
    BY LineWithin DEF Chained
<1>2. IsFiniteSet(LineOf(decl, c)) /\ Cardinality(LineOf(decl, c)) \in Nat
    BY <1>1, FS_Subset, FS_CardinalityType
<1>3. Cardinality(LineOf(decl, c)) # 0
    <2>1. c \in LineOf(decl, c)
        BY <1>1, LineHas
    <2> QED BY <1>2, <2>1, FS_EmptySet
<1>4. ASSUME decl[c].bases # << >>
      PROVE  /\ decl[c].bases[1] \in LineOf(decl, n)
             /\ Cardinality(LineOf(decl, c)) = Cardinality(LineOf(decl, decl[c].bases[1])) + 1
    <2>1. PICK rest : rest = LineOf(decl, decl[c].bases[1])
        OBVIOUS
    <2>2. LineOf(decl, c) = rest \cup {c} /\ c \notin rest
        <3>1. c \notin rest
            BY <1>4, <2>1 DEF Chained
        <3>2. LineOf(decl, c) = {c} \cup rest
            BY <1>1, <1>4, <2>1, LineSplits
        <3> QED BY <3>1, <3>2
    <2>3. IsFiniteSet(rest)
        BY <1>2, <2>2, FS_Subset
    <2>4. Cardinality(rest \cup {c}) = Cardinality(rest) + 1
        BY <2>2, <2>3, FS_AddElement
    <2>5. decl[c].bases[1] \in LineOf(decl, n)
        BY <1>1, <1>4, LineHas
    <2> QED BY <2>1, <2>2, <2>4, <2>5
<1> QED BY <1>2, <1>3, <1>4

LEMMA LiveFlatIs ==
  ASSUME NEW m, NEW decl, NEW n, Chained(m, decl, n), IsFiniteSet(DOMAIN cache.classes),
         cache.modules \in Seq(ToSet(cache.modules))
  PROVE  Whole(flat_fields(m, n), m, decl, n)
<1> DEFINE last == Cardinality(DOMAIN cache.classes)
<1>1. last \in Nat
    BY FS_CardinalityType
<1>2. n \in LineOf(decl, n) /\ n \in DOMAIN decl /\ FirstBases(decl)
    BY LineHas DEF Chained
<1>3. \A c \in LineOf(decl, n) : <<m, c>> \in DOMAIN cache.classes
    BY DEF Chained
<1>4. IsFiniteSet(LineOf(decl, n)) /\ Cardinality(LineOf(decl, n)) <= last
    <2> DEFINE line == LineOf(decl, n)
               f == [c \in line |-> <<m, c>>]
    <2> HIDE DEF line
    <2>1. f \in [line -> DOMAIN cache.classes] /\ \A a, b \in line : f[a] = f[b] => a = b
        BY <1>3 DEF line
    <2> HIDE DEF f
    <2>2. f \in Injection(line, DOMAIN cache.classes)
        BY <2>1 DEF Injection, IsInjective
    <2>3. IsFiniteSet(line) /\ Cardinality(line) <= Cardinality(DOMAIN cache.classes)
        BY <2>2, FS_Injection
    <2> QED BY <2>3 DEF line
<1>5. PICK flat : FlatOf(flat, last) /\ flat_fields(m, n) = flat[last][<<m, n>>]
    BY <1>1, <1>2, <1>3, FlatExists
<1> DEFINE S == {d \in 0..last : \A c \in LineOf(decl, n) :
                    Cardinality(LineOf(decl, c)) <= d + 1 => Whole(flat[d][<<m, c>>], m, decl, c)}
<1> HIDE DEF last
<1>6. \A d \in 0..last : \A c \in LineOf(decl, n) :
        flat[d][<<m, c>>] = ByOffset((IF d = 0 THEN << >> ELSE InheritedFields(flat[d - 1], <<m, c>>))
                                       \o cache.classes[<<m, c>>].fields)
    <2> DEFINE Level(d, k) == ByOffset((IF d = 0 THEN << >> ELSE InheritedFields(flat[d - 1], k))
                                      \o cache.classes[k].fields)
    <2>1. flat = [d \in 0..last |-> [k \in DOMAIN cache.classes |-> Level(d, k)]]
        BY <1>5 DEF FlatOf
    <2> HIDE DEF Level
    <2>2. \A d \in 0..last : \A k \in DOMAIN cache.classes : flat[d][k] = Level(d, k)
        BY <2>1
    <2>3. \A d \in 0..last : \A c \in LineOf(decl, n) : flat[d][<<m, c>>] = Level(d, <<m, c>>)
        BY <1>3, <2>2
    <2> QED BY <2>3 DEF Level
<1>7. 0 \in S
    <2> SUFFICES ASSUME NEW c \in LineOf(decl, n), Cardinality(LineOf(decl, c)) <= 0 + 1
                 PROVE  Whole(flat[0][<<m, c>>], m, decl, c)
        BY <1>1
    <2>1. decl[c].bases = << >>
        <3>1. ASSUME decl[c].bases # << >> PROVE FALSE
            <4>1. PICK base \in LineOf(decl, n) : Cardinality(LineOf(decl, c)) = Cardinality(LineOf(decl, base)) + 1
                BY <1>4, <3>1, LineShortens
            <4>2. Cardinality(LineOf(decl, base)) \in Nat /\ Cardinality(LineOf(decl, base)) # 0
                BY <1>4, LineShortens
            <4> QED BY <4>1, <4>2
        <3> QED BY <3>1
    <2>2. flat[0][<<m, c>>] = ByOffset(<< >> \o cache.classes[<<m, c>>].fields)
        <3>1. 0 \in 0..last
            BY <1>1
        <3>2. flat[0][<<m, c>>] = ByOffset((IF 0 = 0 THEN << >> ELSE InheritedFields(flat[0 - 1], <<m, c>>))
                                             \o cache.classes[<<m, c>>].fields)
            BY <1>6, <3>1, Zenon
        <3> QED BY <3>2
    <2> QED BY <2>1, <2>2, WholeLevel
<1>8. ASSUME NEW d \in 0..(last - 1), d \in S PROVE d + 1 \in S
    <2>1. d + 1 \in 0..last /\ d \in 0..last /\ d + 1 # 0 /\ (d + 1) - 1 = d /\ d \in Nat
        BY <1>1
    <2> SUFFICES ASSUME NEW c \in LineOf(decl, n), Cardinality(LineOf(decl, c)) <= (d + 1) + 1
                 PROVE  Whole(flat[d + 1][<<m, c>>], m, decl, c)
        BY <2>1
    <2>2. PICK given : given = InheritedFields(flat[d], <<m, c>>)
        OBVIOUS
    <2>3. flat[d + 1][<<m, c>>] = ByOffset(given \o cache.classes[<<m, c>>].fields)
        BY <1>6, <2>1, <2>2
    <2>4. ASSUME decl[c].bases # << >> PROVE Whole(flat[d][<<m, decl[c].bases[1]>>], m, decl, decl[c].bases[1])
        <3>1. PICK base \in LineOf(decl, n) :
                 base = decl[c].bases[1] /\ Cardinality(LineOf(decl, c)) = Cardinality(LineOf(decl, base)) + 1
            BY <1>4, <2>4, LineShortens
        <3>2. Cardinality(LineOf(decl, base)) \in Nat
            BY <1>4, LineShortens
        <3>3. Cardinality(LineOf(decl, base)) <= d + 1
            BY <2>1, <3>1, <3>2
        <3> QED BY <1>8, <3>1, <3>3
    <2>5. given = IF decl[c].bases = << >> THEN << >> ELSE flat[d][<<m, decl[c].bases[1]>>]
        BY <2>2, <2>4, InheritedIs
    <2>6. decl[c].bases # << >> => Whole(given, m, decl, decl[c].bases[1])
        BY <2>4, <2>5
    <2>7. decl[c].bases = << >> => given = << >>
        BY <2>5
    <2> QED BY <2>3, <2>6, <2>7, WholeLevel
<1>9. last \in S
    <2>1. 0..last \subseteq S
        <3> HIDE DEF S
        <3> QED BY <1>1, <1>7, <1>8, StepInduction
    <2> QED BY <1>1, <2>1
<1>10. Cardinality(LineOf(decl, n)) <= last + 1
    <2>1. Cardinality(LineOf(decl, n)) \in Nat /\ Cardinality(LineOf(decl, n)) <= last
        BY <1>4, FS_CardinalityType DEF last
    <2> QED BY <1>1, <2>1
<1> QED BY <1>2, <1>5, <1>9, <1>10

\* The classes of a loaded file are those of its modules.
LEMMA FileClasses ==
  ASSUME NEW file, Exported(file.modules), ClassRows(file.modules)
  PROVE  /\ \A i \in DOMAIN file.modules : \A j \in DOMAIN file.modules[i].classes :
              LET x == file.modules[i]
                  k == <<x.name, x.classes[j].name>>
              IN  k \in DOMAIN Load(file).classes /\ Load(file).classes[k] = CachedClass(x.name, x.classes[j])
         /\ \A k \in DOMAIN Load(file).classes :
              \E i \in DOMAIN file.modules : \E j \in DOMAIN file.modules[i].classes :
                k = <<file.modules[i].name, file.modules[i].classes[j].name>>
<1> DEFINE keys == UNION {{<<x.name, c.name>> : c \in ToSet(x.classes)} : x \in ToSet(file.modules)}
<1>1. Load(file).classes = [q \in keys |-> CachedClass(q[1], ClassOf(file, q))]
    BY DEF Load
<1>2. \A s, y : y \in ToSet(s) <=> \E j \in DOMAIN s : s[j] = y
    BY DEF ToSet
<1>3. ASSUME NEW i \in DOMAIN file.modules, NEW j \in DOMAIN file.modules[i].classes
      PROVE  LET x == file.modules[i]
                 k == <<x.name, x.classes[j].name>>
             IN  k \in DOMAIN Load(file).classes /\ Load(file).classes[k] = CachedClass(x.name, x.classes[j])
    <2>1. PICK x, c : x = file.modules[i] /\ c = x.classes[j]
        OBVIOUS
    <2>2. PICK k : k = <<x.name, c.name>> /\ k[1] = x.name /\ k[2] = c.name
        <3>1. PICK key : key = <<x.name, c.name>>
            OBVIOUS
        <3>2. key[1] = x.name /\ key[2] = c.name
            BY <3>1
        <3> QED BY <3>1, <3>2
    <2>3. x \in ToSet(file.modules) /\ c \in ToSet(x.classes)
        BY <1>2, <1>3, <2>1
    <2>4. k \in keys
        BY <2>2, <2>3
    <2> DEFINE within == UNION {ToSet(y.classes) : y \in {z \in ToSet(file.modules) : z.name = k[1]}}
    <2>5. c \in within /\ c.name = k[2]
        BY <2>2, <2>3
    <2>6. ASSUME NEW d \in within, d.name = k[2] PROVE d = c
        <3>1. PICK y \in ToSet(file.modules) : y.name = k[1] /\ d \in ToSet(y.classes)
            BY <2>6
        <3>2. PICK l \in DOMAIN file.modules : file.modules[l] = y
            BY <1>2, <3>1
        <3>3. file.modules[l].name = file.modules[i].name
            BY <2>1, <2>2, <3>1, <3>2
        <3>4. l = i
            BY <3>3 DEF Exported
        <3>5. y = x
            BY <2>1, <3>2, <3>4
        <3>6. PICK h \in DOMAIN x.classes : x.classes[h] = d
            BY <1>2, <3>1, <3>5
        <3>7. ClassRow(x.classes)
            BY <2>1 DEF ClassRows
        <3>8. x.classes[h].name = x.classes[j].name
            BY <2>1, <2>2, <2>6, <3>6
        <3>9. h = j
            BY <1>3, <2>1, <3>7, <3>8 DEF ClassRow
        <3> QED BY <2>1, <3>6, <3>9
    <2>7. ClassOf(file, k) = CHOOSE d \in within : d.name = k[2]
        BY DEF ClassOf
    <2> HIDE DEF within
    <2>8. ClassOf(file, k) = c
        BY <2>5, <2>6, <2>7
    <2>9. k \in DOMAIN Load(file).classes /\ Load(file).classes[k] = CachedClass(k[1], ClassOf(file, k))
        <3> HIDE DEF keys
        <3> QED BY <1>1, <2>4
    <2> QED BY <2>1, <2>2, <2>8, <2>9
<1>4. ASSUME NEW k \in DOMAIN Load(file).classes
      PROVE  \E i \in DOMAIN file.modules : \E j \in DOMAIN file.modules[i].classes :
               k = <<file.modules[i].name, file.modules[i].classes[j].name>>
    <2>1. k \in keys
        <3> HIDE DEF keys
        <3> QED BY <1>1, <1>4
    <2>2. PICK x \in ToSet(file.modules) : k \in {<<x.name, c.name>> : c \in ToSet(x.classes)}
        BY <2>1
    <2>3. PICK c \in ToSet(x.classes) : k = <<x.name, c.name>>
        BY <2>2
    <2>4. PICK i \in DOMAIN file.modules : file.modules[i] = x
        BY <1>2, <2>2
    <2>5. PICK j \in DOMAIN x.classes : x.classes[j] = c
        BY <1>2, <2>3
    <2> QED BY <2>3, <2>4, <2>5
<1> QED BY <1>3, <1>4

DeclaredFields(m, c) == ToSet(NamedOnly(game.infos[m_cache[<<m, c>>].info].fields))

\* In the session the line of a class stands as the file has it.
LEMMA FileLine ==
  ASSUME ExportInv, CachedInv, ClassesInv, LineInv, phase = "done", export # << >>, cache = Load(export),
         NEW m, NEW n, <<m, n>> \in DOMAIN cache.classes, HasLine(<<m, n>>),
         \A c \in LineOf(Loaded(m).decl, n) : Loaded(m).decl[c].bases = << >> => DeclaredFields(m, c) # {}
  PROVE  /\ Chained(m, Loaded(m).decl, n)
         /\ \A c \in LineOf(Loaded(m).decl, n) : ToSet(cache.classes[<<m, c>>].fields) = DeclaredFields(m, c)
<1>1. PICK file, decl : file = export /\ decl = Loaded(m).decl
    OBVIOUS
<1>2. /\ Exported(file.modules) /\ ClassRows(file.modules) /\ AllCached(file.modules)
      /\ game \in Games /\ Taken(m_cache) /\ cache = Load(file)
    BY <1>1 DEF ExportInv, CachedInv, ClassesInv, LineInv
<1>3. PICK i \in DOMAIN file.modules : file.modules[i].name = m
    <2>1. PICK i \in DOMAIN file.modules : \E j \in DOMAIN file.modules[i].classes :
             <<m, n>> = <<file.modules[i].name, file.modules[i].classes[j].name>>
        BY <1>2, FileClasses
    <2> QED BY <2>1
<1>4. PICK classes : classes = file.modules[i].classes
    OBVIOUS
<1>5. ClassRow(classes) /\ IsCached(m, classes)
    BY <1>2, <1>3, <1>4 DEF ClassRows, AllCached
<1>6. /\ n \in DOMAIN decl
      /\ \A c \in LineOf(decl, n) : <<m, c>> \in DOMAIN m_cache /\ ReadableBases(decl, c)
    <2>1. <<m, n>>[1] = m /\ <<m, n>>[2] = n
        OBVIOUS
    <2> QED BY <1>1, <2>1 DEF HasLine
<1>7. m \in LoadedNames /\ Recovered(m_rtti_map, m)
    <2>1. <<m, n>> \in DOMAIN m_cache /\ <<m, n>>[1] = m
        <3>1. n \in LineOf(decl, n)
            BY <1>6 DEF LineOf
        <3> QED BY <1>6, <3>1
    <2>2. m \in ToSet(m_dumped_modules) /\ m \in LoadedNames
        BY <1>2, <2>1 DEF LineInv, Taken
    <2> QED BY <2>2 DEF LineInv
<1>8. /\ FirstBases(decl) /\ NoName \notin DOMAIN decl
      /\ \A c \in DOMAIN decl : decl[c].bases # << >> => c \notin LineOf(decl, decl[c].bases[1])
    BY <1>1, <1>2, <1>7, DeclIs
<1>9. n \in LineOf(decl, n) /\ LineOf(decl, n) \subseteq DOMAIN decl
    BY <1>6, <1>8, LineHas
<1>10. ASSUME NEW c \in LineOf(decl, n)
       PROVE  /\ <<m, c>> \in DOMAIN cache.classes /\ cache.classes[<<m, c>>].parent = ParentIn(decl, c)
              /\ cache.classes[<<m, c>>].fields \in Seq(ToSet(cache.classes[<<m, c>>].fields))
              /\ \A f \in ToSet(cache.classes[<<m, c>>].fields) : f.offset \in Nat
              /\ ToSet(cache.classes[<<m, c>>].fields) = DeclaredFields(m, c)
    <2>1. <<m, c>> \in DOMAIN m_cache /\ <<m, c>>[1] = m /\ <<m, c>>[2] = c
        BY <1>6
    <2>2. PICK j \in DOMAIN classes : classes[j].name = c
        BY <1>5, <2>1 DEF IsCached
    <2>3. PICK x : x = classes[j]
        OBVIOUS
    <2>4. RowShows(m, x) /\ x.name = c
        BY <1>5, <2>2, <2>3 DEF IsCached
    <2>5. PICK e \in ClassInfos : IsClass(x, e)
        BY <1>5, <2>3 DEF ClassRow
    <2>6. x.fields = NamedOnly(game.infos[e].fields) /\ e = m_cache[<<m, c>>].info
        BY <2>4, <2>5 DEF IsClass, RowShows
    <2>7. IsRow(x.fields) /\ \A f \in DOMAIN x.fields : x.fields[f].offset \in Nat
        BY <1>2, <2>5, ClassFields
    <2>8. x.fields \in Seq(ToSet(x.fields))
        <3> DEFINE all == game.infos[e].fields
                   S == {f \in ToSet(all) : f.name # Unprintable}
        <3>1. Len(all) \in Nat
            BY <1>2, FieldsAssumption DEF ClassInfos, IsRow
        <3>2. x.fields = Kept(all, S)
            BY <2>6 DEF NamedOnly
        <3> HIDE DEF all, S
        <3>3. PICK q : TakenFrom(q, x.fields, all, S, Len(all))
            BY <3>1, <3>2, KeptPlaces
        <3>4. x.fields \in Seq(S)
            BY <3>3 DEF TakenFrom
        <3>5. \A f \in DOMAIN x.fields : x.fields[f] \in ToSet(x.fields)
            BY DEF ToSet
        <3> QED BY <3>4, <3>5
    <2>9. x.parent = ParentIn(decl, c)
        <3>1. <<m, c>> \in DOMAIN m_rtti_map /\ m_rtti_map[<<m, c>>].parent = ParentIn(decl, c)
            BY <1>1, <1>6, <1>7, <1>9 DEF Recovered
        <3> QED BY <2>4, <3>1 DEF RowShows
    <2>10. <<m, c>> \in DOMAIN cache.classes /\ cache.classes[<<m, c>>] = CachedClass(m, x)
        BY <1>2, <1>3, <1>4, <2>2, <2>3, FileClasses
    <2>11. cache.classes[<<m, c>>].parent = x.parent /\ cache.classes[<<m, c>>].fields = x.fields
        BY <2>10 DEF CachedClass
    <2>12. \A f \in ToSet(x.fields) : f.offset \in Nat
        BY <2>7 DEF ToSet
    <2>13. ToSet(x.fields) = DeclaredFields(m, c)
        BY <2>6 DEF DeclaredFields
    <2> QED BY <2>8, <2>9, <2>10, <2>11, <2>12, <2>13
<1>11. Chained(m, decl, n)
    <2>1. \A c \in LineOf(decl, n) : decl[c].bases = << >> => ToSet(cache.classes[<<m, c>>].fields) # {}
        BY <1>1, <1>10
    <2> QED BY <1>6, <1>8, <1>9, <1>10, <2>1 DEF Chained
<1> QED BY <1>1, <1>10, <1>11

\* What is loaded is finite, and so are its modules.
LEMMA LoadedIsFinite ==
  ASSUME ExportInv, CachedInv, ClassesInv, LineInv, export # << >>, cache = Load(export)
  PROVE  IsFiniteSet(DOMAIN cache.classes) /\ cache.modules \in Seq(ToSet(cache.modules))
<1>1. PICK file : file = export
    OBVIOUS
<1>2. /\ Exported(file.modules) /\ ClassRows(file.modules) /\ AllCached(file.modules)
      /\ game \in Games /\ Taken(m_cache) /\ cache = Load(file)
    BY <1>1 DEF ExportInv, CachedInv, ClassesInv, LineInv
<1>3. DOMAIN cache.classes \subseteq DOMAIN m_cache
    <2> SUFFICES ASSUME NEW k \in DOMAIN cache.classes PROVE k \in DOMAIN m_cache
        OBVIOUS
    <2>1. PICK i \in DOMAIN file.modules : \E j \in DOMAIN file.modules[i].classes :
             k = <<file.modules[i].name, file.modules[i].classes[j].name>>
        BY <1>2, FileClasses
    <2>2. PICK j \in DOMAIN file.modules[i].classes : k = <<file.modules[i].name, file.modules[i].classes[j].name>>
        BY <2>1
    <2>3. RowShows(file.modules[i].name, file.modules[i].classes[j])
        BY <1>2 DEF AllCached, IsCached
    <2> QED BY <2>2, <2>3 DEF RowShows
<1>4. IsFiniteSet(DOMAIN cache.classes)
    BY <1>2, <1>3, CacheIsFinite, FS_Subset
<1>5. cache.modules \in Seq(ToSet(cache.modules))
    <2> DEFINE S == {x.name : x \in ToSet(file.modules)}
    <2>1. cache.modules = Kept(ModuleOrder, S)
        BY <1>2 DEF Load, InModuleOrder
    <2> HIDE DEF S
    <2>2. cache.modules \in Seq(S)
        BY <2>1, OrderAssumption, KeptOnceEach DEF OnceEach
    <2>3. \A i \in DOMAIN cache.modules : cache.modules[i] \in ToSet(cache.modules)
        BY DEF ToSet
    <2> QED BY <2>2, <2>3
<1> QED BY <1>4, <1>5

\* Once loaded, the session keeps what the file has.
SessionInv == cache # << >> => phase = "done" /\ export # << >> /\ cache = Load(export)

SessionNext ==
  \/ Next /\ UNCHANGED liveVars
  \/ LiveNext /\ UNCHANGED <<dumpVars, exeVars, genVars>>

LEMMA SessionInvStep ==
  IInv /\ SessionInv /\ [SessionNext]_<<dumpVars, exeVars, genVars, liveVars>> => SessionInv'
<1> SUFFICES ASSUME IInv, SessionInv, [SessionNext]_<<dumpVars, exeVars, genVars, liveVars>> PROVE SessionInv'
    OBVIOUS
<1>1. ASSUME UNCHANGED dumpVars, cache' = cache PROVE SessionInv'
    <2>1. phase' = phase /\ export' = export /\ \A file : Load(file)' = Load(file)
        BY <1>1 DEF dumpVars, workerVars
    <2> QED BY <1>1, <2>1 DEF SessionInv
<1>2. CASE Next /\ UNCHANGED liveVars
    <2>1. cache' = cache
        BY <1>2 DEF liveVars
    <2>2. CASE cache = << >>
        BY <2>1, <2>2 DEF SessionInv
    <2>3. CASE cache # << >>
        <3>1. ~ DumpNext
            BY <2>3 DEF SessionInv, DumpNext, PhaseSchema, PhaseRtti, PhaseGlobals, PhasePatterns,
                        PhaseReferences, WriteExport, ResolveRtti
        <3>2. UNCHANGED dumpVars
            BY <1>2, <3>1 DEF Next
        <3> QED BY <1>1, <2>1, <3>2
    <2> QED BY <2>2, <2>3
<1>3. CASE LiveNext /\ UNCHANGED <<dumpVars, exeVars, genVars>>
    <2>1. UNCHANGED dumpVars
        BY <1>3
    <2>2. CASE LoadCache
        <3>1. step = "done" /\ export # << >> /\ cache' = Load(export)
            BY <2>2 DEF LoadCache
        <3>2. phase = "done"
            BY <3>1 DEF IInv, Order
        <3>3. phase' = phase /\ export' = export
            BY <2>1 DEF dumpVars, workerVars
        <3> QED BY <3>1, <3>2, <3>3 DEF SessionInv
    <2>3. ASSUME ProbeEntityConfig \/ EntityList PROVE cache' = cache
        BY <2>3 DEF ProbeEntityConfig, EntityList
    <2>4. ASSUME NEW t \in Threads, LookUp(t) PROVE cache' = cache
        BY <2>4, Zenon DEF LookUp
    <2>5. ASSUME NEW t \in Threads, Walk(t) PROVE cache' = cache
        BY <2>5, Zenon DEF Walk
    <2>6. ASSUME NEW t \in Threads, NEW q \in Requests, ReadObject(t, q) PROVE cache' = cache
        BY <2>6, Zenon DEF ReadObject
    <2>7. LoadCache \/ cache' = cache
        BY <1>3, <2>3, <2>4, <2>5, <2>6, Zenon DEF LiveNext
    <2> QED BY <1>1, <2>1, <2>2, <2>7
<1>4. CASE UNCHANGED <<dumpVars, exeVars, genVars, liveVars>>
    <2>1. UNCHANGED dumpVars /\ UNCHANGED liveVars
        BY <1>4
    <2> QED BY <1>1, <2>1 DEF liveVars
<1> QED BY <1>2, <1>3, <1>4 DEF SessionNext

\* A session is a behaviour of the dump, of the exe and of the generators.
LEMMA SessionIsRun == LiveSpec => Spec
<1>1. [SessionNext]_<<dumpVars, exeVars, genVars, liveVars>> => [Next]_<<dumpVars, exeVars, genVars>>
    BY DEF SessionNext
<1> QED BY <1>1, PTL DEF LiveSpec, Spec, SessionNext

LEMMA LiveFlatRight ==
  ASSUME ExportInv, CachedInv, ClassesInv, LineInv, SessionInv PROVE LiveFlatIsDeclared
<1> SUFFICES ASSUME cache # << >>, NEW k \in DOMAIN cache.classes, HasLine(k),
                    \A c \in LineOf(Loaded(k[1]).decl, k[2]) :
                      Loaded(k[1]).decl[c].bases = << >> => DeclaredFields(k[1], c) # {}
             PROVE  ToSet(flat_fields(k[1], k[2])) = UNION {DeclaredFields(k[1], c) : c \in LineOf(Loaded(k[1]).decl, k[2])}
    BY DEF LiveFlatIsDeclared, DeclaredFields
<1>1. phase = "done" /\ export # << >> /\ cache = Load(export)
    BY DEF SessionInv
<1>2. PICK m, n : k = <<m, n>> /\ k[1] = m /\ k[2] = n
    <2>1. PICK i \in DOMAIN export.modules : \E j \in DOMAIN export.modules[i].classes :
             k = <<export.modules[i].name, export.modules[i].classes[j].name>>
        BY <1>1, FileClasses DEF ExportInv, ClassesInv
    <2>2. PICK m, n : k = <<m, n>>
        BY <2>1
    <2>3. k[1] = m /\ k[2] = n
        BY <2>2
    <2> QED BY <2>2, <2>3
<1>3. /\ Chained(m, Loaded(m).decl, n)
      /\ \A c \in LineOf(Loaded(m).decl, n) : ToSet(cache.classes[<<m, c>>].fields) = DeclaredFields(m, c)
    BY <1>1, <1>2, FileLine
<1>4. IsFiniteSet(DOMAIN cache.classes) /\ cache.modules \in Seq(ToSet(cache.modules))
    BY <1>1, LoadedIsFinite
<1>5. PICK decl, flat : decl = Loaded(m).decl /\ flat = flat_fields(m, n)
    OBVIOUS
<1>6. Whole(flat, m, decl, n)
    BY <1>3, <1>4, <1>5, LiveFlatIs
<1>7. ToSet(flat) = UNION {DeclaredFields(m, c) : c \in LineOf(decl, n)}
    BY <1>3, <1>5, <1>6 DEF Whole, FieldsAlong
<1> QED BY <1>2, <1>5, <1>7

(* The fields that a live session reads of a class that has its line of bases in
   its own module are those of the whole line, whichever module has others under
   the same names, and however many modules lie before it.                     *)
THEOREM LiveFlatStaysDeclared == LiveSpec => []LiveFlatIsDeclared
<1>1. LiveSpec => [](IInv /\ FInv /\ ClassInv /\ FlatInv)
    BY SessionIsRun, FlatInductive, PTL
<1>2. Init /\ LiveInit => SessionInv
    BY DEF LiveInit, SessionInv
<1>3. IInv /\ FInv /\ ClassInv /\ FlatInv /\ SessionInv => LiveFlatIsDeclared
    BY LiveFlatRight DEF FInv, ClassInv, FlatInv
<1> QED BY <1>1, <1>2, <1>3, SessionInvStep, PTL DEF LiveSpec, SessionNext
=============================================================================
