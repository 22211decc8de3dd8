----------------------------- MODULE Generators -----------------------------
(* The rest of main(): the optional generators behind the text files.  Each gives
   the modules to a pool of threads that take the next one from an atomic
   counter, and goes on when all threads have been joined: analyze_members(),
   generate_signatures(), generate_sdk() and generate_internal_sdk().         *)
EXTENDS ExeOutput, MemberLayouts, InternalSdk

CONSTANTS
  HwThreads,       \* std::thread::hardware_concurrency()
  Options,         \* the sets of options to start with, of the names in Jobs
  Unspeakable      \* class names that sanitize_cpp_identifier makes empty

\* Where hardware_concurrency() is unknown each generator uses a number of its own.
ASSUME ThreadsAssumption == HwThreads \in Nat \ {0}

\* A module has finitely many functions; of each the same number of cells is read,
\* and the bytes are those of its instructions.
ASSUME BytesAssumption ==
  \A g \in Games : \A i \in DOMAIN g.loaded :
    LET text == g.loaded[i].text
    IN  /\ IsFiniteSet(DOMAIN text) /\ DOMAIN text \subseteq Nat
        /\ \A f \in DOMAIN text : /\ text[f].raw \in [1..FUNC_BYTES_SIZE -> Nat \ {Masked}]
                                  /\ text[f].bytes \in Seq(Byte)
                                  /\ Assembled(text[f].bytes, text[f].code)

\* Sizes and offsets are numbers, and in C++ a class has a field of a name once;
\* no field bears the name of the padding.
ASSUME FieldsAssumption ==
  \A g \in Games : \A e \in DOMAIN g.infos :
    LET fields == g.infos[e].fields
    IN  /\ g.infos[e].size \in Nat /\ IsRow(fields)
        /\ \A i \in DOMAIN fields :
             fields[i].offset \in Nat /\ fields[i].size \in Nat /\ fields[i].name # "_pad"
        /\ \A i, j \in DOMAIN fields :
             fields[i].name = fields[j].name => i = j \/ fields[i].name = Unprintable

VARIABLES
  opts,            \* gen_layouts, gen_signatures, gen_sdk, gen_internal_sdk
  pool,            \* the running pool, or Idle
  member_layouts,  \* module -> class -> offset -> what accesses it
  signatures,      \* module -> its entries
  sdk,             \* what generate_sdk wrote
  internal_sdk,    \* the results of process_module
  rva_index        \* of build_vfunc_map, while the internal SDK is written

genVars == <<opts, pool, member_layouts, signatures, sdk, internal_sdk, rva_index>>

Jobs == <<"layouts", "signatures", "sdk", "internal_sdk">>
Idle == [running |-> FALSE]
NoSdk == [modules |-> {}, includes |-> {}, vtables |-> {}, rtti |-> {}]
NextStep == [layouts |-> "trees", signatures |-> "sdk", sdk |-> "internal_sdk", internal_sdk |-> "done"]

-----------------------------------------------------------------------------
\* The modules a job gives to its pool.
Work(job) ==
  {i \in DOMAIN modules : job \in {"layouts", "signatures"} => export.modules[i].vtables # {}}

ClassLookup == [n \in DOMAIN global_class_lookup |-> At(modules, global_class_lookup[n])]

\* What the task of a module yields.
Task(job, i) ==
  CASE job = "layouts"      -> LayoutsOf(export.modules[i].vtables)
    [] job = "signatures"   -> process_module(export.modules[i].vtables)
    [] job = "sdk"          -> process_sdk_module(modules, ClassLookup, i)
    [] job = "internal_sdk" -> process_internal_module(modules, export.modules, ClassLookup,
                                 export.refs.strings, member_layouts, rva_index, i)

\* main() passes over a generator that was not asked for, or that has no work.
Skip(job) ==
  /\ step = job /\ ~pool.running
  /\ job \notin opts \/ Work(job) = {}
  /\ step' = NextStep[job]
  /\ UNCHANGED <<modules, global_class_lookup, emitted, flattened, trees, genVars>>

\* One thread at least is started, and no more than there are modules; the
\* internal SDK builds its index of functions first.
Workers(job) == {t \in 1..HwThreads : t = 1 \/ t <= Cardinality(Work(job))}

Start(job) ==
  /\ step = job /\ ~pool.running
  /\ job \in opts /\ Work(job) # {}
  /\ pool' = [running |-> TRUE, left |-> Work(job), alive |-> Workers(job),
              held |-> [t \in 1..HwThreads |-> {}], results |-> << >>]
  /\ rva_index' \in IF job = "internal_sdk" THEN RvaIndexes(export.modules) ELSE {rva_index}
  /\ UNCHANGED <<exeVars, opts, member_layouts, signatures, sdk, internal_sdk>>

\* A thread that has nothing in hand takes the next module from the atomic
\* counter, and ends when there is none.
Take(t) ==
  /\ pool.running /\ t \in pool.alive
  /\ pool.held[t] = {}
  /\ \/ \E i \in pool.left :
          /\ \A j \in pool.left : i <= j
          /\ pool' = [pool EXCEPT !.left = @ \ {i}, !.held[t] = {i}]
     \/ /\ pool.left = {}
        /\ pool' = [pool EXCEPT !.alive = @ \ {t}]
  /\ UNCHANGED <<exeVars, opts, member_layouts, signatures, sdk, internal_sdk, rva_index>>

\* The result goes into the slot of the module, or under its name with the mutex.
Store(t) ==
  /\ pool.running /\ t \in pool.alive
  /\ \E i \in pool.held[t] :
       LET results == [j \in {i} \cup DOMAIN pool.results |->
                         IF j = i THEN Task(step, i) ELSE pool.results[j]]
       IN  pool' = [pool EXCEPT !.results = results, !.held[t] = {}]
  /\ UNCHANGED <<exeVars, opts, member_layouts, signatures, sdk, internal_sdk, rva_index>>

\* Variant: main goes on when the last module has been taken.
AllTaken == pool.left = {}

\* join() on every thread.
AllJoined == pool.alive = {}

Results == {pool.results[i] : i \in DOMAIN pool.results}

\* Those of the results that are not the empty one, by the name of the module.
ByName(empty) ==
  LET kept == {i \in DOMAIN pool.results : pool.results[i] # empty}
  IN  [m \in {modules[i].name : i \in kept} |->
         pool.results[CHOOSE i \in kept : modules[i].name = m]]

Join ==
  /\ pool.running /\ AllJoined
  /\ member_layouts' = IF step = "layouts" THEN ByName(<< >>) ELSE member_layouts
  /\ signatures'     = IF step = "signatures" THEN ByName({}) ELSE signatures
  /\ sdk'            = IF step # "sdk" THEN sdk
                       ELSE [modules  |-> Results,
                             includes |-> MasterIncludes(Results),
                             vtables  |-> generate_all_vtables(export.modules, Unspeakable),
                             rtti     |-> generate_rtti_layouts(member_layouts, modules, Unspeakable)]
  /\ internal_sdk'   = IF step = "internal_sdk" THEN Results ELSE internal_sdk
  /\ pool' = Idle
  /\ step' = NextStep[step]
  /\ UNCHANGED <<modules, global_class_lookup, emitted, flattened, trees, opts, rva_index>>

GenInit ==
  /\ opts \in Options
  /\ pool = Idle
  /\ member_layouts = << >>
  /\ signatures = << >>
  /\ sdk = NoSdk
  /\ internal_sdk = {}
  /\ rva_index = << >>

GenNext ==
  \/ \E job \in ToSet(Jobs) : Skip(job) \/ Start(job)
  \/ \E t \in 1..HwThreads : Take(t) \/ Store(t)
  \/ Join

\* From the start of the worker to the end of main().
Init == DumpInit /\ ExeInit /\ GenInit
Next ==
  \/ DumpNext /\ UNCHANGED <<exeVars, genVars>>
  \/ ExeNext /\ UNCHANGED <<dumpVars, genVars>>
  \/ GenNext /\ UNCHANGED dumpVars
Spec == Init /\ [][Next]_<<dumpVars, exeVars, genVars>>
-----------------------------------------------------------------------------
\* While a pool runs each of its modules is left, in the hands of exactly one
\* thread, or done; and when the threads have ended none is left.
PoolBooks ==
  pool.running =>
    /\ step \in ToSet(Jobs) /\ phase = "done"
    /\ pool.left \subseteq Work(step) /\ DOMAIN pool.results \subseteq Work(step)
    /\ \A t \in pool.alive : pool.held[t] \subseteq Work(step)
    /\ \A i \in Work(step) : \/ i \in pool.left \cup DOMAIN pool.results
                            \/ \E t \in pool.alive : i \in pool.held[t]
    /\ pool.left \cap DOMAIN pool.results = {}
    /\ \A t \in pool.alive : pool.held[t] \cap (pool.left \cup DOMAIN pool.results) = {}
    /\ \A t \in pool.alive : \A i \in pool.held[t] : pool.held[t] = {i}
    /\ \A t, u \in pool.alive : t # u => pool.held[t] \cap pool.held[u] = {}
    /\ AllJoined => pool.left = {}

\* When a generator is done every module it had work for has its result.
Complete(job, S) == {modules[i].name : i \in Work(job)} \subseteq S

PoolsComplete ==
  /\ step = "sdk" /\ "signatures" \in opts =>
       \A i \in Work("signatures") :
         Candidates(export.modules[i].vtables) # {} => modules[i].name \in DOMAIN signatures
  /\ step = "internal_sdk" /\ "sdk" \in opts => Complete("sdk", {r.module : r \in sdk.modules})
  /\ step = "done" /\ "internal_sdk" \in opts /\ modules # << >> =>
       Complete("internal_sdk", {r.module : r \in internal_sdk})

\* A signature that is said to be unique identifies its function among the
\* virtual functions of the module and is the shortest that does ("trimmed to
\* shortest unique prefix", generate-signatures.cpp:601).
SignaturesIdentify ==
  \A i \in DOMAIN modules :
    modules[i].name \in DOMAIN signatures =>
      Identify(signatures[modules[i].name], export.modules[i].vtables)

\* The functions of a class in the export, and what the analysis reports of one.
FunctionsOf(i, class) == (CHOOSE v \in export.modules[i].vtables : v.class = class).functions

ReportedOf(layout, k) == {o \in DOMAIN layout : k \in layout[o].funcs}

\* The members of a function that the analysis reads off its bytes are those its
\* instructions access through this on their way to the first jump, return or
\* unknown opcode, when all on that way are ones the analysis follows: decoded
\* one byte off, or with a register taken for this that no longer is, the offsets
\* would be others ("The dest register now holds derived data, not `this`
\* anymore", analyze-members.cpp:498).
MembersAsExecuted ==
  \A i \in DOMAIN modules :
    modules[i].name \in DOMAIN member_layouts =>
      LET layouts == member_layouts[modules[i].name]
      IN  \A c \in DOMAIN layouts : \A k \in DOMAIN FunctionsOf(i, c) :
            LET f    == FunctionsOf(i, c)[k]
                code == Loaded(modules[i].name).text[f.rva].code
            IN  AllFollowed(f.bytes, code) /\ ~is_stub(f.bytes) =>
                  ReportedOf(layouts[c], k) = MembersAccessed(f.bytes, code)

\* The header of a parent in the same module that a header includes was written
\* too, for --sdk when every class of that name has fields.
IncludedIsWritten ==
  LET Written(results) == UNION {DOMAIN r.headers : r \in results}
      Own(r, path) == \E p \in Slots(modules) : modules[p[1]].name = r.module /\ At(modules, p).name = path[3]
  IN  \A results \in {sdk.modules, internal_sdk} : \A r \in results : \A path \in DOMAIN r.headers :
        \A inc \in r.headers[path] :
          /\ Own(r, inc)
          /\ results = sdk.modules => \A p \in Named(modules, inc[3]) : Useful(At(modules, p))
          => inc \in Written(results)

\* A compiler reads the headers of --sdk: a struct stands on the one in the header
\* that its own includes, which the guards, made of the names of the classes, must
\* not keep from being read.
SdkPaths == UNION {DOMAIN r.headers : r \in sdk.modules}
WrittenBy(path) == CHOOSE r \in sdk.modules : path \in DOMAIN r.headers
IncludedBy(path) == WrittenBy(path).headers[path]

ClassAt(path) ==
  CHOOSE c \in {At(modules, p) : p \in {q \in Slots(modules) : modules[q[1]].name = path[1]}} : c.name = path[3]

IncludedSize(path) == IF IncludedBy(path) = {} THEN 0 ELSE ClassAt(CHOOSE inc \in IncludedBy(path) : TRUE).size

AssertsOfHeader(path) == AssertsOf(IncludedSize(path), WrittenBy(path).structs[path], ClassAt(path))

\* The headers read for one of them, itself among them.
ReadFor(path) ==
  LET read[k \in 0..Cardinality(SdkPaths)] ==
        IF k = 0 THEN {path}
        ELSE read[k - 1] \cup UNION {IncludedBy(p) : p \in read[k - 1] \cap SdkPaths}
  IN  {path} \cup read[Cardinality(SdkPaths)]

Compiles(path) ==
  /\ ReadFor(path) \subseteq SdkPaths
  /\ \E p \in ReadFor(path) : IncludedBy(p) = {}
  /\ \A p, q \in ReadFor(path) : p[3] = q[3] => p = q
  /\ \A p \in ReadFor(path) : AssertsOfHeader(p)

\* There is no doubt about the base: the parent is found under its own name, all
\* classes of that name have the same size, and what is included compiles.
BaseIsSure(path) ==
  LET c == ClassAt(path)
  IN  /\ c.parent \in DOMAIN ClassLookup =>
           /\ ClassLookup[c.parent].name = c.parent
           /\ \A p \in Named(modules, c.parent) : At(modules, p).size = ClassLookup[c.parent].size
           /\ ClassLookup[c.parent].size <= c.size
      /\ \A inc \in IncludedBy(path) : Compiles(inc) /\ \A p \in ReadFor(inc) : p[3] # path[3]

\* The headers of --sdk satisfy the static_asserts that are written into them, as
\* far as it is up to the members of the class itself.
AssertsHold == \A path \in SdkPaths : BaseIsSure(path) => AssertsOfHeader(path)

\* They do at least for a class whose fields lie inside it and are declared with
\* the size the schema gives, whatever the gaps between them and however many of
\* them share a place: the offsets are those of the struct that the compiler
\* lays out behind the one it includes.
PlainAssertsHold ==
  \A path \in SdkPaths :
    LET c == ClassAt(path)
    IN  /\ BaseIsSure(path)
        /\ \A f \in ToSet(c.fields) : /\ f.kind # "bits"
                                      /\ f.size = schema_to_cpp_type(all_enums(modules), f)
                                      /\ f.size > 0 /\ f.offset + f.size <= c.size
        => AssertsOfHeader(path)
=============================================================================
