------------------------------ MODULE Scanners ------------------------------
(* The scanners the worker runs over the loaded modules after the schema and
   the RTTI: src/global-scanner.cpp, src/pattern-scanner.cpp,
   src/interface-scanner.cpp and src/string-scanner.cpp.  Each is a function of
   the memory it looks at.                                                    *)
EXTENDS Naturals, Sequences, SequencesExt, FiniteSets

CONSTANTS
  Wildcard,      \* "?" of a pattern
  AnyGame,       \* an entry of patterns.json without a "game"
  UnknownGame,   \* the name of the game when none was detected
  MaxEntries,    \* 4096, the most nodes of an interface list that are followed
  MaxXrefs,      \* 100
  RvaModulus     \* 2^32: an rva is a u32

Lowest(S) == CHOOSE i \in S : \A j \in S : i <= j

-----------------------------------------------------------------------------
(* globals::scan.  A word of a writable section is a vtable (the object lies
   right here), a pointer to an object (whose first word is a vtable), or
   neither; a vtable is named by the <<module, class>> it belongs to.        *)

\* Modules with a vtable in the map of RTTI classes; they are the ones scanned.
WithVtables(rtti) == {k[1] : k \in {x \in DOMAIN rtti : rtti[x].vtable # 0}}

\* The classes of vtable_to_class whose vtable is the one a word leads to.
Matches(rtti, word) ==
  word.to \in {"vtable", "object"} /\ word.class \in DOMAIN rtti /\ rtti[word.class].vtable # 0

\* The rva of the vtable is looked up under the module that is scanned, not
\* under the one the vtable belongs to.
VtableUnder(rtti, m, class) ==
  IF <<m, class>> \in DOMAIN rtti THEN rtti[<<m, class>>].vtable ELSE 0

\* Variant: an object found in place hides the pointer to one.
ScanWordOnce(rtti, schema, m, words, found, i) ==
  LET class == words[i].class[2]
  IN  IF ~Matches(rtti, words[i]) \/ \E j \in DOMAIN found : found[j].class = class THEN found
      ELSE Append(found, [class |-> class, rva |-> i, vtable |-> VtableUnder(rtti, m, class),
                          pointer |-> words[i].to = "object", schema |-> class \in schema])

\* One word: an entry unless the class has one of the same kind already.
ScanWord(rtti, schema, m, words, found, i) ==
  LET class   == words[i].class[2]
      pointer == words[i].to = "object"
      known   == \E j \in DOMAIN found : found[j].class = class /\ found[j].pointer = pointer
  IN  IF ~Matches(rtti, words[i]) \/ known THEN found
      ELSE Append(found, [class |-> class, rva |-> i, vtable |-> VtableUnder(rtti, m, class),
                          pointer |-> pointer, schema |-> class \in schema])

\* The words of a module one after another.
ScanWords(rtti, schema, m, words) ==
  LET found[i \in 0..Len(words)] ==
        IF i = 0 THEN << >> ELSE ScanWord(rtti, schema, m, words, found[i - 1], i)
  IN  found[Len(words)]

ScanGlobals(rtti, schema, data) ==
  [m \in WithVtables(rtti) \cap DOMAIN data |-> ScanWords(rtti, schema, m, data[m])]

-----------------------------------------------------------------------------
(* pattern::resolve_all over the code of the modules. *)

\* find_pattern: the first position where every byte that counts agrees, or 0.
find_pattern(mem, pat) ==
  LET at == {i \in 1..(Len(mem) + 1 - Len(pat)) :
               \A j \in DOMAIN pat : pat[j] \in {Wildcard, mem[i + j - 1]}}
  IN  IF pat = << >> \/ at = {} THEN 0 ELSE Lowest(at)

\* scan_rip_relative: the displacement counts from the end of its four bytes,
\* one cell here, and the result is a 32-bit rva; 0 when the pattern is absent.
scan_rip_relative(mem, pat, rip) ==
  LET at == find_pattern(mem, pat)
  IN  IF at = 0 THEN 0 ELSE (at + rip + 1 + mem[at + rip]) % RvaModulus

\* scan_extract_u32: the value that lies inside the match.
scan_extract_u32(mem, pat, extract) ==
  LET at == find_pattern(mem, pat) IN IF at = 0 THEN 0 ELSE mem[at + extract]

\* Entries of another game are passed over, unless the game is not known.
ForGame(e, active) == active = UnknownGame \/ e.game \in {AnyGame, active}

\* What an entry resolves to, given what the entries before it did: nothing when
\* its module is not loaded, its pattern absent or its base unknown.  A field
\* of 0 counts as absent too.
Resolve(e, code, rvas) ==
  IF e.module \notin DOMAIN code THEN {}
  ELSE IF e.mode = "rip" THEN {scan_rip_relative(code[e.module], e.pattern, e.offset)} \ {0}
  ELSE IF e.from \notin DOMAIN rvas THEN {}
  ELSE {(rvas[e.from] + field) % RvaModulus :
          field \in {scan_extract_u32(code[e.module], e.pattern, e.offset)} \ {0}}

\* Entry i: its result, and its rva for those that are derived from it.
ResolveEntry(cfg, code, st, i) ==
  LET name  == cfg[i].name
      found == Resolve(cfg[i], code, st.rvas)
  IN  [rvas    |-> IF found = {} THEN st.rvas
                   ELSE [n \in DOMAIN st.rvas \cup {name} |->
                           IF n = name THEN CHOOSE rva \in found : TRUE ELSE st.rvas[n]],
       results |-> [k \in DOMAIN st.results \cup {i} |-> IF k = i THEN found ELSE st.results[k]]]

\* One pass over the entries of the given modes, in the order of the file.
Pass(cfg, active, modes, code, start) ==
  LET st[i \in 0..Len(cfg)] ==
        IF i = 0 THEN start
        ELSE IF cfg[i].mode \in modes /\ ForGame(cfg[i], active)
             THEN ResolveEntry(cfg, code, st[i - 1], i) ELSE st[i - 1]
  IN  st[Len(cfg)]

Unresolved == [rvas |-> << >>, results |-> << >>]

\* Variant: one pass over all of them.
resolve_in_order(cfg, active, code) ==
  Pass(cfg, active, {"rip", "derived"}, code, Unresolved).results

\* resolve_all: first the entries with a pattern of their own, then the derived
\* ones; per entry of the file what it resolved to.
resolve_all(cfg, active, code) ==
  Pass(cfg, active, {"derived"}, code, Pass(cfg, active, {"rip"}, code, Unresolved)).results

-----------------------------------------------------------------------------
(* interfaces::scan.  A module's list is a function from nodes to [name, next];
   node 0 is the null pointer and an unreadable node is outside the domain.  *)

\* walk_interface_list: nodes without a usable name are passed over, a node
\* that cannot be read ends the walk, and so does the bound.
walk_interface_list(list, head) ==
  LET node[k \in Nat] == IF k = 0 THEN head
                         ELSE IF node[k - 1] \in DOMAIN list THEN list[node[k - 1]].next ELSE 0
      visited == {k \in 0..(MaxEntries - 1) : \A j \in 0..k : node[j] \in DOMAIN list}
      walk == [k \in 1..Cardinality(visited) |-> node[k - 1]]
  IN  [k \in DOMAIN SelectSeq(walk, LAMBDA n : list[n].usable) |->
         list[SelectSeq(walk, LAMBDA n : list[n].usable)[k]].name]

\* find_interface_list_head and interfaces::scan: modules with the export and a
\* list head in its first bytes.
ScanInterfaces(lists) ==
  LET walked == [m \in {x \in DOMAIN lists : lists[x].head # 0} |->
                   walk_interface_list(lists[m].nodes, lists[m].head)]
  IN  [m \in {x \in DOMAIN walked : walked[x] # << >>} |-> walked[m]]

-----------------------------------------------------------------------------
(* strings::scan.  A candidate has a category, what its text names (<<class,
   method>> or << >>), the class it is taken for and the functions that refer
   to it.                                                                    *)

\* build_results: what no code refers to is dropped; a class is associated only
\* when RTTI knows it, and a convar never.
build_results(candidates, rtti_class_names) ==
  LET kept == SelectSeq(candidates, LAMBDA c : c.xrefs # << >>)
  IN  [i \in DOMAIN kept |->
         [text |-> kept[i].text, category |-> kept[i].category,
          xrefs |-> SubSeq(kept[i].xrefs, 1, IF Len(kept[i].xrefs) < MaxXrefs
                                             THEN Len(kept[i].xrefs) ELSE MaxXrefs),
          class |-> {kept[i].class} \cap rtti_class_names]]

ScanStrings(candidates, rtti_class_names) ==
  LET found == [m \in DOMAIN candidates |-> build_results(candidates[m], rtti_class_names)]
  IN  [m \in {x \in DOMAIN found : found[x] # << >>} |-> found[m]]
=============================================================================
