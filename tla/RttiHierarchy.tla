--------------------------- MODULE RttiHierarchy ---------------------------
(* build_rtti_hierarchy() of src/rtti-hierarchy.cpp: the four passes over the
   image of one loaded module that recover its classes, their bases and their
   vtables from the run-time type information of the compiler.

   The image of a module is a record
     tds       the clean name of each type descriptor, Garbage for bytes that
               only look like one (two descriptors may share a name: demangle
               stops at the first "@@", which ends template arguments too)
     cols      the complete object locators, in the order of their addresses
     bases     per hierarchy descriptor its base class array: type descriptors,
               or BadEntry for an entry that leads out of the image
     rdata     the words of .rdata in order: a locator (ToCol), a function in
               .text (ToText), or something else
     sections  whether the section table names .text and .rdata             *)
EXTENDS Naturals, Sequences, SequencesExt, FiniteSets, Rows

CONSTANTS
  Garbage,              \* a name that is no printable text
  NoName,               \* std::string{} in InheritanceInfo::parent
  BadEntry,             \* a base class descriptor outside the image
  MaxBases,             \* 64, the longest base class array accepted
  MAX_VTABLE_ENTRIES    \* 512

ASSUME LimitsAssumption == MaxBases \in Nat /\ MAX_VTABLE_ENTRIES \in Nat

ToCol(i)  == [to |-> "col", at |-> i]
ToText(f) == [to |-> "text", at |-> f]
Elsewhere == [to |-> "other", at |-> 0]

-----------------------------------------------------------------------------
\* Pass 1: the descriptors whose name is printable and ends in "@@".
TypeDescriptors(img) ==
  [td \in {t \in DOMAIN img.tds : img.tds[t] # Garbage} |-> img.tds[td]]

\* Passes 2 and 4: a locator counts when its signature and self_rva are right
\* and its descriptor is known.
KnownCol(img, c) == c.valid /\ c.td \in DOMAIN TypeDescriptors(img)

\* Pass 3: the array of bases is read only when it is not empty, not too long
\* and inside the image.
UsableHierarchy(img, h) ==
  h \in DOMAIN img.bases /\ Len(img.bases[h]) \in 1..MaxBases

\* Pass 3: entries that lead nowhere are left out of the chain; the parent is
\* whatever the second entry names.
Hierarchy(img, h) ==
  LET names == TypeDescriptors(img)
      array == img.bases[h]
      known == Kept(array, DOMAIN names)
  IN  [chain  |-> [i \in DOMAIN known |-> names[known[i]]],
       parent |-> IF Len(array) > 1 /\ array[2] \in DOMAIN names
                  THEN names[array[2]] ELSE NoName,
       vtable |-> 0, funcs |-> << >>]

\* Pass 3: the first locator of a class decides.
FirstColOf(img, class) ==
  LET usable == {i \in DOMAIN img.cols :
                   /\ KnownCol(img, img.cols[i])
                   /\ TypeDescriptors(img)[img.cols[i].td] = class
                   /\ UsableHierarchy(img, img.cols[i].hierarchy)}
  IN  IF usable = {} THEN 0 ELSE CHOOSE i \in usable : \A j \in usable : i <= j

Inheritance(img) ==
  LET classes == {c \in {TypeDescriptors(img)[td] : td \in DOMAIN TypeDescriptors(img)} :
                    FirstColOf(img, c) # 0}
  IN  [c \in classes |-> Hierarchy(img, img.cols[FirstColOf(img, c)].hierarchy)]

\* Pass 4: the slots after position i of .rdata up to the first that does not
\* point into .text.
VtableFrom(img, i) ==
  LET stops == {j \in (i + 1)..Len(img.rdata) : img.rdata[j].to # "text"}
      end   == IF stops = {} THEN Len(img.rdata)
               ELSE (CHOOSE j \in stops : \A k \in stops : j <= k) - 1
      upto  == IF end - i < MAX_VTABLE_ENTRIES THEN end - i ELSE MAX_VTABLE_ENTRIES
  IN  [k \in 1..upto |-> img.rdata[i + k].at]

\* Variant: the vtables of further bases count too.
AnyVtableAt(img, i) == img.rdata[i].to = "col" /\ KnownCol(img, img.cols[img.rdata[i].at])

\* Pass 4: a word of .rdata that points at the locator of a primary vtable.
PrimaryAt(img, i) ==
  /\ img.rdata[i].to = "col"
  /\ LET c == img.cols[img.rdata[i].at] IN KnownCol(img, c) /\ c.offset = 0

\* Pass 4: the first non-empty vtable of a class is kept.
WithVtable(img, info, i) ==
  LET class == TypeDescriptors(img)[img.cols[img.rdata[i].at].td]
      funcs == VtableFrom(img, i)
  IN  IF funcs = << >> \/ class \notin DOMAIN info \/ info[class].vtable # 0
      THEN info
      ELSE [info EXCEPT ![class].vtable = i + 1, ![class].funcs = funcs]

build_rtti_hierarchy(img) ==
  LET upto[i \in 0..Len(img.rdata)] ==
        IF i = 0 THEN Inheritance(img)
        ELSE IF PrimaryAt(img, i) THEN WithVtable(img, upto[i - 1], i) ELSE upto[i - 1]
  IN  IF img.sections THEN upto[Len(img.rdata)] ELSE Inheritance(img)

-----------------------------------------------------------------------------
(* What the compiler writes for a set of declared classes: one hierarchy array
   per class, a depth-first walk of its bases, one locator and one vtable per
   base that has its own vtable.  The order in memory is the linker's.       *)

\* The depth-first walk of the classes below c.
Preorder(decl, class) ==
  LET depth == Cardinality(DOMAIN decl)
      walk[k \in 0..depth] ==
        IF k = 0 THEN [c \in DOMAIN decl |-> <<c>>]
        ELSE [c \in DOMAIN decl |->
                <<c>> \o Joined([i \in DOMAIN decl[c].bases |-> walk[k - 1][decl[c].bases[i]]])]
  IN  walk[depth][class]

\* decl[c] has the direct bases in the order of their declaration, the functions
\* of the primary vtable (functions) and those of the vtable of a second base
\* (further).  The locators: offset 0 for the primary vtable, another for the
\* vtable of each further direct base.
ColsOf(decl) ==
  {col \in [td : DOMAIN decl, offset : {0, 1}, hierarchy : DOMAIN decl, valid : {TRUE}] :
     col.hierarchy = col.td /\ (col.offset = 1 => Len(decl[col.td].bases) >= 2)}

\* The image when the linker puts the locators in the order cols and writes
\* the vtables in the order vts (a permutation of the positions of cols).
Compiled(decl, cols, vts) ==
  [tds      |-> [c \in DOMAIN decl |-> c],
   cols     |-> cols,
   bases    |-> [c \in DOMAIN decl |-> Preorder(decl, c)],
   rdata    |-> FlattenSeq([k \in DOMAIN vts |->
                  <<ToCol(vts[k])>> \o
                  (LET d  == decl[cols[vts[k]].td]
                       fs == IF cols[vts[k]].offset = 0 THEN d.functions ELSE d.further
                   IN  [f \in DOMAIN fs |-> ToText(fs[f])])]),
   sections |-> TRUE]

\* Word i of .rdata points at the locator of the primary vtable of c, and behind
\* it stand the functions of c and then no other.
IsPrimaryVtable(decl, img, c, i) ==
  LET n == Len(decl[c].functions)
  IN  /\ img.rdata[i].to = "col"
      /\ img.cols[img.rdata[i].at].td = c /\ img.cols[img.rdata[i].at].offset = 0
      /\ i + n <= Len(img.rdata)
      /\ \A f \in 1..n : img.rdata[i + f] = ToText(decl[c].functions[f])
      /\ i + n < Len(img.rdata) => img.rdata[i + n + 1].to # "text"

\* The class, its first base, the first base of that, and so on.
LineOf(decl, class) ==
  {c \in DOMAIN decl : \A S \in SUBSET DOMAIN decl :
     class \in S /\ (\A d \in S : decl[d].bases # << >> => decl[d].bases[1] \in S) => c \in S}

\* What a compiler and a linker may make of the declared classes, which have a
\* name and do not inherit from themselves: the locators and the vtables in any
\* order, each once, and any other words between them.
IsCompiled(decl, img) ==
  LET ToCols == {i \in DOMAIN img.rdata : img.rdata[i].to = "col"}
  IN  /\ IsFiniteSet(DOMAIN decl) /\ {Garbage, NoName} \cap DOMAIN decl = {}
      /\ \A c \in DOMAIN decl : /\ decl[c].bases \in Seq(DOMAIN decl)
                                /\ decl[c].functions \in Seq(ToSet(decl[c].functions))
                                /\ decl[c].bases # << >> => c \notin LineOf(decl, decl[c].bases[1])
      /\ img.sections
      /\ img.tds = [c \in DOMAIN decl |-> c]
      /\ img.bases = [c \in DOMAIN decl |-> Preorder(decl, c)]
      /\ IsRow(img.cols) /\ \A i \in DOMAIN img.cols : img.cols[i] \in ColsOf(decl)
      /\ \A i, j \in DOMAIN img.cols : img.cols[i] = img.cols[j] => i = j
      /\ IsRow(img.rdata) /\ \A i \in ToCols : img.rdata[i].at \in DOMAIN img.cols
      /\ \A i, j \in ToCols : img.rdata[i].at = img.rdata[j].at => i = j
      /\ \A c \in DOMAIN decl : \E i \in ToCols : IsPrimaryVtable(decl, img, c, i)

\* What the worker can read: no longer array of bases, no longer vtable.
ReadableBases(decl, c) == Len(Preorder(decl, c)) <= MaxBases
WithinLimits(decl, c) == ReadableBases(decl, c) /\ Len(decl[c].functions) <= MAX_VTABLE_ENTRIES

\* Whether info is what was declared: the parent is the first declared base, the
\* chain is the walk of the bases, and the functions are those of the primary
\* vtable and nothing of the vtable that follows it in memory.
AsDeclared(decl, info) ==
  \A c \in {d \in DOMAIN decl : WithinLimits(decl, d)} :
    /\ c \in DOMAIN info
    /\ info[c].parent = IF decl[c].bases = << >> THEN NoName ELSE decl[c].bases[1]
    /\ info[c].chain = Preorder(decl, c)
    /\ info[c].funcs = decl[c].functions
=============================================================================
