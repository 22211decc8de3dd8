----------------------------- MODULE Signatures -----------------------------
(* src/generate-signatures.cpp: byte patterns for the virtual functions of a
   module, each as short as it can be while it tells the function apart.

   The exported vtables of a module are a set of records with the class and its
   functions in the order of their slots; a function has its rva and its bytes,
   where one cell stands for an opcode or for the whole address after it.     *)
EXTENDS Naturals, Sequences, SequencesExt, FiniteSets, FiniteSetsExt

CONSTANTS
  Masked,          \* "?" of a token; its place in the order does not matter
  Relocating,      \* opcodes that are followed by an address
  StubPatterns,    \* STUB_PATTERNS; Masked in one stands for any cell
  MinLength,       \* min_length, 8 bytes
  FUNC_BYTES_SIZE  \* 128, what is read of every function, filled up with zeros

\* No stub pattern looks further than the shortest signature.
ASSUME SignaturesAssumption ==
  /\ Masked \in Nat \ Relocating
  /\ MinLength \in Nat /\ FUNC_BYTES_SIZE \in Nat
  /\ \A p \in StubPatterns : p \in Seq(Nat) /\ Len(p) <= MinLength

-----------------------------------------------------------------------------
\* What a pattern matches: the first bytes of a function.
MatchesRaw(pattern, raw) ==
  /\ Len(pattern) <= Len(raw)
  /\ \A i \in DOMAIN pattern : pattern[i] \in {Masked, raw[i]}

detect_stub(raw) == \E p \in StubPatterns : MatchesRaw(p, raw)

\* mask_relocatable_bytes: the scan goes on after an address, so an address is
\* never taken for an opcode; the last cell has no room for one.
mask_relocatable_bytes(raw) ==
  LET cell[i \in 0..Len(raw)] ==
        IF i = 0 \/ (cell[i - 1] # Masked /\ raw[i - 1] \in Relocating) THEN Masked ELSE raw[i]
  IN  [i \in DOMAIN raw |-> cell[i]]

trim_trailing_wildcards(tokens) ==
  LET kept == {i \in DOMAIN tokens : tokens[i] # Masked}
  IN  SubSeq(tokens, 1, IF kept = {} THEN 0 ELSE Max(kept))

\* find_divergence: how many tokens two patterns have in common.
find_divergence(a, b) ==
  LET differ == {i \in 1..Min({Len(a), Len(b)}) : a[i] # b[i]}
  IN  IF differ = {} THEN Min({Len(a), Len(b)}) ELSE Min(differ) - 1

\* The order of std::vector<std::string>.
TokensLess(a, b) ==
  \E d \in DOMAIN b : /\ \A i \in 1..(d - 1) : i \in DOMAIN a /\ a[i] = b[i]
                      /\ d = Len(a) + 1 \/ (d \in DOMAIN a /\ a[d] < b[d])

\* The order of the sorted list of patterns, each with its rva; which of two
\* equal ones comes first makes no difference.
Precedes(x, y) == TokensLess(x.tokens, y.tokens) \/ (x.tokens = y.tokens /\ x.rva < y.rva)
NextTo(list, x, y) == Precedes(x, y) /\ \A z \in list : ~(Precedes(x, z) /\ Precedes(z, y))

\* Variant: only the neighbour before is compared.
NeighbourBefore(list, x) == {y \in list : NextTo(list, y, x)}

\* The neighbours of a pattern in the sorted list.
Neighbours(list, x) == {y \in list : NextTo(list, y, x) \/ NextTo(list, x, y)}

\* compute_unique_prefixes: one token more than what either neighbour in the
\* sorted list shares.
compute_unique_prefixes(list) ==
  [x \in list |->
     LET needed == Max({MinLength} \cup {find_divergence(x.tokens, y.tokens) + 1 : y \in Neighbours(list, x)})
         unique == needed <= Len(x.tokens)
     IN  [unique  |-> unique,
          pattern |-> IF unique THEN SubSeq(x.tokens, 1, needed) ELSE x.tokens]]

-----------------------------------------------------------------------------
Tokens(raw) == trim_trailing_wildcards(mask_relocatable_bytes(raw))

\* process_module, first pass: the functions with bytes worth a pattern.
Candidates(vtables) ==
  LET slots == UNION {{[class |-> v.class, index |-> i, rva |-> v.functions[i].rva,
                        raw |-> v.functions[i].raw] : i \in DOMAIN v.functions} : v \in vtables}
  IN  {e \in slots : /\ Len(e.raw) >= MinLength
                     /\ \E i \in DOMAIN e.raw : e.raw[i] # 0
                     /\ detect_stub(e.raw) \/ Len(Tokens(e.raw)) >= MinLength}

\* compute_class_uniqueness: no other function of the class looks the same.
class_unique(e, candidates) ==
  \A o \in candidates : o.class = e.class /\ o.index # e.index => Tokens(o.raw) # Tokens(e.raw)

\* process_module: one representative per rva stands for all its slots.
process_module(vtables) ==
  LET slots      == Candidates(vtables)
      stubs      == {e \in slots : detect_stub(e.raw)}
      candidates == slots \ stubs
      Listed(rva) == [rva |-> rva, tokens |-> Tokens((CHOOSE e \in candidates : e.rva = rva).raw)]
      patterns    == compute_unique_prefixes({Listed(e.rva) : e \in candidates})
  IN  {[class |-> e.class, index |-> e.index, rva |-> e.rva, stub |-> TRUE, unique |-> FALSE,
        class_unique |-> FALSE, pattern |-> e.raw] : e \in stubs}
      \cup
      {[class |-> e.class, index |-> e.index, rva |-> e.rva, stub |-> FALSE,
        unique |-> patterns[Listed(e.rva)].unique, class_unique |-> class_unique(e, candidates),
        pattern |-> patterns[Listed(e.rva)].pattern] : e \in candidates}

-----------------------------------------------------------------------------
\* Whether the masks hide a byte by which a function was taken for a stub, as
\* when the constant it returns has the byte of a call.
HiddenStub(raw) ==
  \E p \in StubPatterns : /\ MatchesRaw(p, raw)
                          /\ \E i \in DOMAIN p : p[i] # Masked /\ mask_relocatable_bytes(raw)[i] = Masked

\* Among the virtual functions of a module, such stubs aside, a signature said to
\* be unique matches one function only, and it could not be shorter; one that is
\* not unique looks like another function all along.
Identify(entries, vtables) ==
  LET functions == {e \in Candidates(vtables) : ~HiddenStub(e.raw)}
      Matched(p) == {f.rva : f \in {x \in functions : MatchesRaw(p, x.raw)}}
  IN  \A e \in {x \in entries : ~x.stub} :
        IF e.unique
        THEN /\ Matched(e.pattern) = {e.rva}
             /\ \A n \in MinLength..(Len(e.pattern) - 1) : Matched(SubSeq(e.pattern, 1, n)) # {e.rva}
        ELSE \E rva \in Matched(e.pattern) : rva # e.rva
=============================================================================
