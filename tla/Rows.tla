-------------------------------- MODULE Rows --------------------------------
(* Sequences made of others, by recursion over the positions.  SequencesExt has
   the same operators in forms that the proofs cannot look into.              *)
EXTENDS Naturals, Sequences

IsRow(s) == Len(s) \in Nat /\ DOMAIN s = 1..Len(s)

\* SelectSeq for membership: the elements of s that are in S, in their order.
Kept(s, S) ==
  LET upto[i \in 0..Len(s)] ==
        IF i = 0 THEN << >>
        ELSE IF s[i] \in S THEN Append(upto[i - 1], s[i]) ELSE upto[i - 1]
  IN  upto[Len(s)]

\* FlattenSeq: the sequences in ss one after another.
Joined(ss) ==
  LET upto[i \in 0..Len(ss)] == IF i = 0 THEN << >> ELSE upto[i - 1] \o ss[i]
  IN  upto[Len(ss)]

\* Position i among the positions p: behind those whose key is not greater.
Placed(p, i, key) ==
  LET low == {j \in DOMAIN key : key[j] <= key[i]}
  IN  Kept(p, low) \o <<i>> \o Kept(p, DOMAIN key \ low)

\* SortSeq: s in the order of the numbers in key, one for each position of s.
SortedBy(s, key) ==
  LET place[i \in 0..Len(s)] == IF i = 0 THEN << >> ELSE Placed(place[i - 1], i, key)
      order == place[Len(s)]
  IN  [i \in 1..Len(s) |-> s[order[i]]]
=============================================================================
