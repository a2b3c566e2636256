-------------------------------- MODULE Lists --------------------------------
(***************************************************************************)
(* What the code does with lists again and again: iter().filter(), and the *)
(* push_unique of proxy2/csp.rs.  The recursions are functions of a number *)
(* of elements, and the filter takes a set instead of a predicate, so that *)
(* the provers can reason about them.                                      *)
(***************************************************************************)
EXTENDS Naturals, Sequences, SequencesExt

(* The elements of s that are in S, in their order. *)
Only(s, S) ==
  LET kept[n \in 0 .. Len(s)] ==
        IF n = 0 THEN <<>>
        ELSE IF s[n] \in S THEN Append(kept[n - 1], s[n]) ELSE kept[n - 1]
  IN  kept[Len(s)]

(* One more domain, unless the list has it. *)
PushUnique(list, d) == IF Contains(list, d) THEN list ELSE Append(list, d)

PushAll(list, ds) ==
  LET pushed[n \in 0 .. Len(ds)] ==
        IF n = 0 THEN list ELSE PushUnique(pushed[n - 1], ds[n])
  IN  pushed[Len(ds)]
=============================================================================
