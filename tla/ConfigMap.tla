----------------------------- MODULE ConfigMap -----------------------------
(***************************************************************************)
(* What the writers of .subpatch and .subproject promise: a file is a map  *)
(* from slots, a section and a key, to the list of their values.  A write  *)
(* touches the slots it names and no other.                                *)
(***************************************************************************)
EXTENDS Naturals, Sequences, SequencesExt

CONSTANTS
  Slot, Value,
  Together,   \* sets of slots that one write sets
  Multi,      \* slots with a list
  Optional    \* slots that are cleared

VARIABLE entry

Init == entry \in [Slot -> Seq(Value)]

\* The slots of X get one value each, whatever they had.
Put(X, v) == entry' = [x \in Slot |-> IF x \in X THEN <<v[x]>> ELSE entry[x]]

\* One more value, the others stay in their order.
Insert(x, v) ==
  \E i \in 1 .. Len(entry[x]) + 1 : entry' = [entry EXCEPT ![x] = InsertAt(entry[x], i, v)]

Clear(x) == entry' = [entry EXCEPT ![x] = <<>>]

Next ==
  \/ \E X \in Together : \E v \in [X -> Value] : Put(X, v)
  \/ \E x \in Multi, v \in Value : Insert(x, v)
  \/ \E x \in Optional : Clear(x)

Spec == Init /\ [][Next]_entry
=============================================================================
