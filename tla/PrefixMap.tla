----------------------------- MODULE PrefixMap ------------------------------
(***************************************************************************)
(* What the prefix cache promises its users, with no tree, LRU list or     *)
(* counters: a partial map from block-aligned token strings to blocks that *)
(* is closed under prefixes, never rebinds a string, and forgets a string  *)
(* only together with its extensions and only when no sequence holds the   *)
(* block.                                                                  *)
(***************************************************************************)
EXTENDS Integers, Sequences

CONSTANT BlockSize

VARIABLES map,    \* token string -> block
          held    \* the blocks sequences hold

vars == <<map, held>>

IsExtension(q, p) == Len(p) <= Len(q) /\ SubSeq(q, 1, Len(p)) = p

PrefixClosed(m) ==
  \A q \in DOMAIN m : \A n \in 1 .. Len(q) : n % BlockSize = 0 => SubSeq(q, 1, n) \in DOMAIN m

Init == map = <<>> /\ held = {}

\* Strings are added for one sequence: they are prefixes of one another.
Insert(old, new) ==
  LET added == DOMAIN new \ DOMAIN old
  IN  /\ DOMAIN old \subseteq DOMAIN new /\ \A p \in DOMAIN old : new[p] = old[p]
      /\ \A p, q \in added : IsExtension(q, p) \/ IsExtension(p, q)
      /\ \A p \in added : new[p] \in held
      /\ PrefixClosed(new)

Evict(old, new) ==
  /\ DOMAIN new \subseteq DOMAIN old /\ \A p \in DOMAIN new : new[p] = old[p]
  /\ \A p \in DOMAIN old \ DOMAIN new : old[p] \notin held
  /\ PrefixClosed(new)

Next == Insert(map, map') \/ Evict(map, map')

Spec == Init /\ [][Next]_vars

=============================================================================
