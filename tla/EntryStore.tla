----------------------------- MODULE EntryStore -----------------------------
(***************************************************************************)
(* What a content-addressed cache promises its readers: under each key     *)
(* nothing or one whole value.  A power failure may take an entry back to  *)
(* what was last settled on the disk, never to anything else.              *)
(***************************************************************************)
CONSTANTS Key, Value, None

VARIABLES
  entry,  \* per key, what a reader finds: a value or None
  older   \* per key, what is known to be settled on the disk

Init == entry = [k \in Key |-> None] /\ older = entry

Put(k, v) == entry' = [entry EXCEPT ![k] = v] /\ UNCHANGED older

Settle(k) == older' = [older EXCEPT ![k] = entry[k]] /\ UNCHANGED entry

Lose ==
  /\ DOMAIN entry' = Key
  /\ \A k \in Key : entry'[k] \in {entry[k], older[k]}
  /\ older' = entry'

Next == Lose \/ \E k \in Key : Settle(k) \/ \E v \in Value : Put(k, v)

Spec == Init /\ [][Next]_<<entry, older>>
=============================================================================
