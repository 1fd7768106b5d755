---------------------------- MODULE Collections ----------------------------
(***************************************************************************)
(* The lists and dictionaries of the source, where neither the standard    *)
(* modules nor the community ones have an operator that can be reasoned    *)
(* about: list comprehensions and the assignment to a key.                 *)
(***************************************************************************)
EXTENDS Naturals, Sequences, Functions

IsList(s) == s \in Seq(Range(s))

(* [x for x in s if x in S]: what is left of s, in its order. *)
Among(s, S) ==
  LET kept[i \in 0 .. Len(s)] ==
        IF i = 0 THEN <<>>
        ELSE IF s[i] \in S THEN Append(kept[i - 1], s[i]) ELSE kept[i - 1]
  IN  kept[Len(s)]

(* sum(s). *)
Total(s) ==
  LET sums[i \in 0 .. Len(s)] == IF i = 0 THEN 0 ELSE sums[i - 1] + s[i]
  IN  sums[Len(s)]

(* d[key] = value. *)
With(d, key, value) ==
  [k \in DOMAIN d \cup {key} |-> IF k = key THEN value ELSE d[k]]
=============================================================================
