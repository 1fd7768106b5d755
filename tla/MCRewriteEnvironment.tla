------------------------ MODULE MCRewriteEnvironment ------------------------
(***************************************************************************)
(* A small instance of RewriteEnvironment.  Two tasks start from the same  *)
(* diamond of queries with different constraints and step budgets, a third *)
(* has SQL that does not parse.  q2 is equivalent to q0 only under the     *)
(* constraints of "strict", so a verdict for one task is wrong for another;*)
(* "garbled" is a rewrite the verifier certifies and the parser refuses.   *)
(***************************************************************************)
EXTENDS RewriteEnvironment

MCQuery  == {"q0", "q1", "q2", "q3", "garbled", "not sql"}
MCParses == {"q0", "q1", "q2", "q3"}
MCTask   == {"strict", "loose", "broken"}
MCSqlOf  == [t \in MCTask |-> IF t = "broken" THEN "not sql" ELSE "q0"]
MCMaxSteps == [t \in MCTask |-> IF t = "loose" THEN 2 ELSE 3]
MCAction == {"a", "b", "g"}

(* Both orders of a and b lead from q0 to q3; the strict task may go back. *)
MCMatches ==
  LET offered == [q0 |-> {"a", "b"}, q1 |-> {"b", "g"}, q2 |-> {"a"}, q3 |-> {}]
  IN  [t \in MCTask |-> [q \in MCQuery |->
         IF q \notin MCParses THEN {} ELSE IF q = "q3" /\ t = "loose" THEN {"a"} ELSE offered[q]]]

MCRewritten ==
  [q \in MCQuery |-> [x \in MCAction |->
     CASE q = "q0" /\ x = "a" -> "q1"
       [] q = "q0" /\ x = "b" -> "q2"
       [] q = "q1" /\ x = "b" -> "q3"
       [] q = "q1" /\ x = "g" -> "garbled"
       [] q = "q2" /\ x = "a" -> "q3"
       [] q = "q3" /\ x = "a" -> "q1"
       [] OTHER -> None]]

Blocks(partition) == {pair \in MCQuery \X MCQuery : \E b \in partition : {pair[1], pair[2]} \subseteq b}

MCEquiv ==
  [t \in MCTask |->
     IF t = "strict" THEN Blocks({{"q0", "q1", "q2", "q3", "garbled"}, {"not sql"}})
                     ELSE Blocks({{"q0", "q1", "q3", "garbled"}, {"q2"}, {"not sql"}})]

MCLogMs == {0, 1}
=============================================================================
