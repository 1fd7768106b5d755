---------------------------- MODULE SelectParser ----------------------------
(***************************************************************************)
(* How src/qseal/parser/sqlglot_parser.py gets rid of a WITH clause: a CTE *)
(* that only passes rows through is replaced by the table it reads, or its *)
(* projections are written into the query that reads it; any other CTE     *)
(* stays a relation of its own.  What the rules and the built-in verifier  *)
(* look at is the query after this.                                        *)
(*                                                                         *)
(* A WITH clause has one CTE here, and a join never reads it.              *)
(***************************************************************************)
EXTENDS SqlQuery

(* The FROM of select s names the CTE. *)
ReadsCte(s, with) == with # None /\ s.subquery = None /\ s.table = with.name

Body(with) == with.bodies[1]

(* parse_select refuses a CTE whose body is a UNION, and one that is read  *)
(* and reads its own name, although SQL means the base table by that.      *)
Parses(q) ==
  q.with # None =>
    /\ Len(q.with.bodies) = 1
    /\ \A s \in {q} \cup ({q.subquery} \ {None}) :
         ReadsCte(s, q.with) => ~ReadsCte(Body(q.with), q.with)

-----------------------------------------------------------------------------
(* Mutant: LIMIT is not among the clauses that keep a CTE in place. *)
NoClauseButLimit(s) ==
  /\ s.joins = <<>> /\ s.predicates = <<>> /\ s.group_by = <<>> /\ s.order_by = <<>>
  /\ ~s.having /\ ~s.qualify

NoClause(s) ==
  /\ s.joins = <<>> /\ s.predicates = <<>> /\ s.group_by = <<>> /\ s.order_by = <<>>
  /\ ~s.having /\ ~s.qualify /\ s.limit = None

IsBareStar(p) == p.kind = "star" /\ p.col.table = None

(* SELECT * FROM t. *)
IsStarPassThrough(s) ==
  NoClause(s) /\ ~s.distinct /\ Len(s.projections) = 1 /\ IsBareStar(s.projections[1])

(* SELECT columns of one relation, renamed or not, perhaps DISTINCT. *)
IsProjectionPassThrough(s) ==
  NoClause(s) /\ \A i \in DOMAIN s.projections : s.projections[i].kind \in {"star", "column"}

(* SELECT of projections that all have a name. *)
IsSimpleProjection(s) ==
  /\ NoClause(s) /\ ~s.distinct
  /\ \A i \in DOMAIN s.projections : IsDirectColumn(s.projections[i]) \/ s.projections[i].alias # None

IsIdentityProjection(s) ==
  IsSimpleProjection(s) /\ \A i \in DOMAIN s.projections :
                              IsDirectColumn(s.projections[i]) /\ s.projections[i].alias = None

-----------------------------------------------------------------------------
(* The projections of the body that bear a name; of two the last one wins. *)
Named(body, name) == {i \in DOMAIN body.projections : OutputName(body.projections[i]) = name}
LastNamed(body, name) ==
  body.projections[CHOOSE i \in Named(body, name) : \A j \in Named(body, name) : j <= i]

CanInline(s, body) ==
  /\ IsProjectionPassThrough(s)
  /\ IsSimpleProjection(body)
  /\ \A i \in DOMAIN s.projections :
       IsBareStar(s.projections[i]) \/ Named(body, s.projections[i].col.name) # {}

(* What a projection of the outer query becomes: an alias replaces the     *)
(* alias the body gave.                                                    *)
InlinedProjection(p, body) ==
  IF IsBareStar(p) THEN body.projections
  ELSE LET inner == LastNamed(body, p.col.name) IN
       <<IF p.alias = None THEN inner ELSE [inner EXCEPT !.alias = p.alias]>>

Inlined(s, body) ==
  [body EXCEPT !.projections = FlattenSeq([i \in DOMAIN s.projections |->
                                             InlinedProjection(s.projections[i], body)]),
               !.distinct = s.distinct]

(* The table behind a pass-through CTE stays known by the name the query   *)
(* uses for it.                                                            *)
ReadsTableOf(s, body) ==
  [s EXCEPT !.table = body.table, !.alias = BaseRelation(s)]

Resolved(s, with) ==
  LET body == Body(with) IN
  IF ~ReadsCte(s, with) THEN s
  ELSE IF IsStarPassThrough(s) THEN body
  ELSE IF CanInline(s, body) THEN Inlined(s, body)
  ELSE IF IsStarPassThrough(body) \/ IsIdentityProjection(body) THEN ReadsTableOf(s, body)
  ELSE s

(* The IR of a text: its query and its subquery, each resolved. *)
Parsed(q) ==
  LET top == [Resolved(q, q.with) EXCEPT !.with = q.with] IN
  IF q.with = None THEN q
  ELSE IF top.subquery = None THEN top
  ELSE [top EXCEPT !.subquery = Resolved(top.subquery, q.with)]
=============================================================================
