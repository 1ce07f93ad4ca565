---------------------------- MODULE MCPathSearch ----------------------------
(* A field of five columns and three rows.  The unit family meets every     *)
(* arrangement of closed tiles in the three inner columns; the price family *)
(* puts expensive tiles in the middle column, for every class and lattice,  *)
(* dear enough for two of them to pass the largest cost; the sparse family  *)
(* leaves chunks of the middle column out; the sealed family asks from a    *)
(* missing chunk or to it, which a flood from elsewhere meets or does not.  *)
EXTENDS PathSearch

MCSize == <<5, 3, 1>>
MCChunkSize == <<1, 1, 1>>

Plain(v) == IF v = 9 THEN 12 ELSE v
Class(lattice, steps, special) ==
  [lattice |-> lattice, steps |-> steps, passes |-> {1, 2, 9},
   cost |-> [v \in {0, 1, 2, 9} |-> Plain(v)], special |-> special]
Stairs == <<[from |-> <<0, 1, 0>>, to |-> <<4, 0, 0>>, cost |-> 3, missing |-> FALSE],
            [from |-> <<4, 2, 0>>, to |-> <<0, 1, 0>>, cost |-> 1, missing |-> FALSE],
            [from |-> <<2, 2, 0>>, to |-> <<4, 2, 0>>, cost |-> 1, missing |-> TRUE]>>
MCModels ==
  [walker  |-> Class("orthogonal", "default", <<>>),
   legacy  |-> [Class("orthogonal", "default", <<>>) EXCEPT !.passes = {0, 1, 2, 9}],
   hex     |-> Class("hex", "default", <<>>),
   both    |-> Class("orthogonal", "both", <<>>),
   one     |-> Class("orthogonal", "one", <<>>),
   climber |-> Class("orthogonal", "default", Stairs)]

Patterns == {0, 1} \X {0, 1} \X {0, 1}
Columns(left, middle, right) ==
  [t \in Tiles |-> CASE t[1] = 1 -> left[t[2] + 1]
                     [] t[1] = 2 -> middle[t[2] + 1]
                     [] t[1] = 3 -> right[t[2] + 1]
                     [] OTHER -> 1]
Ends == {<< <<0, 0, 0>>, <<4, 2, 0>> >>, << <<0, 1, 0>>, <<4, 1, 0>> >>,
         << <<4, 2, 0>>, <<1, 0, 0>> >>, << <<2, 0, 0>>, <<2, 2, 0>> >>}

Query(model, unit, field, sparse, ends, policy) ==
  [model |-> model, unit |-> unit, field |-> field, sparse |-> sparse,
   start |-> ends[1], goal |-> ends[2], policy |-> policy,
   kind |-> "single", domain |-> Tiles, others |-> {}]

UnitFamily ==
  {Query("walker", TRUE, Columns(l, c, r), FALSE, e, "AssumeImpassable") :
     l \in Patterns, c \in Patterns, r \in Patterns, e \in Ends}
PriceFamily ==
  {Query(m, u, Columns(l, c, r), FALSE, e, "AssumeImpassable") :
     m \in DOMAIN MCModels, u \in BOOLEAN, l \in Patterns, r \in {<<1, 1, 0>>, <<0, 1, 0>>},
     c \in {<<2, 9, 1>>, <<9, 2, 9>>, <<2, 2, 0>>}, e \in Ends}
SparseFamily ==
  {Query(m, u, Columns(l, c, <<1, 1, 1>>), TRUE, e, p) :
     m \in DOMAIN MCModels, u \in BOOLEAN, l \in {<<1, 0, 1>>, <<0, 0, 0>>, <<0, 1, 1>>},
     c \in {<<1, 1, 1>>, <<0, Missing, 1>>, <<Missing, Missing, Missing>>}, e \in Ends,
     p \in {"AssumeImpassable", "ReportIndeterminate"}}

SealedFamily ==
  {Query(m, u, Columns(l, <<Missing, 0, 1>>, <<0, 1, 1>>), TRUE, e, p) :
     m \in DOMAIN MCModels, u \in BOOLEAN, l \in {<<0, 1, 1>>, <<1, 0, 1>>},
     e \in {<< <<2, 0, 0>>, <<2, 2, 0>> >>, << <<2, 2, 0>>, <<2, 0, 0>> >>},
     p \in {"AssumeImpassable", "ReportIndeterminate"}}

(* Groups share their goal with a start near it or with one far from it;   *)
(* fields are read in the whole shape and in a box that cuts the top row.  *)
Grouping(q, others) == [q EXCEPT !.kind = "batch", !.others = others]
Priced == {q \in PriceFamily \cup SparseFamily \cup SealedFamily : ~q.unit}
GroupFamily ==
  {Grouping(q, {o}) : q \in Priced, o \in {<<4, 1, 0>>, <<0, 2, 0>>}}
FieldFamily ==
  {[q EXCEPT !.kind = "field", !.domain = d] :
     q \in {x \in PriceFamily : x.goal = <<4, 2, 0>>} \cup SparseFamily \cup SealedFamily,
     d \in {Tiles, {t \in Tiles : t[2] < 2}}}
MCQueries == UnitFamily \cup PriceFamily \cup SparseFamily \cup SealedFamily
               \cup GroupFamily \cup FieldFamily
=============================================================================
