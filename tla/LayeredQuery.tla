---------------------------- MODULE LayeredQuery ----------------------------
(***************************************************************************)
(* The layered resolution of graphql/puff_schema.rs with the rows of       *)
(* graphql/row_return.rs: the children of all parents are fetched at once  *)
(* and joined to their parents by key.  Resolve is what the code computes, *)
(* RowByRow the same query answered one parent at a time.                  *)
(*                                                                         *)
(* A row is present or a Python None; its columns are its own id, the key  *)
(* that refers to its parent and a value.  A field is                      *)
(*   name, kind   "column" (a dataclass attribute), "static" (@sql), "sql" *)
(*                (the method returns a query), "list" (it returns a list  *)
(*                and says so) or "direct" (anything else it returns),     *)
(*   list, optional, cor (parent and child keys are given),                *)
(*   rows         what its producer has to offer, per argument.            *)
(* A selection is a field, its argument and the selections below it.       *)
(***************************************************************************)
EXTENDS Naturals, Sequences, FiniteSetsExt

Null == <<"null">>
Scalar(v) == <<"scalar", v>>
Zero == Scalar(0)
ListOf(s) == <<"list", s>>
ObjectOf(s) == <<"object", s>>

Ok(vals) == [ok |-> TRUE, vals |-> vals]
Failed == [ok |-> FALSE, vals |-> << >>]

None == [present |-> FALSE, cols |-> << >>]
RowOf(id, key, val) ==
  [present |-> TRUE, cols |-> [id |-> id, key |-> key, val |-> val]]

\* ExtractorRootNode: one row without columns.
Root == << [present |-> TRUE, cols |-> << >>] >>

-----------------------------------------------------------------------------
(* Rows. *)

AllAbsent(rows) == \A i \in DOMAIN rows : ~rows[i].present
HasColumn(rows, c) == \A i \in DOMAIN rows : rows[i].present => c \in DOMAIN rows[i].cols

\* extract_values of one column: a None has no value.
Column(rows, c) ==
  IF HasColumn(rows, c)
  THEN Ok([i \in DOMAIN rows |-> IF rows[i].present THEN rows[i].cols[c] ELSE Null])
  ELSE Failed

\* key_from_extracted for every row, the absent ones flattened away.
Keys(rows, c) ==
  LET here == SelectSeq(rows, LAMBDA r : r.present)
  IN [i \in DOMAIN here |-> here[i].cols[c]]

\* The keys of the parents a query is asked for.  Static SQL has 0 for a null
\* key and no array at all when every key is null.
Wanted(rows, f) ==
  LET ids == {rows[i].cols["id"] : i \in {j \in DOMAIN rows : rows[j].present}}
  IN IF f.kind = "static" THEN {IF k = Null THEN Zero ELSE k : k \in ids} ELSE ids
NoArray(rows, f) ==
  f.kind = "static" /\ f.cor
    /\ \A i \in DOMAIN rows : rows[i].present => rows[i].cols["id"] = Null

\* What the producer returns for all parents: `= ANY' never matches NULL, a
\* single object is given to each.
Produced(rows, f, arg) ==
  LET offer == f.rows[arg]
  IN IF f.kind \in {"static", "sql"} /\ f.cor
       THEN SelectSeq(offer, LAMBDA r : r.cols["key"] \in Wanted(rows, f) \ {Null})
     ELSE IF f.kind = "direct" /\ ~f.list THEN [i \in DOMAIN rows |-> offer[1]]
     ELSE offer

-----------------------------------------------------------------------------
(* The look-ahead: children are kept by name, the last selection wins. *)

LookAhead(sub) ==
  {i \in DOMAIN sub : \A j \in DOMAIN sub : sub[j].field.name = sub[i].field.name => j <= i}

\* The entry of the look-ahead, and of the object, that a selection reads.
EntryOf(sub, i) ==
  CHOOSE j \in LookAhead(sub) : sub[j].field.name = sub[i].field.name

-----------------------------------------------------------------------------
(* The layers. *)

RECURSIVE Resolve(_, _)

\* All children of a layer; a null where one is required fails the layer, that
\* of an absent row included.
KidValues(rr, s) == [c \in DOMAIN s.sub |-> Resolve(rr, s.sub[EntryOf(s.sub, c)])]
Complete(kids, s) ==
  \A c \in DOMAIN s.sub :
    /\ kids[c].ok
    /\ s.sub[c].field.optional \/ \A i \in DOMAIN kids[c].vals : kids[c].vals[i] # Null
ObjectAt(kids, s, i) == ObjectOf([c \in DOMAIN s.sub |-> kids[c].vals[i]])

\* build_child_objects
ChildObjects(rr, s) ==
  LET kids == KidValues(rr, s)
      objs == [i \in DOMAIN rr |-> IF rr[i].present THEN ObjectAt(kids, s, i) ELSE Null]
  IN IF AllAbsent(rr) THEN Ok([i \in DOMAIN rr |-> Null])
     ELSE IF Complete(kids, s) THEN Ok(objs) ELSE Failed

\* build_child_objects_from_rows: a nested dataclass reads the columns of its
\* parent's row.
ChildObjectsFromRows(rows, s) ==
  LET kids == KidValues(rows, s)
  IN IF Complete(kids, s) THEN Ok([i \in DOMAIN rows |-> ObjectAt(kids, s, i)]) ELSE Failed

\* extract_first, of a row without selected columns.
First(rr) == Ok([i \in DOMAIN rr |-> IF rr[i].present THEN rr[i].cols["val"] ELSE Null])

\* A method without keys: a list goes to the first parent, single values are
\* dealt out in order.
Deal(rows, s, children) ==
  LET f == s.field
      n == Len(children.vals)
  IN IF ~children.ok THEN Failed
     ELSE IF f.list
       THEN Ok([i \in DOMAIN rows |-> IF i = 1 THEN ListOf(children.vals) ELSE ListOf(<< >>)])
     ELSE IF n >= Len(rows) \/ f.optional
       THEN Ok([i \in DOMAIN rows |-> IF i <= n THEN children.vals[i] ELSE Null])
     ELSE Failed

\* Mutant: the objects are zipped with the keys of the rows after them.
PairShifted(keys, objs, k) == {i \in DOMAIN objs : i + 1 \in DOMAIN keys /\ keys[i + 1] = k}

\* build_correlated_child_objects pairs the objects, those of absent rows
\* included, with the keys of the present rows, one by one.
PairByKey(keys, objs, k) == {i \in DOMAIN keys : i <= Len(objs) /\ keys[i] = k}

\* A single value per key: the last one inserted.
Joined(s, keys, objs, k) ==
  LET f == s.field
      mine == PairByKey(keys, objs, k)
  IN IF f.list THEN ListOf([n \in 1..Cardinality(mine) |->
                              objs[CHOOSE i \in mine : Cardinality({j \in mine : j < i}) = n - 1]])
     ELSE IF mine = {} THEN Null ELSE objs[Max(mine)]

\* The correlated objects; a leaf has no column of its own to take a value from.
CorrelatedValues(rr, s) ==
  LET kids == KidValues(rr, s)
  IN IF s.sub = << >>
     THEN IF s.field.optional \/ AllAbsent(rr) THEN Ok([i \in DOMAIN rr |-> Null]) ELSE Failed
     ELSE IF Complete(kids, s)
       THEN Ok([i \in DOMAIN rr |-> IF rr[i].present THEN ObjectAt(kids, s, i) ELSE Null])
       ELSE Failed

Correlate(rows, s, rr) ==
  LET f == s.field
      objs == CorrelatedValues(rr, s)
      keys == Keys(rr, "key")
      Value(i) ==
        LET k == rows[i].cols["id"] IN
        IF ~rows[i].present THEN Null
        ELSE IF s.sub = << >> /\ k \in {keys[j] : j \in DOMAIN keys} THEN Null
        ELSE Joined(s, keys, objs.vals, k)
      Missing(i) ==
        rows[i].present /\ ~f.list /\ ~f.optional
          /\ PairByKey(keys, objs.vals, rows[i].cols["id"]) = {}
  IN IF AllAbsent(rows) THEN Ok([i \in DOMAIN rows |-> Null])
     ELSE IF ~objs.ok \/ \E i \in DOMAIN rows : Missing(i) THEN Failed
     ELSE Ok([i \in DOMAIN rows |-> Value(i)])

\* A field without producer: the column of its name, or a nested dataclass.
ColumnValues(rows, s) ==
  IF s.sub = << >> THEN Column(rows, s.field.name) ELSE ChildObjectsFromRows(rows, s)

\* do_returned_values_into_stream
Resolve(rows, s) ==
  LET f == s.field
      rr == Produced(rows, f, s.arg)
  IN IF rows = << >> THEN Ok(<< >>)
     ELSE IF f.kind = "column" THEN ColumnValues(rows, s)
     ELSE IF f.cor
       THEN IF HasColumn(rows, "id") /\ ~NoArray(rows, f) THEN Correlate(rows, s, rr)
            ELSE Failed
     ELSE Deal(rows, s, IF s.sub = << >> THEN First(rr) ELSE ChildObjects(rr, s))

\* A field of Query: one value, or null.
Answer(s) ==
  LET res == Resolve(Root, s)
  IN IF ~res.ok THEN Failed ELSE IF res.vals = << >> THEN Ok(<<Null>>) ELSE Ok(<<res.vals[1]>>)

\* resolve_root_scalar_fast_path: what the method returns is the value; a tuple,
\* list or query with its marker, has no attributes to show.
FastValue(s) ==
  LET vals == First(s.field.rows[s.arg]).vals
  IN IF s.field.kind # "direct" THEN ObjectOf(<< >>)
     ELSE IF s.field.list THEN ListOf(vals) ELSE vals[1]

-----------------------------------------------------------------------------
(* The same query, one parent at a time. *)

RECURSIVE RowByRow(_, _)

ObjectOfRow(row, s) ==
  IF ~row.present THEN Null
  ELSE IF s.sub = << >> THEN row.cols["val"]
  ELSE ObjectOf([c \in DOMAIN s.sub |-> RowByRow(row, s.sub[c])])

RowByRow(row, s) ==
  LET f == s.field
      mine == SelectSeq(f.rows[s.arg],
                        LAMBDA r : f.cor => r.present /\ r.cols["key"] = row.cols["id"]
                                            /\ (f.kind # "list" => r.cols["key"] # Null))
  IN IF ~row.present THEN Null
     ELSE IF f.kind = "column"
       THEN IF s.sub = << >> THEN row.cols[f.name] ELSE ObjectOfRow(row, s)
     ELSE IF f.list THEN ListOf([i \in DOMAIN mine |-> ObjectOfRow(mine[i], s)])
     ELSE IF mine = << >> THEN Null
     ELSE ObjectOfRow(mine[IF f.cor THEN Len(mine) ELSE 1], s)

-----------------------------------------------------------------------------
\* Where the layers are known to differ from the rows: a method without keys
\* below several parents, keys on a leaf, keys on a list with a None in it, and
\* aliases of one field with different arguments.
RECURSIVE Batchable(_, _)
Batchable(rows, s) ==
  LET f == s.field
      rr == Produced(rows, f, s.arg)
      below == IF f.kind = "column" THEN rows ELSE rr
  IN \/ rows = << >>
     \/ /\ (f.kind # "column" /\ ~f.cor) => Len(rows) = 1 \/ (f.kind = "direct" /\ ~f.list)
        /\ f.cor => s.sub # << >> /\ \A i \in DOMAIN rr : rr[i].present
        /\ f.kind = "column" => \A i \in DOMAIN rows : rows[i].present
        /\ \A i, j \in DOMAIN s.sub :
             s.sub[i].field.name = s.sub[j].field.name => s.sub[i].arg = s.sub[j].arg
        /\ \A i \in DOMAIN s.sub : Batchable(below, s.sub[i])

\* Every child is under its own parent: whenever the layers answer at all, they
\* answer what asking for each parent separately would, and so does the short
\* cut for scalars of Query that come as they are.
LayersMatchRows(rows, s) ==
  LET res == Resolve(rows, s)
  IN /\ Batchable(rows, s) /\ res.ok
          => \A i \in DOMAIN rows : rows[i].present => res.vals[i] = RowByRow(rows[i], s)
     /\ s.sub = << >> /\ s.field.kind = "direct" /\ Answer(s).ok
          => FastValue(s) = Answer(s).vals[1]
=============================================================================
