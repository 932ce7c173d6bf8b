------------------------------- MODULE Schema -------------------------------
(***************************************************************************)
(* What SQLite makes of the statements of the migrations.  A table has     *)
(* columns, keys (its primary key and the unique constraints) and          *)
(* references (foreign keys); the types of columns, their defaults and the *)
(* names of constraints are left out.                                      *)
(***************************************************************************)
EXTENDS Naturals, Sequences, TLC

Reference(columns, table, parents) ==
  [columns |-> columns, table |-> table, parents |-> parents]
(* A reference to the column of the same name. *)
To(table, column) == Reference({column}, table, {column})

(* Statements. *)
CreateTable(table, columns, keys, references) ==
  [does |-> "create table", table |-> table,
   is |-> [columns |-> columns, keys |-> keys, references |-> references]]
CreateIndex(index, table, column) ==
  [does |-> "create index", index |-> index, table |-> table, column |-> column]
CreateView(view, columns, from) ==
  [does |-> "create view", view |-> view, columns |-> columns, from |-> from]
DropIndex(index) == [does |-> "drop index", index |-> index]
DropTable(table) == [does |-> "drop table", table |-> table]
RenameTable(table, to) == [does |-> "rename table", table |-> table, to |-> to]
RenameColumn(table, column, to) ==
  [does |-> "rename column", table |-> table, column |-> column, to |-> to]
(* Rows: the columns that are named, and the columns of ON CONFLICT. *)
Insert(table, columns) ==
  [does |-> "rows", table |-> table, columns |-> columns, conflict |-> {}]
InsertUnless(table, columns, conflict) ==
  [does |-> "rows", table |-> table, columns |-> columns, conflict |-> {conflict}]
Delete(table, column) == Insert(table, {column})

-----------------------------------------------------------------------------
(* What SQLite makes of a statement.  A schema in which a statement has    *)
(* failed is broken: the transaction of the migration is rolled back.      *)
NoSchema ==
  [broken |-> FALSE, tables |-> <<>>, indexes |-> <<>>, views |-> <<>>]

Names(s) == DOMAIN s.tables \cup DOMAIN s.indexes \cup DOMAIN s.views

HasColumns(s, table, columns) ==
  table \in DOMAIN s.tables /\ columns \subseteq s.tables[table].columns

(* A table or column is only renamed if all views can be resolved. *)
ViewsResolve(s) ==
  \A v \in DOMAIN s.views : \A f \in s.views[v].from : HasColumns(s, f.table, f.columns)

Executes(s, st) ==
  CASE st.does = "create table" -> st.table \notin Names(s)
    [] st.does = "create index" ->
         st.index \notin Names(s) /\ HasColumns(s, st.table, {st.column})
    [] st.does = "create view"  -> st.view \notin Names(s)
    [] st.does = "drop index"   -> st.index \in DOMAIN s.indexes
    [] st.does = "drop table"   -> st.table \in DOMAIN s.tables
    [] st.does = "rename table" ->
         st.table \in DOMAIN s.tables /\ st.to \notin Names(s) /\ ViewsResolve(s)
    [] st.does = "rename column" ->
         /\ HasColumns(s, st.table, {st.column}) /\ ViewsResolve(s)
         /\ st.to \notin s.tables[st.table].columns
    [] st.does = "rows" ->
         /\ HasColumns(s, st.table, st.columns)
         /\ st.conflict \subseteq s.tables[st.table].keys

Without(f, S) == [x \in DOMAIN f \ S |-> f[x]]
Renamed(S, old, new) == {IF x = old THEN new ELSE x : x \in S}

(* Indexes of a table go with it; references and views follow a table that *)
(* is renamed.                                                             *)
WithTableRenamed(s, old, new) ==
  LET Follows(x) == [x EXCEPT !.table = IF @ = old THEN new ELSE @]
      tables == [t \in DOMAIN s.tables |->
                   [s.tables[t] EXCEPT !.references = {Follows(r) : r \in @}]]
  IN [s EXCEPT
       !.tables = Without(tables, {old}) @@ (new :> tables[old]),
       !.indexes = [i \in DOMAIN @ |-> Follows(@[i])],
       !.views = [v \in DOMAIN @ |-> [@[v] EXCEPT !.from = {Follows(f) : f \in @}]]]

WithColumnRenamed(s, table, old, new) ==
  LET Own(x) == [x EXCEPT !.columns = Renamed(@, old, new)]
      Parent(r) == [r EXCEPT !.parents = IF r.table = table THEN Renamed(@, old, new) ELSE @]
      Referring(t) == [t EXCEPT !.references = {Parent(r) : r \in @}]
      own == [s.tables[table] EXCEPT
               !.columns = Renamed(@, old, new),
               !.keys = {Renamed(k, old, new) : k \in @},
               !.references = {Own(r) : r \in @}]
  IN [s EXCEPT
       !.tables = [t \in DOMAIN @ |-> Referring(IF t = table THEN own ELSE @[t])],
       !.indexes = [i \in DOMAIN @ |->
                      IF @[i] = [table |-> table, column |-> old]
                      THEN [table |-> table, column |-> new] ELSE @[i]],
       !.views = [v \in DOMAIN @ |->
                    [@[v] EXCEPT !.from = {IF f.table = table THEN Own(f) ELSE f : f \in @}]]]

Executed(s, st) ==
  CASE st.does = "create table" -> [s EXCEPT !.tables = @ @@ (st.table :> st.is)]
    [] st.does = "create index" ->
         [s EXCEPT !.indexes = @ @@ (st.index :> [table |-> st.table, column |-> st.column])]
    [] st.does = "create view" ->
         [s EXCEPT !.views = @ @@ (st.view :> [columns |-> st.columns, from |-> st.from])]
    [] st.does = "drop index" -> [s EXCEPT !.indexes = Without(@, {st.index})]
    [] st.does = "drop table" ->
         [s EXCEPT !.tables = Without(@, {st.table}),
                   !.indexes = Without(@, {i \in DOMAIN @ : @[i].table = st.table})]
    [] st.does = "rename table"  -> WithTableRenamed(s, st.table, st.to)
    [] st.does = "rename column" -> WithColumnRenamed(s, st.table, st.column, st.to)
    [] st.does = "rows" -> s

(* The schema after the statements, or a broken one. *)
Run(s, statements) ==
  LET after[k \in 0 .. Len(statements)] ==
        IF k = 0 THEN s
        ELSE LET before == after[k - 1]
             IN IF ~before.broken /\ Executes(before, statements[k])
                THEN Executed(before, statements[k])
                ELSE [before EXCEPT !.broken = TRUE]
  IN after[Len(statements)]
=============================================================================
