-------------------------- MODULE DataSourceQueries --------------------------
(***************************************************************************)
(* Queries on data sources: each is bound to a database when it arrives,   *)
(* and narrowed by an index when act_node asks for the schema, while the   *)
(* sources and their indexes change as in module DataSourceIndex.          *)
(***************************************************************************)
EXTENDS DataSourceIndex

CONSTANT Queries   (* bound: queries at the same time                        *)

VARIABLES
    default,   (* database of the index of get_default_linker                *)
    queries    (* per query the source and the database it is bound to       *)

queryVars == <<default, queries>>
allVars == <<vars, queryVars>>

IdleQuery == [src |-> None, db |-> None]

QInit == Init /\ default = None /\ queries = [q \in Queries |-> IdleQuery]

(* datasource_id names a source, which must be registered and enabled.     *)
BindSource(q, s) ==
    /\ queries[q] = IdleQuery
    /\ Registered(s)
    /\ entries[s].enabled
    /\ queries' = [queries EXCEPT ![q] = [src |-> s, db |-> entries[s].db]]
    /\ UNCHANGED default

(* Without one the query runs on its db_path, or on the server's.          *)
BindPath(q, d) ==
    /\ queries[q] = IdleQuery
    /\ queries' = [queries EXCEPT ![q] = [src |-> None, db |-> d]]
    /\ UNCHANGED default

(* The index that narrows a query: that of its source, if there is one,    *)
(* else the default one, for whatever database that was built.             *)
Narrowing(q) ==
    IF queries[q].src # None /\ linkers[queries[q].src] # NoIndex
    THEN linkers[queries[q].src].db
    ELSE default

(* The default index is loaded from its file, else built for the db_path   *)
(* of the first query that needs it, and then kept: the test for another   *)
(* db_path reads an attribute, _db_path, that SchemaIndexer does not have. *)
Link(q) ==
    /\ queries[q] # IdleQuery
    /\ IF Narrowing(q) # None THEN UNCHANGED default
       ELSE default' \in {None} \cup (IF queries[q].src = None THEN {queries[q].db}
                                      ELSE Databases)
    /\ queries' = [queries EXCEPT ![q] = IdleQuery]

AdminReindex(d) == default' = d /\ UNCHANGED queries

QueryStep ==
    \/ \E q \in Queries :
          \/ \E s \in Sources : BindSource(q, s)
          \/ \E d \in Databases : BindPath(q, d)
          \/ Link(q)
    \/ \E d \in Databases : AdminReindex(d)

(* A restart takes the queries along; the default index is in its file.    *)
QNext ==
    \/ QueryStep /\ UNCHANGED vars
    \/ /\ Next
       /\ UNCHANGED default
       /\ queries' = IF boots' = boots THEN queries ELSE [q \in Queries |-> IdleQuery]

QSpec == QInit /\ [][QNext]_allVars

(* A query bound to a data source is narrowed only by an index of the      *)
(* database it runs on.                                                    *)
NarrowedByOwnIndex ==
    \A q \in Queries : queries[q].src # None => Narrowing(q) \in {None, queries[q].db}
==============================================================================
