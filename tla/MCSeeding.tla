----------------------------- MODULE MCSeeding -----------------------------
\* Model-checking instance of Seeding: a schema of one table that is copied and
\* one that is not, and a schema of one table.
EXTENDS Seeding

SomeSchemas == <<<<"audit", "cache">>, <<"item">>>>

Holds(ids, next) == [rows |-> [id \in ids |-> "row"], next |-> next]

\* A table whose only row was deleted, and one of three rows: a batch and a half.
Contents == {Holds({}, 2), Holds(1..3, 4)}
=============================================================================
