------------------------------ MODULE Seeding ------------------------------
(***************************************************************************)
(* Seeding: the dashboard (internal/ui/seed_api.go) has the old stack's    *)
(* database copied over the new stack's, schema by schema and table by     *)
(* table: internal/seed/seed.go for MySQL, internal/pg/copy.go for         *)
(* PostgreSQL.  Nothing keeps the source from changing meanwhile, nothing  *)
(* keeps a job from replaying against the target, and a copy may fail      *)
(* anywhere and be started again over what it left.                        *)
(***************************************************************************)
EXTENDS FiniteSetsExt, SequencesExt, Naturals

CONSTANTS
    Schemas,     \* the schemas to copy, in order: of each the sequence of its
                 \* tables, as listTables gives them
    Excluded,    \* tables that are not to be copied
    Id,          \* primary keys
    Row,         \* the rest of a row
    Content,     \* what an application may leave in a table
    BatchRows,   \* rows per INSERT of the copy of a MySQL database
    MaxSeeds     \* copies started, at most

SchemaAt(s) == ToSet(Schemas[s])
Table == UNION {SchemaAt(s) : s \in DOMAIN Schemas}

\* Rows by primary key, and the next key of an AUTO_INCREMENT or a sequence.
RowMap == UNION {[ids -> Row] : ids \in SUBSET Id}
TableState == [rows : RowMap, next : Nat]

\* A table belongs to one schema and is listed once; of any keys one is the highest.
ASSUME SeedingAssumption ==
    /\ Schemas \in Seq(Seq(UNION {SchemaAt(s) : s \in DOMAIN Schemas}))
    /\ \A s1, s2 \in DOMAIN Schemas : \A i \in DOMAIN Schemas[s1], j \in DOMAIN Schemas[s2] :
        Schemas[s1][i] = Schemas[s2][j] => s1 = s2 /\ i = j
    /\ Id \subseteq Nat
    /\ \A ids \in (SUBSET Id) \ {{}} : \E top \in ids : \A id \in ids : id <= top
    /\ Content \subseteq TableState
    /\ BatchRows \in Nat \ {0}
    /\ MaxSeeds \in Nat

VARIABLES
    engine,   \* what kind of database both are
    old,      \* the source: each table's content
    new,      \* the target: the content of the tables it has
    stage,    \* where the copy is: between tables, a table "created" without
              \* its rows, inserting "rows"
    schema,   \* schemas begun
    at,       \* tables of the latest of them that are dealt with
    pending,  \* rows the query has given, or will give, that are not inserted
    seen,     \* for an observer: each table's rows at the time of its query
    source,   \* ... the source when the copy started
    quiet,    \* ... has it stayed so until the copy ended?
    alone,    \* ... has nobody else used the target since the copy started?
    seeds     \* copies started

copyVars == <<stage, schema, at, pending, seen, source, seeds>>
seedVars == <<engine, old, new, copyVars, quiet, alone>>

\* What an application may leave: MySQL keeps a counter above the keys in its table.
Allowed == {c \in Content : engine = "mysql" => \A id \in DOMAIN c.rows : id < c.next}

Empty == [x \in {} |-> x]
Put(f, x, y) == [z \in DOMAIN f \cup {x} |-> IF z = x THEN y ELSE f[z]]
Only(f, S) == [z \in S |-> f[z]]
Joined(f, g) == [z \in DOMAIN f \cup DOMAIN g |-> IF z \in DOMAIN f THEN f[z] ELSE g[z]]

SeedInit ==
    /\ engine \in {"mysql", "postgres"}
    /\ old \in [Table -> Allowed]
    /\ new = Empty
    /\ stage = "off" /\ schema = 0 /\ at = 0
    /\ pending = Empty /\ seen = Empty
    /\ source = old /\ quiet = TRUE /\ alone = TRUE
    /\ seeds = 0

Copying == stage \in {"tables", "created", "rows"}

\* The table being copied, and the one after it.
Current == Schemas[schema][at]
Following == Schemas[schema][at + 1]

\* Every table of the latest schema is dealt with.
Listed == IF schema = 0 THEN 0 ELSE Len(Schemas[schema])
SchemaDone == at = Listed

----------------------------------------------------------------------------

\* seedStart refuses a second copy while one runs, but not while a job replays.
SeedStart ==
    /\ ~Copying
    /\ seeds < MaxSeeds
    /\ seeds' = seeds + 1
    /\ stage' = "tables" /\ schema' = 0 /\ at' = 0
    /\ seen' = Empty
    /\ source' = old /\ quiet' = TRUE /\ alone' = TRUE
    /\ UNCHANGED <<engine, old, new, pending>>

\* Mutant of DropSchema: CREATE SCHEMA IF NOT EXISTS, and what is there stays.
DropSchemaNever ==
    /\ stage = "tables" /\ SchemaDone /\ schema < Len(Schemas)
    /\ schema' = schema + 1 /\ at' = 0
    /\ UNCHANGED <<engine, old, new, stage, pending, seen, source, quiet, alone, seeds>>

\* copySchema: the target's schema is dropped with all its tables, and created.
DropSchema ==
    /\ stage = "tables" /\ SchemaDone /\ schema < Len(Schemas)
    /\ schema' = schema + 1 /\ at' = 0
    /\ new' = Only(new, DOMAIN new \ SchemaAt(schema + 1))
    /\ UNCHANGED <<engine, old, stage, pending, seen, source, quiet, alone, seeds>>

SkipTable ==
    /\ stage = "tables" /\ ~SchemaDone
    /\ Following \in Excluded
    /\ at' = at + 1
    /\ UNCHANGED <<engine, old, new, stage, schema, pending, seen, source, quiet, alone, seeds>>

\* CREATE TABLE, with a counter; it fails when the table exists.
CreateWith(next) ==
    /\ stage = "tables" /\ ~SchemaDone
    /\ Following \notin Excluded
    /\ Following \notin DOMAIN new
    /\ stage' = "created" /\ at' = at + 1
    /\ new' = Put(new, Following, [rows |-> Empty, next |-> next])
    /\ UNCHANGED <<engine, old, schema, pending, seen, source, quiet, alone, seeds>>

\* Mutant of CreateTable: without the AUTO_INCREMENT counter.
CreateTableUncounted == engine = "mysql" /\ CreateWith(1)

\* MySQL: SHOW CREATE TABLE carries the AUTO_INCREMENT counter over.
CreateTable == engine = "mysql" /\ CreateWith(old[Following].next)

\* PostgreSQL: CREATE SEQUENCE starts anew.
CreateTablePg == engine = "postgres" /\ CreateWith(1)

\* SELECT * or COPY ... TO STDOUT: one statement, which sees the table as it is now.
QueryRows ==
    /\ stage = "created"
    /\ pending' = old[Current].rows
    /\ seen' = Put(seen, Current, old[Current].rows)
    /\ stage' = IF pending' = Empty THEN "tables" ELSE "rows"
    /\ UNCHANGED <<engine, old, new, schema, at, source, quiet, alone, seeds>>

\* In MySQL a key that is given raises the counter above it.
Raised(next, ids) ==
    IF engine = "postgres" \/ \A id \in ids : id < next THEN next ELSE Max(ids) + 1

\* A batch with a key that the table has already is refused as a whole.
InsertRows(ids, rest) ==
    /\ stage = "rows"
    /\ Current \in DOMAIN new
    /\ ids \cap DOMAIN new[Current].rows = {}
    /\ new' = [new EXCEPT ![Current] = [rows |-> Joined(@.rows, Only(pending, ids)),
                                        next |-> Raised(@.next, ids)]]
    /\ pending' = Only(pending, rest)
    /\ stage' = IF rest = {} THEN "tables" ELSE "rows"
    /\ UNCHANGED <<engine, old, schema, at, seen, source, quiet, alone, seeds>>

\* What the cursor may give before flush: a full batch, or what is left.
Batches ==
    {ids \in SUBSET DOMAIN pending :
        \/ Cardinality(ids) = BatchRows
        \/ ids = DOMAIN pending /\ Cardinality(ids) < BatchRows}

\* Mutant of InsertBatch: the last flush is missing.
InsertFullBatch ==
    /\ engine = "mysql"
    /\ \E ids \in Batches :
        LET left == DOMAIN pending \ ids IN
        InsertRows(ids, IF Cardinality(left) < BatchRows THEN {} ELSE left)

\* MySQL: flush of one batch.
InsertBatch == engine = "mysql" /\ \E ids \in Batches : InsertRows(ids, DOMAIN pending \ ids)

\* PostgreSQL: one COPY, all of the rows or none.  resetSequences, which follows,
\* asks for sequences a column owns: CREATE SEQUENCE has made none.
StreamCopy == engine = "postgres" /\ InsertRows(DOMAIN pending, {})

\* A connection or a statement fails: what was copied stays.
SeedFails ==
    /\ Copying
    /\ stage' = "failed" /\ pending' = Empty
    /\ UNCHANGED <<engine, old, new, schema, at, seen, source, quiet, alone, seeds>>

\* Every schema was copied: the marker is appended.
WriteMarker ==
    /\ stage = "tables" /\ SchemaDone /\ schema = Len(Schemas)
    /\ stage' = "done"
    /\ UNCHANGED <<engine, old, new, schema, at, pending, seen, source, quiet, alone, seeds>>

SeedStep ==
    \/ SeedStart \/ DropSchema \/ SkipTable \/ CreateTable \/ CreateTablePg \/ QueryRows
    \/ InsertBatch \/ StreamCopy \/ SeedFails \/ WriteMarker

----------------------------------------------------------------------------
(* The applications on both sides, which change rows and never tables.     *)

SourceChanges ==
    /\ old' \in [Table -> Allowed]
    /\ quiet' = (quiet /\ (~Copying \/ old' = old))
    /\ UNCHANGED <<engine, new, stage, schema, at, pending, seen, source, alone, seeds>>

TargetUsed ==
    /\ new' \in [DOMAIN new -> Allowed]
    /\ alone' = FALSE
    /\ UNCHANGED <<engine, old, stage, schema, at, pending, seen, source, quiet, seeds>>

SeedNext == SeedStep \/ SourceChanges \/ TargetUsed

\* Verification is shown to implement it: the copies of seed_api.go, which run
\* beside everything else, see recording and verifying only as changes of
\* content, and never lose or gain a table by them.
SeedSpec == SeedInit /\ [][SeedNext]_seedVars

----------------------------------------------------------------------------
(* Properties.                                                             *)

SeedTypeOK ==
    /\ engine \in {"mysql", "postgres"}
    /\ old \in [Table -> Allowed] /\ source \in [Table -> Allowed]
    /\ DOMAIN new \subseteq Table /\ new \in [DOMAIN new -> TableState]
    /\ DOMAIN seen \subseteq Table /\ seen \in [DOMAIN seen -> RowMap]
    /\ stage \in {"off", "tables", "created", "rows", "failed", "done"}
    /\ schema \in 0..Len(Schemas)
    /\ at \in 0..Listed
    /\ stage \in {"created", "rows"} => at > 0
    /\ pending \in RowMap
    /\ stage = "rows" <=> pending # Empty
    /\ quiet \in BOOLEAN /\ alone \in BOOLEAN
    /\ seeds \in 0..MaxSeeds

Wanted == Table \ Excluded

\* seed.go:4, "AUTO_INCREMENT counters carried over": a copy that reaches its
\* marker while the source was quiet is the source, without the excluded
\* tables -- for PostgreSQL, whose sequences start again, up to the next keys.
\* In batches of whatever size, and over what an earlier copy left half-done.
SeedIsFaithful ==
    stage = "done" /\ quiet /\ alone =>
        /\ DOMAIN new = Wanted
        /\ \A t \in Wanted :
            /\ new[t].rows = source[t].rows
            /\ engine = "mysql" => new[t].next = source[t].next

\* The source is not locked: of one that was in use the copy is no snapshot, but
\* each table is one, exactly as it was when it was queried.
TablesAreSnapshots ==
    stage = "done" /\ alone =>
        /\ DOMAIN new = Wanted /\ DOMAIN seen = Wanted
        /\ \A t \in Wanted : new[t].rows = seen[t]

\* A copy that is left alone meets nothing of an earlier one: the table it is about to
\* create does not exist, and no row it has still to insert is there.  (Other reasons
\* to fail, the order of foreign keys above all, are not modelled.)
NeverCollides ==
    alone =>
        /\ stage = "tables" /\ ~SchemaDone => Following \notin DOMAIN new
        /\ stage = "rows" =>
            Current \in DOMAIN new /\ DOMAIN pending \cap DOMAIN new[Current].rows = {}

\* pg/copy.go:230, "keep serial/identity sequences ahead of copied data": in a
\* finished copy the next INSERT without a key gets one that is free.
KeysAreAhead ==
    stage = "done" /\ alone =>
        \A t \in DOMAIN new : \A id \in DOMAIN new[t].rows : id < new[t].next
=============================================================================
