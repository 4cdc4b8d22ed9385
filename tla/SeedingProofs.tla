--------------------------- MODULE SeedingProofs ---------------------------
(***************************************************************************)
(* Proofs about Seeding, for every sequence of schemas and tables, every   *)
(* content, batch size and number of copies.                               *)
(***************************************************************************)
EXTENDS Seeding, TLAPS

----------------------------------------------------------------------------
(* Where a copy is.                                                        *)

\* The tables before a position: i tables of schema s are dealt with ...
Upto(s, i) ==
    {t \in Table : \E k \in DOMAIN Schemas : \E j \in DOMAIN Schemas[k] :
        t = Schemas[k][j] /\ (k < s \/ (k = s /\ j <= i))}

\* ... and all tables of the schemas begun.
Begun(s) == {t \in Table : \E k \in DOMAIN Schemas : k <= s /\ t \in SchemaAt(k)}

LEMMA Shape ==
    /\ Len(Schemas) \in Nat /\ DOMAIN Schemas = 1..Len(Schemas)
    /\ \A s \in DOMAIN Schemas :
        /\ Len(Schemas[s]) \in Nat /\ DOMAIN Schemas[s] = 1..Len(Schemas[s])
        /\ SchemaAt(s) = {Schemas[s][i] : i \in DOMAIN Schemas[s]}
        /\ SchemaAt(s) \subseteq Table
<1>1. Schemas \in Seq(Seq(Table))
  BY SeedingAssumption DEF Table
<1>2. \A s \in DOMAIN Schemas : Schemas[s] \in Seq(Table)
  BY <1>1
<1>3. Len(Schemas) \in Nat /\ DOMAIN Schemas = 1..Len(Schemas)
  BY <1>1
<1>4. ASSUME NEW s \in DOMAIN Schemas
      PROVE  /\ Len(Schemas[s]) \in Nat /\ DOMAIN Schemas[s] = 1..Len(Schemas[s])
             /\ SchemaAt(s) = {Schemas[s][i] : i \in DOMAIN Schemas[s]}
             /\ SchemaAt(s) \subseteq Table
  <2>1. Schemas[s] \in Seq(Table)
    BY <1>2
  <2>2. Len(Schemas[s]) \in Nat /\ DOMAIN Schemas[s] = 1..Len(Schemas[s])
    BY <2>1
  <2>3. SchemaAt(s) = {Schemas[s][i] : i \in DOMAIN Schemas[s]}
    BY DEF SchemaAt, ToSet
  <2>4. SchemaAt(s) \subseteq Table
    BY DEF Table
  <2> QED
    BY <2>2, <2>3, <2>4
<1> QED
  BY <1>3, <1>4

LEMMA Once ==
    \A k, s \in DOMAIN Schemas : \A j \in DOMAIN Schemas[k], i \in DOMAIN Schemas[s] :
        Schemas[k][j] = Schemas[s][i] => k = s /\ j = i
  BY SeedingAssumption

LEMMA UptoNothing == Upto(0, 0) = {} /\ Begun(0) = {}
  BY Shape DEF Upto, Begun

LEMMA UptoWithin ==
    ASSUME NEW s \in 0..Len(Schemas), NEW i \in Nat
    PROVE  Upto(s, i) \subseteq Begun(s) /\ Begun(s) \subseteq Table
<1>1. ASSUME NEW k \in DOMAIN Schemas, NEW j \in DOMAIN Schemas[k], k < s \/ k = s
      PROVE  k <= s /\ Schemas[k][j] \in SchemaAt(k)
  BY <1>1, Shape
<1> QED
  BY <1>1 DEF Upto, Begun

\* The next table is new, and is dealt with after those before it.
LEMMA UptoTable ==
    ASSUME NEW s \in DOMAIN Schemas, NEW i \in Nat, i < Len(Schemas[s])
    PROVE  /\ Schemas[s][i + 1] \in Table /\ Schemas[s][i + 1] \in Begun(s)
           /\ Schemas[s][i + 1] \notin Upto(s, i)
           /\ Upto(s, i + 1) = Upto(s, i) \cup {Schemas[s][i + 1]}
<1>1. i + 1 \in DOMAIN Schemas[s] /\ s \in Nat
  BY Shape
<1>2. Schemas[s][i + 1] \in SchemaAt(s) /\ Schemas[s][i + 1] \in Table
  BY <1>1, Shape
<1>3. Schemas[s][i + 1] \in Begun(s)
  BY <1>1, <1>2 DEF Begun
<1>4. Schemas[s][i + 1] \notin Upto(s, i)
  <2>1. ASSUME NEW k \in DOMAIN Schemas, NEW j \in DOMAIN Schemas[k],
               Schemas[s][i + 1] = Schemas[k][j]
        PROVE  k = s /\ j = i + 1
    BY <1>1, <2>1, Once
  <2>2. ~(s < s) /\ ~(i + 1 <= i)
    BY <1>1
  <2> QED
    BY <2>1, <2>2 DEF Upto
<1>5. Upto(s, i + 1) = Upto(s, i) \cup {Schemas[s][i + 1]}
  <2>1. \A k \in DOMAIN Schemas : \A j \in DOMAIN Schemas[k] :
            (k < s \/ (k = s /\ j <= i + 1))
                <=> (k < s \/ (k = s /\ j <= i)) \/ (k = s /\ j = i + 1)
    BY <1>1, Shape
  <2> QED
    BY <1>1, <1>2, <2>1 DEF Upto
<1> QED
  BY <1>2, <1>3, <1>4, <1>5

\* At the end of a schema, everything begun is dealt with ...
LEMMA UptoEnd == ASSUME NEW s \in DOMAIN Schemas PROVE Upto(s, Len(Schemas[s])) = Begun(s)
<1>1. \A k \in DOMAIN Schemas : \A j \in DOMAIN Schemas[k] :
        k < s \/ (k = s /\ j <= Len(Schemas[s])) <=> k <= s
  BY Shape
<1>2. \A k \in DOMAIN Schemas : \A t : t \in SchemaAt(k) <=>
        \E j \in DOMAIN Schemas[k] : t = Schemas[k][j]
  BY Shape
<1> QED
  BY <1>1, <1>2 DEF Upto, Begun

\* ... the next schema is another, and nothing of it is dealt with ...
LEMMA UptoSchema ==
    ASSUME NEW s \in 0..Len(Schemas), s < Len(Schemas)
    PROVE  /\ s + 1 \in DOMAIN Schemas
           /\ Begun(s + 1) = Begun(s) \cup SchemaAt(s + 1)
           /\ Begun(s) \cap SchemaAt(s + 1) = {}
           /\ Upto(s + 1, 0) = Begun(s)
<1>1. s + 1 \in DOMAIN Schemas /\ s \in Nat
  BY Shape
<1>2. \A k \in DOMAIN Schemas : /\ k <= s + 1 <=> k <= s \/ k = s + 1
                                /\ k < s + 1 <=> k <= s
  BY <1>1, Shape
<1>3. Begun(s + 1) = Begun(s) \cup SchemaAt(s + 1)
  <2>1. SchemaAt(s + 1) \subseteq Table
    BY <1>1, Shape
  <2> QED
    BY <1>1, <1>2, <2>1 DEF Begun
<1>4. Begun(s) \cap SchemaAt(s + 1) = {}
  <2> SUFFICES ASSUME NEW k \in DOMAIN Schemas, k <= s, NEW t \in SchemaAt(k),
                      t \in SchemaAt(s + 1)
               PROVE  FALSE
    BY DEF Begun
  <2>1. PICK j \in DOMAIN Schemas[k], i \in DOMAIN Schemas[s + 1] :
            t = Schemas[k][j] /\ t = Schemas[s + 1][i]
    BY <1>1, Shape
  <2>2. k = s + 1
    BY <1>1, <2>1, Once
  <2> QED
    BY <1>1, <2>2
<1>5. Upto(s + 1, 0) = Begun(s)
  <2>1. \A k \in DOMAIN Schemas : \A j \in DOMAIN Schemas[k] :
            k < s + 1 \/ (k = s + 1 /\ j <= 0) <=> k <= s
    BY <1>1, Shape
  <2>2. \A k \in DOMAIN Schemas : \A t : t \in SchemaAt(k) <=>
            \E j \in DOMAIN Schemas[k] : t = Schemas[k][j]
    BY Shape
  <2> QED
    BY <2>1, <2>2 DEF Upto, Begun
<1> QED
  BY <1>1, <1>3, <1>4, <1>5

\* ... and in the end that is every table.
LEMMA UptoAll == Begun(Len(Schemas)) = Table
<1>1. \A k \in DOMAIN Schemas : k <= Len(Schemas)
  BY Shape
<1>2. \A t \in Table : \E k \in DOMAIN Schemas : t \in SchemaAt(k)
  BY DEF Table
<1> QED
  BY <1>1, <1>2 DEF Begun

----------------------------------------------------------------------------
(* Rows, and the counter.                                                  *)

LEMMA RowsEmpty == Empty \in RowMap /\ DOMAIN Empty = {}
<1>1. Empty \in [{} -> Row]
  BY DEF Empty
<1> QED
  BY <1>1 DEF RowMap, Empty

LEMMA RowsAre ==
    ASSUME NEW f \in RowMap
    PROVE  /\ DOMAIN f \subseteq Id /\ f \in [DOMAIN f -> Row]
           /\ DOMAIN f = {} <=> f = Empty
<1>1. PICK ids \in SUBSET Id : f \in [ids -> Row]
  BY DEF RowMap
<1>2. DOMAIN f = {} => f = Empty
  BY <1>1 DEF Empty
<1> QED
  BY <1>1, <1>2, RowsEmpty

LEMMA RowsOnly ==
    ASSUME NEW f \in RowMap, NEW S \in SUBSET DOMAIN f
    PROVE  Only(f, S) \in RowMap /\ DOMAIN Only(f, S) = S
<1>1. Only(f, S) \in [S -> Row]
  BY RowsAre DEF Only
<1>2. S \in SUBSET Id
  BY RowsAre
<1> QED
  BY <1>1, <1>2 DEF RowMap

LEMMA RowsJoined ==
    ASSUME NEW f \in RowMap, NEW g \in RowMap
    PROVE  Joined(f, g) \in RowMap /\ DOMAIN Joined(f, g) = DOMAIN f \cup DOMAIN g
<1>1. Joined(f, g) \in [DOMAIN f \cup DOMAIN g -> Row]
  BY RowsAre DEF Joined
<1>2. DOMAIN f \cup DOMAIN g \in SUBSET Id
  BY RowsAre
<1> QED
  BY <1>1, <1>2 DEF RowMap

\* Rows may be moved from one to the other.
LEMMA JoinedMoves ==
    ASSUME NEW f \in RowMap, NEW g \in RowMap, NEW S \in SUBSET DOMAIN g,
           DOMAIN f \cap DOMAIN g = {}
    PROVE  Joined(Joined(f, Only(g, S)), Only(g, DOMAIN g \ S)) = Joined(f, g)
<1> DEFINE moved == Joined(f, Only(g, S))
           left == Only(g, DOMAIN g \ S)
<1>1. /\ moved = [z \in DOMAIN f \cup S |-> IF z \in DOMAIN f THEN f[z] ELSE g[z]]
      /\ left = [z \in DOMAIN g \ S |-> g[z]]
  BY DEF Joined, Only
<1> HIDE DEF moved, left
<1>2. Joined(moved, left) = [z \in DOMAIN f \cup DOMAIN g |-> IF z \in DOMAIN f THEN f[z] ELSE g[z]]
  BY <1>1 DEF Joined
<1> QED
  BY <1>2 DEF Joined, moved, left

LEMMA JoinedAll == ASSUME NEW f \in RowMap PROVE Joined(f, Empty) = f
<1>1. f = [z \in DOMAIN f |-> f[z]]
  BY RowsAre
<1> QED
  BY <1>1, RowsEmpty DEF Joined

\* A counter is raised only by a key that is not below it, and in MySQL above it.
LEMMA RaisedAbove ==
    ASSUME NEW next \in Nat, NEW ids \in SUBSET Id
    PROVE  /\ Raised(next, ids) \in Nat /\ next <= Raised(next, ids)
           /\ engine # "postgres" => \A id \in ids : id < Raised(next, ids)
           /\ (\A id \in ids : id < next) => Raised(next, ids) = next
<1>1. CASE engine = "postgres" \/ \A id \in ids : id < next
  <2>1. Raised(next, ids) = next
    BY <1>1, Zenon DEF Raised
  <2>2. next <= next
    OBVIOUS
  <2> QED
    BY <1>1, <2>1, <2>2, Zenon
<1>2. CASE ~(engine = "postgres" \/ \A id \in ids : id < next)
  <2>1. PICK big \in ids : ~(big < next)
    BY <1>2
  <2>2. ids \in (SUBSET Id) \ {{}} /\ ids \subseteq Nat
    BY <2>1, SeedingAssumption
  <2>3. \E top \in ids : \A id \in ids : top >= id
    <3>1. PICK top \in ids : \A id \in ids : id <= top
      BY <2>2, SeedingAssumption
    <3> QED
      BY <2>2, <3>1
  <2>4. PICK top \in ids : top = Max(ids) /\ \A id \in ids : top >= id
    BY <2>3, Zenon DEF Max
  <2>5. Raised(next, ids) = top + 1
    BY <1>2, <2>4, Zenon DEF Raised
  <2>6. top \in Nat /\ \A id \in ids : id < top + 1
    BY <2>2, <2>4
  <2>7. top + 1 \in Nat /\ next <= top + 1
    BY <2>1, <2>2, <2>4, <2>6
  <2> QED
    BY <1>2, <2>5, <2>6, <2>7, Zenon
<1> QED
  BY <1>1, <1>2

----------------------------------------------------------------------------
(* The invariant.                                                          *)

InCopy == stage \in {"tables", "created", "rows", "done"}

Finished == stage = "done" => schema = Len(Schemas) /\ SchemaDone

\* Of the schemas begun the target has the tables dealt with and no others, and
\* all but one just created have been queried.
TablesInStep ==
    /\ DOMAIN new \cap Begun(schema) = Upto(schema, at) \ Excluded
    /\ DOMAIN seen = (Upto(schema, at) \ Excluded) \ (IF stage = "created" THEN {Current} ELSE {})

\* What the target has of a table and what the cursor still holds is what the
\* query saw.
RowsInStep ==
    /\ \A t \in DOMAIN seen : (stage = "rows" => t # Current) => new[t].rows = seen[t]
    /\ stage = "created" => Current \notin Excluded /\ new[Current].rows = Empty
    /\ stage = "rows" =>
        /\ Current \in DOMAIN seen
        /\ DOMAIN new[Current].rows \cap DOMAIN pending = {}
        /\ Joined(new[Current].rows, pending) = seen[Current]

\* While the source is quiet, what is copied is what it was at the start.
SourceInStep ==
    /\ Copying => old = source
    /\ InCopy => \A t \in DOMAIN seen : seen[t] = source[t].rows
    /\ alone /\ InCopy /\ engine = "mysql" =>
        \A t \in Upto(schema, at) \ Excluded : new[t].next = source[t].next

KeysInStep ==
    engine = "mysql" => \A t \in DOMAIN new : \A id \in DOMAIN new[t].rows : id < new[t].next

InStep ==
    /\ Finished
    /\ alone /\ InCopy => TablesInStep /\ RowsInStep
    /\ quiet => SourceInStep
    /\ KeysInStep

\* Why SeedIsFaithful is not inductive: it looks at finished copies only.
IInv == SeedTypeOK /\ InStep

----------------------------------------------------------------------------
(* Types.                                                                  *)

\* The table being copied is the last one dealt with ...
LEMMA CurrentTable ==
    ASSUME SeedTypeOK, at > 0
    PROVE  /\ schema \in DOMAIN Schemas /\ at - 1 \in Nat /\ at - 1 < Len(Schemas[schema])
           /\ Current \in Table /\ Current \in Begun(schema)
           /\ Current \notin Upto(schema, at - 1)
           /\ Upto(schema, at) = Upto(schema, at - 1) \cup {Current}
<1>1. schema \in DOMAIN Schemas /\ at \in 1..Len(Schemas[schema])
  BY Shape DEF SeedTypeOK, Listed
<1>2. at - 1 \in Nat /\ at - 1 < Len(Schemas[schema]) /\ at = (at - 1) + 1
  BY <1>1, Shape
<1> QED
  BY <1>1, <1>2, UptoTable DEF Current

\* ... and the one that follows is not.
LEMMA FollowingTable ==
    ASSUME SeedTypeOK, ~SchemaDone
    PROVE  /\ schema \in DOMAIN Schemas /\ at \in Nat /\ at < Len(Schemas[schema])
           /\ Listed = Len(Schemas[schema]) /\ Listed \in Nat
           /\ Following \in Table /\ Following \in Begun(schema)
           /\ Following \notin Upto(schema, at)
           /\ Upto(schema, at + 1) = Upto(schema, at) \cup {Following}
<1>1. schema \in 0..Len(Schemas) /\ at \in 0..Listed /\ at # Listed
  BY DEF SeedTypeOK, SchemaDone
<1>2. schema # 0
  BY <1>1 DEF Listed
<1>3. schema \in DOMAIN Schemas /\ Listed = Len(Schemas[schema]) /\ Listed \in Nat
  BY <1>1, <1>2, Shape DEF Listed
<1>4. at \in Nat /\ at < Len(Schemas[schema])
  BY <1>1, <1>3
<1> QED
  BY <1>3, <1>4, UptoTable DEF Following

LEMMA AllowedIs ==
    /\ Allowed \subseteq TableState
    /\ engine' = engine => Allowed' = Allowed
    /\ \A c \in TableState : c.rows \in RowMap /\ c.next \in Nat
<1>1. Content \subseteq TableState
  BY SeedingAssumption
<1> QED
  BY <1>1 DEF Allowed, TableState

LEMMA OnlyType ==
    ASSUME NEW f, NEW S, NEW D \in SUBSET DOMAIN f, f \in [DOMAIN f -> S]
    PROVE  DOMAIN Only(f, D) = D /\ Only(f, D) \in [D -> S] /\ \A z \in D : Only(f, D)[z] = f[z]
  BY DEF Only

\* The parts of SeedTypeOK: those of the databases, and those of the copy.
DataTypeOK ==
    /\ engine \in {"mysql", "postgres"}
    /\ old \in [Table -> Allowed] /\ source \in [Table -> Allowed]
    /\ DOMAIN new \subseteq Table /\ new \in [DOMAIN new -> TableState]
    /\ DOMAIN seen \subseteq Table /\ seen \in [DOMAIN seen -> RowMap]
    /\ pending \in RowMap

PlaceTypeOK ==
    /\ stage \in {"off", "tables", "created", "rows", "failed", "done"}
    /\ schema \in 0..Len(Schemas)
    /\ at \in 0..Listed
    /\ stage \in {"created", "rows"} => at > 0
    /\ stage = "rows" <=> pending # Empty
    /\ quiet \in BOOLEAN /\ alone \in BOOLEAN
    /\ seeds \in 0..MaxSeeds

LEMMA TypeParts == SeedTypeOK <=> DataTypeOK /\ PlaceTypeOK
  BY Zenon DEF SeedTypeOK, DataTypeOK, PlaceTypeOK

LEMMA InitType == ASSUME SeedInit PROVE SeedTypeOK
<1> USE DEF SeedInit
<1>1. DOMAIN new = {} /\ DOMAIN seen = {} /\ pending \in RowMap
  BY RowsEmpty
<1>2. new \in [DOMAIN new -> TableState] /\ seen \in [DOMAIN seen -> RowMap]
  BY <1>1 DEF Empty
<1>3. DataTypeOK
  BY <1>1, <1>2 DEF DataTypeOK
<1>4. 0 \in 0..Len(Schemas) /\ 0 \in 0..MaxSeeds
  BY Shape, SeedingAssumption
<1>5. PlaceTypeOK
  BY <1>4 DEF PlaceTypeOK, Listed
<1> QED
  BY <1>3, <1>5, TypeParts

\* What one copy's INSERT makes of the table and of the rows that are left.
LEMMA InsertType ==
    ASSUME SeedTypeOK, NEW ids \in SUBSET DOMAIN pending, NEW rest \in SUBSET DOMAIN pending,
           InsertRows(ids, rest)
    PROVE  /\ Current \in Table /\ Current \in DOMAIN new /\ new[Current] \in TableState
           /\ DOMAIN new' = DOMAIN new
           /\ \A t \in DOMAIN new : t # Current => new'[t] = new[t]
           /\ new'[Current].rows = Joined(new[Current].rows, Only(pending, ids))
           /\ DOMAIN new'[Current].rows = DOMAIN new[Current].rows \cup ids
           /\ new'[Current].next = Raised(new[Current].next, ids)
           /\ new'[Current] \in TableState
           /\ DOMAIN pending' = rest /\ pending' \in RowMap
           /\ rest = {} <=> pending' = Empty
<1>1. Current \in DOMAIN new /\ Current \in Table /\ new[Current] \in TableState
  BY DEF SeedTypeOK, InsertRows
<1>2. pending \in RowMap /\ DOMAIN pending \subseteq Id
  BY RowsAre DEF SeedTypeOK
<1>3. new[Current].rows \in RowMap /\ new[Current].next \in Nat
  BY <1>1, AllowedIs
<1>4. Only(pending, ids) \in RowMap /\ Joined(new[Current].rows, Only(pending, ids)) \in RowMap
  BY <1>2, <1>3, RowsOnly, RowsJoined
<1>5. Raised(new[Current].next, ids) \in Nat
  <2>1. \A n \in Nat : Raised(n, ids) \in Nat
    BY <1>2, RaisedAbove
  <2> QED
    BY <1>3, <2>1
<1>6. /\ DOMAIN new' = DOMAIN new
      /\ \A t \in DOMAIN new : t # Current => new'[t] = new[t]
      /\ new'[Current] = [rows |-> Joined(new[Current].rows, Only(pending, ids)),
                          next |-> Raised(new[Current].next, ids)]
  BY <1>1 DEF InsertRows
<1>7. new'[Current] \in TableState
  BY <1>4, <1>5, <1>6 DEF TableState
<1>8. pending' = Only(pending, rest)
  BY DEF InsertRows
<1>9. DOMAIN pending' = rest /\ pending' \in RowMap
  BY <1>2, <1>8, RowsOnly
<1>10. DOMAIN new'[Current].rows = DOMAIN new[Current].rows \cup ids
  <2>1. DOMAIN Only(pending, ids) = ids
    BY <1>2, RowsOnly
  <2>2. DOMAIN Joined(new[Current].rows, Only(pending, ids)) = DOMAIN new[Current].rows \cup ids
    BY <1>3, <1>4, <2>1, RowsJoined
  <2>3. new'[Current].rows = Joined(new[Current].rows, Only(pending, ids))
    BY <1>6
  <2> QED
    BY <2>2, <2>3, Zenon
<1>11. rest = {} <=> pending' = Empty
  <2>1. \A f \in RowMap : DOMAIN f = {} <=> f = Empty
    BY RowsAre
  <2> QED
    BY <1>9, <2>1
<1> QED
  BY <1>1, <1>6, <1>7, <1>9, <1>10, <1>11

\* MySQL gets the counter of the source with the table.
LEMMA CreateStep ==
    ASSUME SeedTypeOK, CreateTable \/ CreateTablePg
    PROVE  \E next \in Nat : CreateWith(next) /\ (engine = "mysql" => next = old[Following].next)
<1>1. CASE CreateTablePg
  BY <1>1 DEF CreateTablePg
<1>2. CASE CreateTable
  <2>1. ~SchemaDone
    BY <1>2 DEF CreateTable, CreateWith
  <2>2. old[Following].next \in Nat
    BY <2>1, FollowingTable, AllowedIs DEF SeedTypeOK
  <2> QED
    BY <1>2, <2>2, Zenon DEF CreateTable
<1> QED
  BY <1>1, <1>2

\* A table that is created is empty, and the others are as they were.
LEMMA CreateType ==
    ASSUME SeedTypeOK, NEW next \in Nat, CreateWith(next)
    PROVE  /\ ~SchemaDone /\ at' = at + 1 /\ Current' = Following
           /\ Following \in Table /\ Following \notin DOMAIN new
           /\ DOMAIN new' = DOMAIN new \cup {Following} /\ DOMAIN new' \subseteq Table
           /\ new' \in [DOMAIN new' -> TableState]
           /\ new'[Following] = [rows |-> Empty, next |-> next]
           /\ \A t \in DOMAIN new : new'[t] = new[t]
<1>1. ~SchemaDone /\ at' = at + 1 /\ Current' = Following /\ Following \notin DOMAIN new
  BY DEF CreateWith, Current, Following
<1>2. Following \in Table
  BY <1>1, FollowingTable
<1>3. [rows |-> Empty, next |-> next] \in TableState
  BY RowsEmpty DEF TableState
<1>4. DOMAIN new \subseteq Table /\ new \in [DOMAIN new -> TableState]
  BY DEF SeedTypeOK
<1>5. new' = Put(new, Following, [rows |-> Empty, next |-> next])
  BY DEF CreateWith
<1>6. ASSUME NEW x, x = Following
      PROVE  /\ DOMAIN new' = DOMAIN new \cup {x} /\ DOMAIN new' \subseteq Table
             /\ new' \in [DOMAIN new' -> TableState]
             /\ new'[x] = [rows |-> Empty, next |-> next]
             /\ \A z \in DOMAIN new : z # x => new'[z] = new[z]
  <2>1. /\ x \in Table /\ new' = Put(new, x, [rows |-> Empty, next |-> next])
        /\ [rows |-> Empty, next |-> next] \in TableState
    BY <1>2, <1>3, <1>5, <1>6
  <2> QED
    BY <1>4, <2>1 DEF Put
<1>7. \A z \in DOMAIN new : z # Following
  BY <1>1
<1> QED
  BY <1>1, <1>2, <1>6, <1>7, Zenon

LEMMA InsertStep ==
    ASSUME InsertBatch \/ StreamCopy
    PROVE  \E ids \in SUBSET DOMAIN pending : InsertRows(ids, DOMAIN pending \ ids)
<1>1. CASE InsertBatch
  BY <1>1 DEF InsertBatch, Batches
<1>2. CASE StreamCopy
  <2>1. DOMAIN pending \ DOMAIN pending = {}
    OBVIOUS
  <2> QED
    BY <1>2, <2>1 DEF StreamCopy
<1> QED
  BY <1>1, <1>2

LEMMA QueryType ==
    ASSUME SeedTypeOK, QueryRows
    PROVE  /\ Current \in Table /\ Current' = Current /\ old[Current].rows \in RowMap
           /\ pending' = old[Current].rows
           /\ DOMAIN seen' = DOMAIN seen \cup {Current} /\ DOMAIN seen' \subseteq Table
           /\ seen' \in [DOMAIN seen' -> RowMap]
           /\ seen'[Current] = old[Current].rows
           /\ \A t \in DOMAIN seen : t # Current => seen'[t] = seen[t]
<1>1. at > 0 /\ Current' = Current /\ pending' = old[Current].rows
  BY DEF SeedTypeOK, QueryRows, Current
<1>2. Current \in Table
  BY <1>1, CurrentTable
<1>3. old[Current].rows \in RowMap
  BY <1>2, AllowedIs DEF SeedTypeOK
<1>4. DOMAIN seen \subseteq Table /\ seen \in [DOMAIN seen -> RowMap]
  BY DEF SeedTypeOK
<1>5. seen' = Put(seen, Current, old[Current].rows)
  BY DEF QueryRows
<1>6. ASSUME NEW x, x = Current, NEW y, y = old[Current].rows
      PROVE  /\ DOMAIN seen' = DOMAIN seen \cup {x} /\ DOMAIN seen' \subseteq Table
             /\ seen' \in [DOMAIN seen' -> RowMap]
             /\ seen'[x] = y
             /\ \A z \in DOMAIN seen : z # x => seen'[z] = seen[z]
  <2>1. x \in Table /\ y \in RowMap /\ seen' = Put(seen, x, y)
    BY <1>2, <1>3, <1>5, <1>6
  <2> QED
    BY <1>4, <2>1 DEF Put
<1> QED
  BY <1>1, <1>2, <1>3, <1>6, Zenon

LEMMA DropType ==
    ASSUME SeedTypeOK, DropSchema
    PROVE  /\ DOMAIN new' = DOMAIN new \ SchemaAt(schema + 1)
           /\ new' \in [DOMAIN new' -> TableState]
           /\ \A t \in DOMAIN new' : new'[t] = new[t]
           /\ schema + 1 \in DOMAIN Schemas /\ schema \in 0..Len(Schemas)
<1>1. DOMAIN new \ SchemaAt(schema + 1) \in SUBSET DOMAIN new
  OBVIOUS
<1>2. new \in [DOMAIN new -> TableState] /\ new' = Only(new, DOMAIN new \ SchemaAt(schema + 1))
  BY DEF SeedTypeOK, DropSchema
<1>3. schema \in 0..Len(Schemas) /\ schema < Len(Schemas)
  BY DEF SeedTypeOK, DropSchema
<1>4. schema + 1 \in DOMAIN Schemas
  BY <1>3, UptoSchema
<1>5. /\ DOMAIN new' = DOMAIN new \ SchemaAt(schema + 1)
      /\ new' \in [DOMAIN new \ SchemaAt(schema + 1) -> TableState]
      /\ \A z \in DOMAIN new \ SchemaAt(schema + 1) : new'[z] = new[z]
  BY <1>1, <1>2, OnlyType
<1> QED
  BY <1>3, <1>4, <1>5, Zenon

\* No step of the copy changes what kind of databases these are, or the source.
LEMMA DataKept ==
    ASSUME DataTypeOK, SeedStep
    PROVE  /\ engine' = engine /\ old' = old /\ old' \in [Table -> Allowed']
           /\ engine' \in {"mysql", "postgres"} /\ source' \in [Table -> Allowed']
<1>1. engine' = engine /\ old' = old
  BY Zenon DEF SeedStep, SeedStart, DropSchema, SkipTable, CreateTable, CreateTablePg, CreateWith,
        QueryRows, InsertBatch, StreamCopy, InsertRows, SeedFails, WriteMarker
<1>2. source' = source \/ source' = old
  BY Zenon DEF SeedStep, SeedStart, DropSchema, SkipTable, CreateTable, CreateTablePg, CreateWith,
        QueryRows, InsertBatch, StreamCopy, InsertRows, SeedFails, WriteMarker
<1>3. Allowed' = Allowed
  BY <1>1, AllowedIs
<1> QED
  BY <1>1, <1>2, <1>3, Zenon DEF DataTypeOK

LEMMA TypeStep == ASSUME SeedTypeOK, SeedStep PROVE SeedTypeOK'
<1>1. DataTypeOK /\ PlaceTypeOK
  BY TypeParts
<1>2. /\ engine' \in {"mysql", "postgres"}
      /\ old' \in [Table -> Allowed'] /\ source' \in [Table -> Allowed']
  BY <1>1, DataKept
<1> SUFFICES /\ DOMAIN new' \subseteq Table /\ new' \in [DOMAIN new' -> TableState]
             /\ DOMAIN seen' \subseteq Table /\ seen' \in [DOMAIN seen' -> RowMap]
             /\ pending' \in RowMap /\ PlaceTypeOK'
  <2>1. (SeedTypeOK <=> DataTypeOK /\ PlaceTypeOK)'
    BY TypeParts, PTL
  <2> QED
    BY <1>2, <2>1, Zenon DEF DataTypeOK
<1>3. CASE SeedStart
  <2>1. DOMAIN seen' = {} /\ seen' \in [DOMAIN seen' -> RowMap] /\ pending' = pending
    BY <1>3, RowsEmpty DEF SeedStart, Empty
  <2>2. /\ DOMAIN new' \subseteq Table /\ new' \in [DOMAIN new' -> TableState]
        /\ pending' \in RowMap
    BY <1>1, <1>3, <2>1 DEF SeedStart, DataTypeOK
  <2>3. 0 \in 0..Len(Schemas) /\ seeds + 1 \in 0..MaxSeeds
    BY <1>1, <1>3, Shape, SeedingAssumption DEF SeedStart, PlaceTypeOK
  <2>4. PlaceTypeOK'
    BY <1>1, <1>3, <2>3 DEF SeedStart, PlaceTypeOK, Listed, Copying
  <2> QED
    BY <2>1, <2>2, <2>4
<1>4. CASE DropSchema
  <2>1. /\ DOMAIN new' \subseteq DOMAIN new /\ new' \in [DOMAIN new' -> TableState]
        /\ schema + 1 \in DOMAIN Schemas
    BY <1>4, DropType
  <2>2. schema + 1 \in 0..Len(Schemas) /\ schema + 1 # 0 /\ Len(Schemas[schema + 1]) \in Nat
    BY <2>1, Shape
  <2>3. PlaceTypeOK'
    BY <1>1, <1>4, <2>2 DEF DropSchema, PlaceTypeOK, Listed
  <2> QED
    BY <1>1, <1>4, <2>1, <2>3 DEF DropSchema, DataTypeOK
<1>5. CASE SkipTable
  <2>1. at + 1 \in 0..Listed
    BY <1>5, FollowingTable DEF SkipTable
  <2>2. PlaceTypeOK'
    BY <1>1, <1>5, <2>1 DEF SkipTable, PlaceTypeOK, Listed
  <2> QED
    BY <1>1, <1>5, <2>2 DEF SkipTable, DataTypeOK
<1>6. CASE CreateTable \/ CreateTablePg
  <2>1. PICK next \in Nat : CreateWith(next)
    BY <1>6, CreateStep
  <2>2. /\ ~SchemaDone /\ DOMAIN new' \subseteq Table /\ new' \in [DOMAIN new' -> TableState]
    BY <2>1, CreateType
  <2>3. at + 1 \in 0..Listed /\ at + 1 > 0
    BY <2>2, FollowingTable
  <2>4. PlaceTypeOK'
    BY <1>1, <2>1, <2>3 DEF CreateWith, PlaceTypeOK, Listed
  <2> QED
    BY <1>1, <2>1, <2>2, <2>4 DEF CreateWith, DataTypeOK
<1>7. CASE QueryRows
  <2>1. /\ pending' \in RowMap
        /\ DOMAIN seen' \subseteq Table /\ seen' \in [DOMAIN seen' -> RowMap]
    BY <1>7, QueryType
  <2>2. PlaceTypeOK'
    BY <1>1, <1>7 DEF QueryRows, PlaceTypeOK, Listed
  <2> QED
    BY <1>1, <1>7, <2>1, <2>2 DEF QueryRows, DataTypeOK
<1>8. CASE InsertBatch \/ StreamCopy
  <2>1. PICK ids \in SUBSET DOMAIN pending : InsertRows(ids, DOMAIN pending \ ids)
    BY <1>8, InsertStep
  <2>2. DOMAIN pending \ ids \in SUBSET DOMAIN pending
    OBVIOUS
  <2>3. /\ Current \in DOMAIN new /\ DOMAIN new' = DOMAIN new
        /\ \A t \in DOMAIN new : t # Current => new'[t] = new[t]
        /\ new'[Current] \in TableState
        /\ pending' \in RowMap /\ (DOMAIN pending \ ids = {} <=> pending' = Empty)
    BY <2>1, <2>2, InsertType
  <2>4. new' \in [DOMAIN new' -> TableState]
    <3>1. \A t \in DOMAIN new : new'[t] \in TableState
      BY <1>1, <2>3 DEF DataTypeOK
    <3>2. new' = [t \in DOMAIN new |-> new'[t]]
      BY <2>1, <2>3 DEF InsertRows
    <3> QED
      BY <2>3, <3>1, <3>2
  <2>5. PlaceTypeOK'
    BY <1>1, <2>1, <2>3 DEF InsertRows, PlaceTypeOK, Listed
  <2> QED
    BY <1>1, <2>1, <2>3, <2>4, <2>5 DEF InsertRows, DataTypeOK
<1>9. CASE SeedFails
  <2>1. PlaceTypeOK'
    BY <1>1, <1>9 DEF SeedFails, PlaceTypeOK, Listed
  <2> QED
    BY <1>1, <1>9, <2>1, RowsEmpty DEF SeedFails, DataTypeOK
<1>10. CASE WriteMarker
  <2>1. PlaceTypeOK'
    BY <1>1, <1>10 DEF WriteMarker, PlaceTypeOK, Listed
  <2> QED
    BY <1>1, <1>10, <2>1 DEF WriteMarker, DataTypeOK
<1> QED
  BY <1>3, <1>4, <1>5, <1>6, <1>7, <1>8, <1>9, <1>10, Zenon DEF SeedStep

\* The applications change contents.
LEMMA TypeUse == ASSUME SeedTypeOK, SourceChanges \/ TargetUsed PROVE SeedTypeOK'
<1>1. DataTypeOK /\ PlaceTypeOK
  BY TypeParts
<1>2. Allowed' = Allowed /\ Allowed \subseteq TableState
  BY AllowedIs DEF SourceChanges, TargetUsed
<1>3. PlaceTypeOK'
  BY <1>1 DEF SourceChanges, TargetUsed, PlaceTypeOK, Listed
<1>4. DataTypeOK'
  <2>1. CASE SourceChanges
    BY <1>1, <1>2, <2>1 DEF SourceChanges, DataTypeOK
  <2>2. CASE TargetUsed
    <3>1. new' \in [DOMAIN new -> TableState]
      BY <1>2, <2>2 DEF TargetUsed
    <3> QED
      BY <1>1, <1>2, <2>2, <3>1 DEF TargetUsed, DataTypeOK
  <2> QED
    BY <2>1, <2>2
<1>5. (SeedTypeOK <=> DataTypeOK /\ PlaceTypeOK)'
  BY TypeParts, PTL
<1> QED
  BY <1>3, <1>4, <1>5, Zenon

LEMMA TypeSame == ASSUME SeedTypeOK, UNCHANGED seedVars PROVE SeedTypeOK'
  BY DEF SeedTypeOK, seedVars, copyVars, Allowed, Listed

----------------------------------------------------------------------------
(* The steps of a copy.                                                    *)

LEMMA InitInStep == ASSUME SeedInit PROVE InStep
<1>1. stage = "off" /\ new = Empty
  BY DEF SeedInit
<1>2. DOMAIN new = {}
  BY <1>1, RowsEmpty
<1> QED
  BY <1>1, <1>2 DEF InStep, Finished, InCopy, SourceInStep, Copying, KeysInStep

\* A copy begins over whatever the target has: nothing of it is in its schemas yet.
LEMMA StartStep == ASSUME IInv, SeedStart PROVE InStep'
<1> USE DEF SeedStart
<1>1. DOMAIN seen' = {} /\ Upto(schema', at') = {} /\ Begun(schema') = {}
  BY RowsEmpty, UptoNothing
<1>2. TablesInStep' /\ RowsInStep'
  BY <1>1 DEF TablesInStep, RowsInStep
<1>3. SourceInStep' /\ KeysInStep' /\ Finished'
  BY <1>1 DEF SourceInStep, KeysInStep, Finished, IInv, InStep
<1> QED
  BY <1>2, <1>3 DEF InStep

\* With the last table of a schema everything begun is dealt with.
LEMMA DoneBegun == ASSUME SeedTypeOK, SchemaDone PROVE Upto(schema, at) = Begun(schema)
<1>1. CASE schema = 0
  <2>1. at = 0
    BY <1>1 DEF SchemaDone, Listed
  <2> QED
    BY <1>1, <2>1, UptoNothing
<1>2. CASE schema # 0
  <2>1. schema \in DOMAIN Schemas /\ at = Len(Schemas[schema])
    BY <1>2, Shape DEF SeedTypeOK, SchemaDone, Listed
  <2> QED
    BY <2>1, UptoEnd
<1> QED
  BY <1>1, <1>2

LEMMA DropStep == ASSUME IInv, DropSchema PROVE InStep'
<1>1. SeedTypeOK /\ InStep
  BY DEF IInv
<1>2. /\ stage = "tables" /\ stage' = "tables" /\ schema' = schema + 1 /\ at' = 0 /\ SchemaDone
      /\ UNCHANGED <<engine, old, pending, seen, source, quiet, alone>>
  BY DEF DropSchema
<1>3. /\ DOMAIN new' = DOMAIN new \ SchemaAt(schema + 1)
      /\ \A t \in DOMAIN new' : new'[t] = new[t]
      /\ schema \in 0..Len(Schemas) /\ schema < Len(Schemas)
  BY <1>1, DropType DEF DropSchema
<1>4. /\ Begun(schema') = Begun(schema) \cup SchemaAt(schema + 1)
      /\ Begun(schema) \cap SchemaAt(schema + 1) = {}
      /\ Upto(schema', at') = Upto(schema, at) /\ Upto(schema, at) = Begun(schema)
  BY <1>1, <1>2, <1>3, UptoSchema, DoneBegun
<1>5. ASSUME alone' /\ InCopy' PROVE TablesInStep' /\ RowsInStep'
  <2>1. TablesInStep /\ RowsInStep
    BY <1>1, <1>2, <1>5 DEF InStep, InCopy
  <2>2. /\ DOMAIN new \cap Begun(schema) = Upto(schema, at) \ Excluded
        /\ DOMAIN seen = Upto(schema, at) \ Excluded
    BY <1>2, <2>1 DEF TablesInStep
  <2>3. TablesInStep'
    BY <1>2, <1>3, <1>4, <2>2 DEF TablesInStep
  <2>4. \A t \in DOMAIN seen : t \in DOMAIN new'
    BY <1>3, <1>4, <2>2
  <2>5. RowsInStep'
    BY <1>2, <1>3, <2>1, <2>4 DEF RowsInStep
  <2> QED
    BY <2>3, <2>5
<1>6. ASSUME quiet' PROVE SourceInStep'
  <2>1. SourceInStep
    BY <1>1, <1>2, <1>6 DEF InStep
  <2>2. alone => \A t \in Upto(schema, at) \ Excluded : t \in DOMAIN new'
    BY <1>1, <1>2, <1>3, <1>4 DEF InStep, InCopy, TablesInStep
  <2> QED
    BY <1>2, <1>3, <1>4, <2>1, <2>2 DEF SourceInStep, InCopy, Copying
<1>7. KeysInStep' /\ Finished'
  BY <1>1, <1>2, <1>3 DEF InStep, KeysInStep, Finished
<1> QED
  BY <1>5, <1>6, <1>7 DEF InStep

LEMMA SkipStep == ASSUME IInv, SkipTable PROVE InStep'
<1>1. SeedTypeOK /\ InStep
  BY DEF IInv
<1>2. /\ stage = "tables" /\ stage' = "tables" /\ schema' = schema /\ at' = at + 1
      /\ ~SchemaDone /\ Following \in Excluded
      /\ UNCHANGED <<engine, old, new, pending, seen, source, quiet, alone>>
  BY DEF SkipTable
<1>3. Upto(schema', at') \ Excluded = Upto(schema, at) \ Excluded
  BY <1>1, <1>2, FollowingTable
<1>4. ASSUME alone' /\ InCopy' PROVE TablesInStep' /\ RowsInStep'
  <2>1. TablesInStep /\ RowsInStep
    BY <1>1, <1>2, <1>4 DEF InStep, InCopy
  <2> QED
    BY <1>2, <1>3, <2>1 DEF TablesInStep, RowsInStep
<1>5. ASSUME quiet' PROVE SourceInStep'
  <2>1. SourceInStep
    BY <1>1, <1>2, <1>5 DEF InStep
  <2> QED
    BY <1>2, <1>3, <2>1 DEF SourceInStep, InCopy, Copying
<1>6. KeysInStep' /\ Finished'
  BY <1>1, <1>2 DEF InStep, KeysInStep, Finished
<1> QED
  BY <1>4, <1>5, <1>6 DEF InStep

LEMMA CreateInStep == ASSUME IInv, CreateTable \/ CreateTablePg PROVE InStep'
<1>1. SeedTypeOK /\ InStep
  BY DEF IInv
<1>2. PICK next \in Nat : CreateWith(next) /\ (engine = "mysql" => next = old[Following].next)
  BY <1>1, CreateStep
<1>3. /\ stage = "tables" /\ stage' = "created" /\ schema' = schema /\ at' = at + 1
      /\ Following \notin Excluded
      /\ UNCHANGED <<engine, old, pending, seen, source, quiet, alone>>
  BY <1>2 DEF CreateWith
<1>4. /\ ~SchemaDone /\ Current' = Following
      /\ Following \notin DOMAIN new /\ DOMAIN new' = DOMAIN new \cup {Following}
      /\ new'[Following] = [rows |-> Empty, next |-> next]
      /\ \A t \in DOMAIN new : new'[t] = new[t]
  BY <1>1, <1>2, CreateType
<1>5. /\ Following \in Begun(schema') /\ Following \notin Upto(schema, at)
      /\ Upto(schema', at') = Upto(schema, at) \cup {Following}
  BY <1>1, <1>3, <1>4, FollowingTable
<1>6. ASSUME alone /\ InCopy
      PROVE  /\ TablesInStep /\ RowsInStep
             /\ DOMAIN new \cap Begun(schema) = Upto(schema, at) \ Excluded
             /\ DOMAIN seen = Upto(schema, at) \ Excluded
  BY <1>1, <1>3, <1>6 DEF InStep, TablesInStep
<1>7. ASSUME alone' /\ InCopy' PROVE TablesInStep' /\ RowsInStep'
  <2>1. alone /\ InCopy
    BY <1>3, <1>7 DEF InCopy
  <2>2. TablesInStep'
    BY <1>3, <1>4, <1>5, <1>6, <2>1 DEF TablesInStep
  <2>3. \A t \in DOMAIN seen : t \in DOMAIN new /\ new[t].rows = seen[t]
    BY <1>3, <1>6, <2>1 DEF RowsInStep
  <2>4. RowsInStep'
    BY <1>3, <1>4, <2>3 DEF RowsInStep
  <2> QED
    BY <2>2, <2>4
<1>8. ASSUME quiet' PROVE SourceInStep'
  <2>1. SourceInStep /\ old = source
    BY <1>1, <1>3, <1>8 DEF InStep, SourceInStep, Copying
  <2>2. ASSUME alone', InCopy', engine' = "mysql", NEW t \in Upto(schema', at') \ Excluded
        PROVE  new'[t].next = source'[t].next
    <3>1. alone /\ InCopy /\ engine = "mysql"
      BY <1>3, <2>2 DEF InCopy
    <3>2. CASE t = Following
      BY <1>2, <1>3, <1>4, <2>1, <3>1, <3>2
    <3>3. CASE t # Following
      <4>1. t \in Upto(schema, at) \ Excluded /\ t \in DOMAIN new
        BY <1>5, <1>6, <2>2, <3>1, <3>3
      <4> QED
        BY <1>3, <1>4, <2>1, <3>1, <4>1 DEF SourceInStep
    <3> QED
      BY <3>2, <3>3
  <2>3. \A t \in DOMAIN seen' : seen'[t] = source'[t].rows
    BY <1>3, <2>1 DEF SourceInStep, InCopy
  <2>4. Copying' => old' = source'
    BY <1>3, <2>1
  <2> QED
    BY <2>2, <2>3, <2>4 DEF SourceInStep
<1>9. KeysInStep'
  BY <1>1, <1>3, <1>4, RowsEmpty DEF InStep, KeysInStep
<1> QED
  BY <1>3, <1>7, <1>8, <1>9 DEF InStep, Finished

LEMMA JoinedNone == ASSUME NEW f \in RowMap PROVE Joined(Empty, f) = f
<1>1. f = [z \in DOMAIN f |-> f[z]]
  BY RowsAre
<1> QED
  BY <1>1, RowsEmpty DEF Joined

LEMMA QueryStep == ASSUME IInv, QueryRows PROVE InStep'
<1>1. SeedTypeOK /\ InStep
  BY DEF IInv
<1>2. /\ stage = "created" /\ schema' = schema /\ at' = at
      /\ stage' = IF pending' = Empty THEN "tables" ELSE "rows"
      /\ UNCHANGED <<engine, old, new, source, quiet, alone>>
  BY DEF QueryRows
<1>3. /\ Current' = Current /\ pending' = old[Current].rows /\ pending' \in RowMap
      /\ DOMAIN seen' = DOMAIN seen \cup {Current} /\ seen'[Current] = pending'
      /\ \A t \in DOMAIN seen : t # Current => seen'[t] = seen[t]
  BY <1>1, QueryType
<1>4. Current \in Upto(schema, at)
  BY <1>1, <1>2, CurrentTable DEF SeedTypeOK
<1>5. ASSUME alone' /\ InCopy' PROVE TablesInStep' /\ RowsInStep'
  <2>1. TablesInStep /\ RowsInStep
    BY <1>1, <1>2, <1>5 DEF InStep, InCopy
  <2>2. DOMAIN seen' = Upto(schema, at) \ Excluded /\ Current \notin DOMAIN seen
    BY <1>2, <1>3, <1>4, <2>1 DEF TablesInStep, RowsInStep
  <2>3. TablesInStep'
    BY <1>2, <2>1, <2>2 DEF TablesInStep
  <2>4. \A t \in DOMAIN seen' : t # Current => new'[t].rows = seen'[t]
    BY <1>2, <1>3, <2>1 DEF RowsInStep
  <2>5. new'[Current].rows = Empty
    BY <1>2, <2>1 DEF RowsInStep
  <2>6. CASE pending' = Empty
    <3>1. \A t \in DOMAIN seen' : new'[t].rows = seen'[t]
      BY <1>3, <2>4, <2>5, <2>6
    <3> QED
      BY <1>2, <2>3, <2>6, <3>1 DEF RowsInStep
  <2>7. CASE pending' # Empty
    <3>1. Joined(Empty, pending') = pending'
      BY <1>3, JoinedNone
    <3>2. Current \in DOMAIN seen' /\ DOMAIN Empty \cap DOMAIN pending' = {}
      BY <1>3, RowsEmpty
    <3> QED
      BY <1>2, <1>3, <2>3, <2>4, <2>5, <2>7, <3>1, <3>2 DEF RowsInStep
  <2> QED
    BY <2>6, <2>7
<1>6. ASSUME quiet' PROVE SourceInStep'
  <2>1. SourceInStep /\ old = source /\ InCopy
    BY <1>1, <1>2, <1>6 DEF InStep, SourceInStep, Copying, InCopy
  <2>2. \A t \in DOMAIN seen' : seen'[t] = source'[t].rows
    BY <1>2, <1>3, <2>1 DEF SourceInStep
  <2> QED
    BY <1>2, <2>1, <2>2 DEF SourceInStep
<1>7. KeysInStep' /\ Finished'
  BY <1>1, <1>2 DEF InStep, KeysInStep, Finished
<1> QED
  BY <1>5, <1>6, <1>7 DEF InStep

\* What the target has of the table grows by what is taken from the cursor.
LEMMA InsertedRows ==
    ASSUME IInv, alone, NEW ids \in SUBSET DOMAIN pending,
           InsertRows(ids, DOMAIN pending \ ids)
    PROVE  /\ new'[Current].rows \in RowMap /\ pending' \in RowMap
           /\ DOMAIN new'[Current].rows \cap DOMAIN pending' = {}
           /\ Joined(new'[Current].rows, pending') = seen[Current]
<1>1. SeedTypeOK /\ RowsInStep /\ stage = "rows"
  BY DEF IInv, InStep, InCopy, InsertRows
<1>2. DOMAIN pending \ ids \in SUBSET DOMAIN pending
  OBVIOUS
<1>3. /\ new[Current] \in TableState /\ new'[Current] \in TableState
      /\ new'[Current].rows = Joined(new[Current].rows, Only(pending, ids))
      /\ DOMAIN new'[Current].rows = DOMAIN new[Current].rows \cup ids
      /\ DOMAIN pending' = DOMAIN pending \ ids /\ pending' \in RowMap
  BY <1>1, <1>2, InsertType
<1>4. new[Current].rows \in RowMap /\ new'[Current].rows \in RowMap /\ pending \in RowMap
  BY <1>1, <1>3, AllowedIs DEF SeedTypeOK
<1>5. pending' = Only(pending, DOMAIN pending \ ids)
  BY DEF InsertRows
<1>6. /\ DOMAIN new[Current].rows \cap DOMAIN pending = {}
      /\ Joined(new[Current].rows, pending) = seen[Current]
  BY <1>1 DEF RowsInStep
<1>7. Joined(new'[Current].rows, pending') = seen[Current]
  BY <1>3, <1>4, <1>5, <1>6, JoinedMoves
<1> QED
  BY <1>3, <1>4, <1>6, <1>7

\* The keys inserted do not raise the counter that came with the table.
LEMMA InsertedNext ==
    ASSUME IInv, alone, quiet, engine = "mysql", NEW ids \in SUBSET DOMAIN pending,
           InsertRows(ids, DOMAIN pending \ ids), Current \in Upto(schema, at) \ Excluded
    PROVE  new'[Current].next = source[Current].next
<1>1. SeedTypeOK /\ RowsInStep /\ SourceInStep /\ InCopy /\ stage = "rows"
  BY DEF IInv, InStep, InCopy, InsertRows
<1>2. DOMAIN pending \ ids \in SUBSET DOMAIN pending
  OBVIOUS
<1>3. /\ Current \in Table /\ new[Current] \in TableState
      /\ new'[Current].next = Raised(new[Current].next, ids)
  BY <1>1, <1>2, InsertType
<1>4. /\ Current \in DOMAIN seen /\ seen[Current] = source[Current].rows
      /\ new[Current].next = source[Current].next
      /\ Joined(new[Current].rows, pending) = seen[Current]
  BY <1>1 DEF RowsInStep, SourceInStep
<1>5. /\ source[Current] \in Allowed
      /\ \A id \in DOMAIN source[Current].rows : id < source[Current].next
  BY <1>1, <1>3 DEF SeedTypeOK, Allowed
<1>6. ids \subseteq DOMAIN seen[Current] /\ ids \subseteq Id
  <2>1. new[Current].rows \in RowMap /\ pending \in RowMap
    BY <1>1, <1>3, AllowedIs DEF SeedTypeOK
  <2>2. ids \subseteq DOMAIN Joined(new[Current].rows, pending) /\ DOMAIN pending \subseteq Id
    BY <2>1, RowsJoined, RowsAre
  <2> QED
    BY <1>4, <2>2
<1>7. ASSUME NEW n, n = new[Current].next PROVE Raised(n, ids) = n
  <2>1. n \in Nat /\ ids \in SUBSET Id /\ \A id \in ids : id < n
    BY <1>3, <1>4, <1>5, <1>6, <1>7, AllowedIs
  <2> QED
    BY <2>1, RaisedAbove
<1> QED
  BY <1>3, <1>4, <1>7

LEMMA InsertInStep == ASSUME IInv, InsertBatch \/ StreamCopy PROVE InStep'
<1>1. SeedTypeOK /\ InStep
  BY DEF IInv
<1>2. PICK ids \in SUBSET DOMAIN pending : InsertRows(ids, DOMAIN pending \ ids)
  BY InsertStep
<1>3. /\ stage = "rows" /\ schema' = schema /\ at' = at /\ Current' = Current
      /\ stage' = IF DOMAIN pending \ ids = {} THEN "tables" ELSE "rows"
      /\ UNCHANGED <<engine, old, seen, source, quiet, alone>>
  BY <1>2 DEF InsertRows, Current
<1>4. DOMAIN pending \ ids \in SUBSET DOMAIN pending
  OBVIOUS
<1>5. /\ Current \in DOMAIN new /\ DOMAIN new' = DOMAIN new /\ new[Current] \in TableState
      /\ \A t \in DOMAIN new : t # Current => new'[t] = new[t]
      /\ DOMAIN new'[Current].rows = DOMAIN new[Current].rows \cup ids
      /\ new'[Current].next = Raised(new[Current].next, ids)
      /\ DOMAIN pending \ ids = {} <=> pending' = Empty
  BY <1>1, <1>2, <1>4, InsertType
<1>6. ASSUME alone' /\ InCopy' PROVE TablesInStep' /\ RowsInStep'
  <2>1. TablesInStep /\ RowsInStep /\ alone
    BY <1>1, <1>3, <1>6 DEF InStep, InCopy
  <2>2. TablesInStep' /\ DOMAIN seen \subseteq DOMAIN new
    BY <1>3, <1>5, <2>1 DEF TablesInStep
  <2>3. \A t \in DOMAIN seen : t # Current => new'[t].rows = seen[t]
    BY <1>3, <1>5, <2>1, <2>2 DEF RowsInStep
  <2>4. /\ new'[Current].rows \in RowMap /\ Current \in DOMAIN seen
        /\ DOMAIN new'[Current].rows \cap DOMAIN pending' = {}
        /\ Joined(new'[Current].rows, pending') = seen[Current]
    BY <1>2, <1>3, <2>1, InsertedRows DEF RowsInStep
  <2>5. CASE DOMAIN pending \ ids = {}
    <3>1. new'[Current].rows = seen[Current]
      BY <1>5, <2>4, <2>5, JoinedAll
    <3> QED
      BY <1>3, <2>2, <2>3, <2>5, <3>1 DEF RowsInStep
  <2>6. CASE DOMAIN pending \ ids # {}
    BY <1>3, <2>2, <2>3, <2>4, <2>6 DEF RowsInStep
  <2> QED
    BY <2>5, <2>6
<1>7. ASSUME quiet' PROVE SourceInStep'
  <2>1. SourceInStep /\ old = source /\ InCopy /\ quiet
    BY <1>1, <1>3, <1>7 DEF InStep, SourceInStep, Copying, InCopy
  <2>2. ASSUME alone', engine' = "mysql", NEW t \in Upto(schema', at') \ Excluded
        PROVE  new'[t].next = source'[t].next
    <3>1. /\ alone /\ engine = "mysql" /\ t \in Upto(schema, at) \ Excluded
          /\ t \in DOMAIN new /\ new[t].next = source[t].next
      BY <1>1, <1>3, <2>1, <2>2 DEF InStep, TablesInStep, SourceInStep
    <3>2. CASE t = Current
      BY <1>2, <1>3, <2>1, <3>1, <3>2, InsertedNext
    <3>3. CASE t # Current
      BY <1>3, <1>5, <3>1, <3>3
    <3> QED
      BY <3>2, <3>3
  <2> QED
    BY <1>3, <2>1, <2>2 DEF SourceInStep
<1>8. ASSUME engine' = "mysql", NEW t \in DOMAIN new', NEW id \in DOMAIN new'[t].rows
      PROVE  id < new'[t].next
  <2>1. engine = "mysql" /\ t \in DOMAIN new /\ \A k \in DOMAIN new[t].rows : k < new[t].next
    BY <1>1, <1>3, <1>5, <1>8 DEF InStep, KeysInStep
  <2>2. CASE t # Current
    BY <1>5, <1>8, <2>1, <2>2
  <2>3. CASE t = Current
    <3>1. /\ new[t].rows \in RowMap /\ pending \in RowMap /\ new[t].next \in Nat
      BY <1>1, <1>5, <2>3, AllowedIs DEF SeedTypeOK
    <3>2. ids \in SUBSET Id
      BY <3>1, RowsAre
    <3>3. id \in DOMAIN new[t].rows \/ id \in ids
      BY <1>5, <1>8, <2>3
    <3>4. id \in Nat
      <4>1. id \in Id
        BY <3>1, <3>2, <3>3, RowsAre
      <4> QED
        BY <4>1, SeedingAssumption
    <3>5. ASSUME NEW n \in Nat, n = new[t].next PROVE id < Raised(n, ids)
      <4>1. /\ Raised(n, ids) \in Nat /\ n <= Raised(n, ids)
            /\ \A k \in ids : k < Raised(n, ids)
        BY <2>1, <3>2, RaisedAbove
      <4>2. id < n \/ id \in ids
        BY <2>1, <3>3, <3>5
      <4> HIDE DEF Raised
      <4> QED
        BY <3>4, <4>1, <4>2
    <3> QED
      BY <1>5, <2>3, <3>1, <3>5
  <2> QED
    BY <2>2, <2>3
<1>9. KeysInStep' /\ Finished'
  BY <1>3, <1>8 DEF KeysInStep, Finished
<1> QED
  BY <1>6, <1>7, <1>9 DEF InStep

LEMMA EndStep == ASSUME IInv, SeedFails \/ WriteMarker PROVE InStep'
<1>1. SeedTypeOK /\ InStep
  BY DEF IInv
<1>2. UNCHANGED <<engine, old, new, schema, at, seen, source, quiet, alone>>
  BY DEF SeedFails, WriteMarker
<1>3. CASE SeedFails
  <2>1. stage' = "failed"
    BY <1>3 DEF SeedFails
  <2> QED
    BY <1>1, <1>2, <2>1
    DEF InStep, Finished, InCopy, SourceInStep, Copying, KeysInStep
<1>4. CASE WriteMarker
  <2>1. stage = "tables" /\ stage' = "done" /\ schema = Len(Schemas) /\ SchemaDone
    BY <1>4 DEF WriteMarker
  <2>2. Finished'
    BY <1>2, <2>1 DEF Finished, SchemaDone, Listed
  <2>3. ASSUME alone' /\ InCopy' PROVE TablesInStep' /\ RowsInStep'
    BY <1>1, <1>2, <2>1, <2>3 DEF InStep, InCopy, TablesInStep, RowsInStep
  <2>4. ASSUME quiet' PROVE SourceInStep'
    BY <1>1, <1>2, <2>1, <2>4 DEF InStep, InCopy, SourceInStep, Copying
  <2> QED
    BY <1>1, <1>2, <2>2, <2>3, <2>4 DEF InStep, KeysInStep
<1> QED
  BY <1>3, <1>4

\* What the applications do ends the promises about rows, and no others.
LEMMA UseStep == ASSUME IInv, SourceChanges \/ TargetUsed PROVE InStep'
<1>1. SeedTypeOK /\ InStep
  BY DEF IInv
<1>2. CASE SourceChanges
  <2>1. /\ quiet' => quiet /\ (Copying => old' = old)
        /\ UNCHANGED <<engine, new, stage, schema, at, pending, seen, source, alone>>
    BY <1>1, <1>2 DEF SourceChanges, SeedTypeOK
  <2>2. alone' /\ InCopy' => TablesInStep' /\ RowsInStep'
    BY <1>1, <2>1 DEF InStep, InCopy, TablesInStep, RowsInStep, Current
  <2>3. quiet' => SourceInStep'
    BY <1>1, <2>1 DEF InStep, InCopy, Copying, SourceInStep
  <2> QED
    BY <1>1, <2>1, <2>2, <2>3 DEF InStep, Finished, SchemaDone, Listed, KeysInStep
<1>3. CASE TargetUsed
  <2>1. /\ new' \in [DOMAIN new -> Allowed] /\ alone' = FALSE
        /\ UNCHANGED <<engine, old, stage, schema, at, pending, seen, source, quiet>>
    BY <1>3 DEF TargetUsed
  <2>2. KeysInStep'
    BY <2>1 DEF KeysInStep, Allowed
  <2>3. quiet' => SourceInStep'
    BY <1>1, <2>1 DEF InStep, InCopy, Copying, SourceInStep
  <2> QED
    BY <1>1, <2>1, <2>2, <2>3 DEF InStep, Finished, SchemaDone, Listed
<1> QED
  BY <1>2, <1>3

----------------------------------------------------------------------------
(* The invariant is inductive, and what follows from it.                   *)

LEMMA InitIInv == ASSUME SeedInit PROVE IInv
  BY InitType, InitInStep DEF IInv

LEMMA NextIInv == ASSUME IInv, [SeedNext]_seedVars PROVE IInv'
<1>1. CASE SeedStep
  <2>1. SeedTypeOK'
    BY <1>1, TypeStep DEF IInv
  <2>2. InStep'
    BY <1>1, StartStep, DropStep, SkipStep, CreateInStep, QueryStep, InsertInStep, EndStep, Zenon
    DEF SeedStep
  <2> QED
    BY <2>1, <2>2 DEF IInv
<1>2. CASE SourceChanges \/ TargetUsed
  BY <1>2, TypeUse, UseStep DEF IInv
<1>3. CASE UNCHANGED seedVars
  <2>1. SeedTypeOK'
    BY <1>3, TypeSame DEF IInv
  <2>2. InStep'
    BY <1>3 DEF IInv, InStep, seedVars, copyVars, Finished, SchemaDone, Listed, InCopy, Copying,
           TablesInStep, RowsInStep, SourceInStep, KeysInStep, Current
  <2> QED
    BY <2>1, <2>2 DEF IInv
<1> QED
  BY <1>1, <1>2, <1>3 DEF SeedNext

LEMMA AlwaysIInv == SeedSpec => []IInv
<1>1. SeedInit => IInv
  BY InitIInv
<1>2. IInv /\ [SeedNext]_seedVars => IInv'
  BY NextIInv
<1> QED
  BY <1>1, <1>2, PTL DEF SeedSpec

\* A copy with its marker has dealt with every table.
LEMMA DoneAll ==
    ASSUME IInv, stage = "done"
    PROVE  /\ Upto(schema, at) = Table
           /\ alone => /\ DOMAIN new = Wanted /\ DOMAIN seen = Wanted
                       /\ \A t \in Wanted : new[t].rows = seen[t]
<1>1. SeedTypeOK /\ InStep /\ InCopy
  BY DEF IInv, InCopy
<1>2. schema = Len(Schemas) /\ SchemaDone
  BY <1>1 DEF InStep, Finished
<1>3. Upto(schema, at) = Table /\ Begun(schema) = Table
  BY <1>1, <1>2, DoneBegun, UptoAll
<1>4. ASSUME alone
      PROVE  /\ DOMAIN new = Wanted /\ DOMAIN seen = Wanted
             /\ \A t \in Wanted : new[t].rows = seen[t]
  <2>1. TablesInStep /\ RowsInStep /\ DOMAIN new \subseteq Table
    BY <1>1, <1>4 DEF InStep, SeedTypeOK
  <2>2. DOMAIN new = Wanted /\ DOMAIN seen = Wanted
    BY <1>3, <2>1 DEF TablesInStep, Wanted
  <2> QED
    BY <2>1, <2>2 DEF RowsInStep
<1> QED
  BY <1>3, <1>4

\* The state of a copy, the tables and rows of both databases and the counters
\* stay in their types through failures and copies started again.
THEOREM SeedTypeCorrect == SeedSpec => []SeedTypeOK
<1>1. IInv => SeedTypeOK
  BY DEF IInv
<1> QED
  BY <1>1, AlwaysIInv, PTL

\* seed.go:4: a copy with its marker, of a source that was quiet into a target
\* nobody used, is the source without the excluded tables, row for row and, for
\* MySQL, with the next keys.
THEOREM SeedAlwaysFaithful == SeedSpec => []SeedIsFaithful
<1>1. IInv => SeedIsFaithful
  <2> SUFFICES ASSUME IInv, stage = "done", quiet, alone
               PROVE  /\ DOMAIN new = Wanted
                      /\ \A t \in Wanted :
                          /\ new[t].rows = source[t].rows
                          /\ engine = "mysql" => new[t].next = source[t].next
    BY DEF SeedIsFaithful
  <2>1. SourceInStep /\ InCopy
    BY DEF IInv, InStep, InCopy
  <2>2. /\ Upto(schema, at) \ Excluded = Wanted /\ DOMAIN new = Wanted /\ DOMAIN seen = Wanted
        /\ \A t \in Wanted : new[t].rows = seen[t]
    BY DoneAll DEF Wanted
  <2> QED
    BY <2>1, <2>2 DEF SourceInStep
<1> QED
  BY <1>1, AlwaysIInv, PTL

\* seed.go:218: whatever the source does meanwhile, every table of a finished
\* copy is exactly what its query saw.
THEOREM SnapshotsAlways == SeedSpec => []TablesAreSnapshots
<1>1. IInv => TablesAreSnapshots
  BY DoneAll DEF TablesAreSnapshots
<1> QED
  BY <1>1, AlwaysIInv, PTL

\* seed.go:153: after the schema is dropped no CREATE TABLE and no INSERT of a
\* copy that is left alone meets what an earlier one left behind.
THEOREM NeverCollidesAlways == SeedSpec => []NeverCollides
<1>1. IInv => NeverCollides
  <2> SUFFICES ASSUME IInv, alone
               PROVE  /\ stage = "tables" /\ ~SchemaDone => Following \notin DOMAIN new
                      /\ stage = "rows" => /\ Current \in DOMAIN new
                                           /\ DOMAIN pending \cap DOMAIN new[Current].rows = {}
    BY DEF NeverCollides
  <2>1. SeedTypeOK /\ (InCopy => TablesInStep /\ RowsInStep)
    BY DEF IInv, InStep
  <2>2. ASSUME stage = "tables", ~SchemaDone PROVE Following \notin DOMAIN new
    <3>1. TablesInStep
      BY <2>1, <2>2 DEF InCopy
    <3>2. Following \in Begun(schema) /\ Following \notin Upto(schema, at)
      BY <2>1, <2>2, FollowingTable
    <3> QED
      BY <3>1, <3>2 DEF TablesInStep
  <2>3. ASSUME stage = "rows"
        PROVE  Current \in DOMAIN new /\ DOMAIN pending \cap DOMAIN new[Current].rows = {}
    <3>1. TablesInStep /\ RowsInStep
      BY <2>1, <2>3 DEF InCopy
    <3> QED
      BY <2>3, <3>1 DEF TablesInStep, RowsInStep
  <2> QED
    BY <2>2, <2>3
<1> QED
  BY <1>1, AlwaysIInv, PTL

\* seed.go:206, "AUTO_INCREMENT counter": what a copy fails to do for the sequences
\* of PostgreSQL it does for the counters of MySQL: the next key is free.
THEOREM MySqlKeysAhead == SeedSpec => [](engine = "mysql" => KeysAreAhead)
<1>1. IInv => (engine = "mysql" => KeysAreAhead)
  BY DEF IInv, InStep, KeysInStep, KeysAreAhead
<1> QED
  BY <1>1, AlwaysIInv, PTL
=============================================================================
