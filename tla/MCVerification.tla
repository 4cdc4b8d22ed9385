--------------------------- MODULE MCVerification ---------------------------
\* Model-checking instance of Verification.
EXTENDS Verification

Insert(t) == [op |-> "INSERT", table |-> t, id |-> 0, v |-> 1]
Update(id, v) == [op |-> "UPDATE", table |-> "item", id |-> id, v |-> v]
Delete(id) == [op |-> "DELETE", table |-> "item", id |-> id, v |-> 0]

\* An UPDATE that keeps the value changes a noise column only.
Statements == {Insert("item"), Insert("audit"), Delete(1)} \cup {Update(1, v) : v \in 1..2}

\* A mapper with an order of its own, sorted away, timestamps that are noise by
\* any name, and a table of no interest ...
Lenient == [noise |-> {<<"**", "ts">>}, sort |-> <<[path |-> <<"items">>, by |-> "id"]>>,
            columns |-> {<<"*", "ts">>}, ignore |-> {"audit"},
            attributed |-> TRUE, backwards |-> TRUE, engine |-> "mysql", number |-> "decimal"]

\* ... noise named place by place, nothing ignored, with PostgreSQL's INTEGER and
\* with its NUMERIC; and a sniffed recording, which has no write-sets.
Strict == [noise |-> {<<"ts">>, <<"items", "*", "ts">>, <<"items", "*">>}, sort |-> <<>>,
           columns |-> {<<"item", "ts">>, <<"audit", "ts">>}, ignore |-> {},
           attributed |-> TRUE, backwards |-> FALSE, engine |-> "postgres", number |-> "num"]

Scaled == [Strict EXCEPT !.number = "numeric"]

Sniffed == [noise |-> {<<"ts">>, <<"*", "*", "ts">>},
            sort |-> <<[path |-> <<"**">>, by |-> "$canonical"]>>,
            columns |-> {}, ignore |-> {}, attributed |-> FALSE, backwards |-> TRUE,
            engine |-> "postgres", number |-> "numeric"]

AllConfigs == {Lenient, Strict, Scaled, Sniffed}

Shop == <<<<"cache", "audit", "item">>>>
Rows == [v : 1..2, ts : {"seed", "old", "new"}]
Contents == [rows : RowMap, next : 1..6]

----------------------------------------------------------------------------
(* An order of everything that is sorted -- ids, items, entries: mixed-     *)
(* radix codes, all different: numbers below 8, items below 300, entries.  *)

Scalar(v) ==
    IF v[1] \in {"num", "numeric"} THEN v[2] ELSE CHOOSE i \in 1..3 : v[2] = <<"seed", "old", "new">>[i]
Column(row, k, code(_)) == IF k \in DOMAIN row THEN code(row[k]) ELSE 0
PairCode(v) == 4 * Scalar(v[2].before) + Scalar(v[2].after)

CodeOfRow(row) ==
    Column(row, "id", Scalar) + 8 * Column(row, "v", Scalar) + 32 * Column(row, "ts", Scalar)
CodeOfUpdate(row) == Column(row, "v", PairCode) + 16 * Column(row, "ts", PairCode)
CodeOfEntry(e) ==
    Scalar(e.pk) + 8 * (IF e.op = "UPDATE" THEN CodeOfUpdate(e.payload) ELSE CodeOfRow(e.payload))
        + 3000 * (CHOOSE i \in 1..3 : e.op = <<"DELETE", "INSERT", "UPDATE">>[i])
        + 10000 * (CHOOSE i \in 1..2 : e.table = <<"audit", "item">>[i])

Order(v) ==
    IF v[1] # "obj" THEN Scalar(v)
    ELSE IF "payload" \in DOMAIN v[2] THEN CodeOfEntry(v[2]) ELSE 10 + CodeOfRow(v[2])
=============================================================================
