----------------------------- MODULE DiffEngine -----------------------------
(***************************************************************************)
(* The comparison of two responses and of two write-sets                   *)
(* (internal/diff/diff.go), and what a write-set goes through in a golden  *)
(* file.                                                                   *)
(*                                                                         *)
(* A value is a pair of a tag and its content: a number or string, of JSON *)
(* or of a database driver, an object with a function from its keys, an    *)
(* array with a sequence. "decimal" is MySQL's DECIMAL, decimal.Decimal;   *)
(* "numeric" is PostgreSQL's NUMERIC with a scale, pgtype.Numeric, whose   *)
(* JSON text has its trailing zeros. A difference is its path or label;    *)
(* the order of the list of differences, and the values it shows, are left *)
(* out.                                                                    *)
(***************************************************************************)
EXTENDS Integers, Sequences, FiniteSets, SequencesExt

CONSTANTS
    Width,      \* bits of an int64
    Mantissa,   \* bits of a float64's significand
    Rank(_)     \* a number for each value that is sorted: the order of JSON texts

ASSUME DiffAssumption == Width \in Nat \ {0} /\ Mantissa \in Nat \ {0}

Null == <<"null", 0>>
Num(n) == <<"num", n>>
Obj(f) == <<"obj", f>>
Arr(s) == <<"arr", s>>
Absent == <<"text", "<absent>">>
NoRow == [x \in {} |-> Null]

IsObj(v) == v[1] = "obj"
IsArr(v) == v[1] = "arr"

----------------------------------------------------------------------------
(* Values.                                                                 *)

\* int64(x), and decimal's IntPart: the low bits.
Int64(n) == ((n + 2 ^ (Width - 1)) % 2 ^ Width) - 2 ^ (Width - 1)

\* A pgtype.Numeric is none of the cases, and stays what it is.
RECURSIVE NormValue(_)
NormValue(v) ==
    CASE v[1] \in {"uint64", "decimal"} -> Num(Int64(v[2]))
      [] v[1] = "bytes" -> <<"text", v[2]>>
      [] IsObj(v) -> Obj([k \in DOMAIN v[2] |-> NormValue(v[2][k])])
      [] IsArr(v) -> Arr([i \in DOMAIN v[2] |-> NormValue(v[2][i])])
      [] OTHER -> v

\* canonical: the texts of two values are equal when their normal forms are.
Equal(v, w) == NormValue(v) = NormValue(w)

\* float64 of a natural number: the nearest of Mantissa bits, ties to even.
Float64(n) ==
    LET e == CHOOSE k \in 0..n : n < 2 ^ (Mantissa + k)
                                 /\ (k = 0 \/ n >= 2 ^ (Mantissa + k - 1))
        q == n \div 2 ^ e
        r == 2 * (n % 2 ^ e)
    IN IF r > 2 ^ e \/ (r = 2 ^ e /\ q % 2 = 1) THEN (q + 1) * 2 ^ e ELSE q * 2 ^ e

\* json.Unmarshal of json.Marshal: every number comes back as a float64.
RECURSIVE Decoded(_)
Decoded(v) ==
    CASE v[1] \in {"num", "numeric"} /\ v[2] >= 0 -> Num(Float64(v[2]))
      [] v[1] \in {"num", "numeric"} /\ v[2] < 0 -> Num(-Float64(-v[2]))
      [] IsObj(v) -> Obj([k \in DOMAIN v[2] |-> Decoded(v[2][k])])
      [] IsArr(v) -> Arr([i \in DOMAIN v[2] |-> Decoded(v[2][i])])
      [] OTHER -> v

----------------------------------------------------------------------------
(* Paths: sequences of keys and of an array's indices, which a pattern can  *)
(* match with "*" (exactly one) and "**" (zero or more).                    *)

\* Mutant of PathMatches: "**" takes one at least.
RECURSIVE PathMatchesSome(_, _)
PathMatchesSome(pat, path) ==
    IF pat = <<>> THEN path = <<>>
    ELSE IF Head(pat) = "**"
    THEN \E i \in 2..(Len(path) + 1) : PathMatchesSome(Tail(pat), SubSeq(path, i, Len(path)))
    ELSE /\ path # <<>>
         /\ Head(pat) \in {"*", Head(path)}
         /\ PathMatchesSome(Tail(pat), Tail(path))

RECURSIVE PathMatches(_, _)
PathMatches(pat, path) ==
    IF pat = <<>> THEN path = <<>>
    ELSE IF Head(pat) = "**"
    THEN \E i \in 1..(Len(path) + 1) : PathMatches(Tail(pat), SubSeq(path, i, Len(path)))
    ELSE /\ path # <<>>
         /\ Head(pat) \in {"*", Head(path)}
         /\ PathMatches(Tail(pat), Tail(path))

\* strconv.Itoa of an index, which counts from zero.
Index(i) == ToString(i - 1)

\* sort.SliceStable of s by the texts of its elements' keys.
StableSort(s, keys) ==
    LET rank == [i \in DOMAIN s |-> Rank(keys[i])]
        before(i, j) == rank[i] < rank[j] \/ (rank[i] = rank[j] /\ i < j)
        order == SetToSortSeq(DOMAIN s, before)
    IN [i \in DOMAIN s |-> s[order[i]]]

SortKey(e, by) ==
    IF by \notin {"", "$canonical"} /\ IsObj(e)
    THEN IF by \in DOMAIN e[2] THEN NormValue(e[2][by]) ELSE Null
    ELSE NormValue(e)

\* The first rule that matches the array's path sorts it.
SortItems(items, rules, path) ==
    LET matching == {i \in DOMAIN rules : PathMatches(rules[i].path, path)} IN
    IF matching = {} THEN items
    ELSE LET by == rules[CHOOSE i \in matching : \A j \in matching : i <= j].by IN
         StableSort(items, [i \in DOMAIN items |-> SortKey(items[i], by)])

RECURSIVE SortArrays(_, _, _)
SortArrays(v, rules, path) ==
    CASE IsObj(v) -> Obj([k \in DOMAIN v[2] |-> SortArrays(v[2][k], rules, Append(path, k))])
      [] IsArr(v) -> Arr(SortItems([i \in DOMAIN v[2] |->
                                    SortArrays(v[2][i], rules, Append(path, Index(i)))],
                                   rules, path))
      [] OTHER -> v

Noisy(path, patterns) == \E p \in patterns : PathMatches(p, path)

\* Only the keys of objects are removed; a pattern that ends in an array's index
\* removes nothing.
RECURSIVE StripNoise(_, _, _)
StripNoise(v, patterns, path) ==
    CASE IsObj(v) ->
            Obj([k \in {j \in DOMAIN v[2] : ~Noisy(Append(path, j), patterns)} |->
                    StripNoise(v[2][k], patterns, Append(path, k))])
      [] IsArr(v) ->
            Arr([i \in DOMAIN v[2] |-> StripNoise(v[2][i], patterns, Append(path, Index(i)))])
      [] OTHER -> v

----------------------------------------------------------------------------
(* Responses.                                                              *)

RECURSIVE DiffJSON(_, _, _)
DiffJSON(old, new, path) ==
    IF IsObj(old) /\ IsObj(new)
    THEN UNION {LET child == Append(path, k) IN
                IF k \in DOMAIN old[2] \cap DOMAIN new[2]
                THEN DiffJSON(old[2][k], new[2][k], child) ELSE {child} :
                k \in DOMAIN old[2] \cup DOMAIN new[2]}
    ELSE IF IsArr(old) /\ IsArr(new)
    THEN (IF Len(old[2]) = Len(new[2]) THEN {} ELSE {Append(path, "length")})
         \cup UNION {DiffJSON(old[2][i], new[2][i], Append(path, Index(i))) :
                     i \in DOMAIN old[2] \cap DOMAIN new[2]}
    ELSE IF Equal(old, new) THEN {} ELSE {path}

\* tryJSON: anything but an object or an array counts as text.
IsJSON(body) == IsObj(body) \/ IsArr(body)

DiffBodies(old, new, opts) ==
    LET Normalized(v) == SortArrays(StripNoise(v, opts.noise, <<>>), opts.sort, <<>>) IN
    IF IsJSON(old) \/ IsJSON(new) THEN DiffJSON(Normalized(old), Normalized(new), <<>>)
    ELSE IF old = new THEN {} ELSE {<<"body">>}

DiffResponses(old, new, opts) ==
    (IF old.status = new.status THEN {} ELSE {<<"status">>})
        \cup DiffBodies(old.body, new.body, opts)

----------------------------------------------------------------------------
(* Write-sets.  A row change has a table (a schema and its bare name), an   *)
(* op and the rows before and after it, functions from their columns.       *)

\* The schema part of a pattern is never compared: a pattern is cut at its first
\* dot, so what it names is a bare table and a column.
ColIsNoise(table, column, patterns) ==
    \E p \in patterns : p[1] \in {"*", table.bare} /\ p[2] \in {"*", column}

Value(row, k) == IF k \in DOMAIN row THEN row[k] ELSE Null

\* One change as an entry: its row's key and the columns that tell it apart.
Entry(ch, noise) ==
    LET Clean(row) == [k \in {c \in DOMAIN row : ~ColIsNoise(ch.table, c, noise)} |->
                          NormValue(row[k])]
        before == Clean(ch.before)
        after == Clean(ch.after)
        changed == {k \in DOMAIN before \cup DOMAIN after : ~Equal(Value(before, k), Value(after, k))}
    IN [table |-> ch.table.bare, op |-> ch.op,
        pk |-> NormValue(Value(IF ch.op = "DELETE" THEN ch.before ELSE ch.after, "id")),
        payload |-> CASE ch.op = "UPDATE" ->
                            [k \in changed |-> Obj([before |-> Value(before, k),
                                                    after |-> Value(after, k)])]
                      [] ch.op = "INSERT" -> after
                      [] OTHER -> before]

\* An ignored table is named with or without its schema; an UPDATE of nothing but
\* noise is dropped.
Kept(ch, noise, ignore) ==
    /\ {ch.table.bare, ch.table.schema \o "." \o ch.table.bare} \cap ignore = {}
    /\ ch.op = "UPDATE" => Entry(ch, noise).payload # NoRow

NormalizeWriteset(changes, noise, ignore) ==
    LET kept == SelectSeq(changes, LAMBDA ch : Kept(ch, noise, ignore))
        entries == [i \in DOMAIN kept |-> Entry(kept[i], noise)]
    IN StableSort(entries, [i \in DOMAIN kept |-> Obj(entries[i])])

\* Golden writing and reading: the write-set's numbers are decoded.
Reread(ws) ==
    [i \in DOMAIN ws |->
        [ws[i] EXCEPT !.pk = Decoded(@), !.payload = [k \in DOMAIN @ |-> Decoded(@[k])]]]

\* Pairs of entries with one key are compared column by column, where a column
\* that is not there counts as the text "<absent>".
DiffPayload(label, old, new) ==
    LET At(row, k) == IF k \in DOMAIN row THEN row[k] ELSE Absent IN
    {<<label, k>> : k \in {c \in DOMAIN old \cup DOMAIN new : ~Equal(At(old, c), At(new, c))}}

\* Mutant of DiffWritesets: an entry that only the new side has is overlooked.
DiffWritesetsOld(old, new) ==
    LET Key(e) == <<e.table, e.op, NormValue(e.pk)>>
        With(ws, key) == SelectSeq(ws, LAMBDA e : Key(e) = key)
        Diffs(key) ==
            UNION {IF i \in DOMAIN With(new, key)
                   THEN DiffPayload(key, With(old, key)[i].payload, With(new, key)[i].payload)
                   ELSE {<<key, "extra">>} : i \in DOMAIN With(old, key)}
    IN UNION {Diffs(Key(e)) : e \in ToSet(old)}

DiffWritesets(old, new) ==
    LET Key(e) == <<e.table, e.op, NormValue(e.pk)>>
        With(ws, key) == SelectSeq(ws, LAMBDA e : Key(e) = key)
        Diffs(key) ==
            LET olds == With(old, key)
                news == With(new, key)
            IN UNION {DiffPayload(key, olds[i].payload, news[i].payload) :
                      i \in DOMAIN olds \cap DOMAIN news}
               \cup {<<key, "extra">> : i \in (DOMAIN olds \ DOMAIN news)
                                             \cup (DOMAIN news \ DOMAIN olds)}
    IN UNION {Diffs(Key(e)) : e \in ToSet(old) \cup ToSet(new)}

VerdictOf(responseDiffs, writesetDiffs) ==
    CASE responseDiffs # {} /\ writesetDiffs # {} -> "BOTH_DIFF"
      [] responseDiffs # {} /\ writesetDiffs = {} -> "RESPONSE_DIFF"
      [] responseDiffs = {} /\ writesetDiffs # {} -> "WRITESET_DIFF"
      [] OTHER -> "MATCH"
=============================================================================
