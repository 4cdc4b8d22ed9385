---------------------------- MODULE Verification ----------------------------
(***************************************************************************)
(* Record & Verify from end to end: the new stack's database is seeded     *)
(* with a copy of the old one as in Seeding, requests are recorded against *)
(* the old stack and verified against the new one                          *)
(* (internal/replay/verify.go) with the comparison of DiffEngine.  The     *)
(* recording is what changes the source of a copy, the verification what   *)
(* uses its target.                                                        *)
(*                                                                         *)
(* The application is outside the repository.  A request is a sequence of  *)
(* statements on two tables, and is answered with the rows of one of them. *)
(* Attribution of writes to requests is taken to be exact here; it is the  *)
(* subject of BinlogCapture, PgCapture and Recorder.                       *)
(***************************************************************************)
EXTENDS DiffReference, Seeding

CONSTANTS
    Configs,     \* configurations: engine, noise, sorting, what the recording knows,
                 \* and how the driver delivers the column v
    Statement,   \* statements an application may run
    MaxStmts,    \* statements recorded, at most, and in one request of the new stack
    MaxEntries   \* requests recorded, at most

ASSUME VerificationAssumption == MaxStmts \in Nat /\ MaxEntries \in Nat

VARIABLES
    cfg,      \* the configuration
    golden,   \* the entries recorded
    job,      \* the verification: entries done, and for an observer whether it
              \* runs on what the old database was when the recording began, and
              \* has not been disturbed, whether every
              \* request ran the same statements, and whether all were a MATCH
    last      \* the last verdict, and what it was given on

vars == <<cfg, seedVars, golden, job, last>>

----------------------------------------------------------------------------
(* The applications and their databases: for each table its rows by id and *)
(* the next id.                                                            *)

NoVerdict == [verdict |-> "none"]
NewRow(v, ts) == [v |-> v, ts |-> ts]

\* A row as the capture delivers it, its columns in the driver's types.
Image(id, row) == [id |-> Num(id), v |-> <<cfg.number, row.v>>, ts |-> <<"bytes", row.ts>>]

Change(table, op, before, after) ==
    [table |-> [schema |-> "shop", bare |-> table], op |-> op, before |-> before, after |-> after]

WithRow(t, id, row) == [t EXCEPT !.rows = Put(@, id, row)]
WithoutRow(t, id) == [t EXCEPT !.rows = Only(@, DOMAIN @ \ {id})]

\* One statement on a table, at a time the clock tells.  An INSERT takes the next
\* id, and fails when a row has it.
OnTable(run, s, clock) ==
    LET t == run.db[s.table]
        id == IF s.op = "INSERT" THEN t.next ELSE s.id
        row == NewRow(s.v, clock)
        used == [t EXCEPT !.next = @ + 1]
        Did(table, change) == [run EXCEPT !.db[s.table] = table, !.changes = Append(@, change)]
    IN CASE s.op = "INSERT" /\ id \in DOMAIN t.rows ->
                [run EXCEPT !.db[s.table] = used, !.status = 500]
         [] s.op = "INSERT" /\ id \notin DOMAIN t.rows ->
                Did(WithRow(used, id, row), Change(s.table, s.op, NoRow, Image(id, row)))
         [] s.op = "UPDATE" /\ id \in DOMAIN t.rows /\ t.rows[id] # row ->
                Did(WithRow(t, id, row),
                    Change(s.table, s.op, Image(id, t.rows[id]), Image(id, row)))
         [] s.op = "DELETE" /\ id \in DOMAIN t.rows ->
                Did(WithoutRow(t, id), Change(s.table, s.op, Image(id, t.rows[id]), NoRow))
         [] OTHER -> run

\* One statement; it fails when its table is missing.
Apply(run, s, clock) ==
    IF s.table \notin DOMAIN run.db THEN [run EXCEPT !.status = 500] ELSE OnTable(run, s, clock)

\* The answer lists the items, in an order that may be the implementation's own.
Body(db, clock, backwards) ==
    IF "item" \notin DOMAIN db THEN <<"text", "no such table">>
    ELSE LET ids == SetToSortSeq(DOMAIN db["item"].rows,
                                 LAMBDA i, j : IF backwards THEN i > j ELSE i < j)
             Item(id) == Obj([id |-> Num(id), v |-> Num(db["item"].rows[id].v),
                              ts |-> <<"text", db["item"].rows[id].ts>>])
         IN Decoded(Obj([items |-> Arr([i \in DOMAIN ids |-> Item(ids[i])]),
                         ts |-> <<"text", clock>>]))

\* A request: its status, its body, its row changes and the database afterwards.
Execute(db, stmts, clock, backwards) ==
    LET run == FoldLeft(LAMBDA acc, s : Apply(acc, s, clock),
                        [db |-> db, changes |-> <<>>, status |-> 200], stmts)
    IN [run EXCEPT !.status = IF "item" \in DOMAIN db THEN @ ELSE 500]
       @@ [body |-> Body(run.db, clock, backwards)]

----------------------------------------------------------------------------

\* The key of the first item was given by the client: MySQL raises its counter
\* above it, PostgreSQL leaves its sequence alone.
FirstDatabase == [t \in Table |->
    IF t = "item" THEN [rows |-> Put(Empty, 1, NewRow(1, "seed")),
                        next |-> IF cfg.engine = "mysql" THEN 2 ELSE 1]
    ELSE [rows |-> Empty, next |-> 1]]

Init ==
    /\ cfg \in Configs
    /\ engine = cfg.engine /\ old = FirstDatabase
    /\ SeedInit
    /\ golden = <<>>
    /\ job = [pc |-> "off", done |-> 0, aligned |-> FALSE, same |-> TRUE, matched |-> TRUE]
    /\ last = NoVerdict

----------------------------------------------------------------------------
(* Seeding, also while a job replays.  Copies after the job are in Seeding. *)

JobOver == job.pc = "running" /\ job.done = Len(golden)

Seed ==
    /\ ~JobOver
    /\ SeedStep
    /\ job' = [job EXCEPT !.aligned = @ /\ new' = new]
    /\ UNCHANGED <<cfg, golden, last>>

----------------------------------------------------------------------------
(* The old stack.                                                          *)

Recorded == FoldLeft(LAMBDA n, e : n + Len(e.stmts), 0, golden)

\* recordGolden: the answer, and the write-set when it is the request's own.
Record ==
    /\ job.pc = "off"
    /\ Len(golden) < MaxEntries
    /\ \E stmts \in SeqOf(Statement, MaxStmts - Recorded) :
        LET run == Execute(old, stmts, "old", FALSE) IN
        /\ old' = run.db
        /\ golden' = Append(golden,
              [stmts |-> stmts, status |-> run.status, body |-> run.body,
               writeset |-> NormalizeWriteset(run.changes, cfg.columns, cfg.ignore),
               changes |-> run.changes])
    /\ quiet' = (quiet /\ (~Copying \/ old' = old))
    /\ UNCHANGED <<cfg, engine, new, copyVars, alone, job, last>>

----------------------------------------------------------------------------
(* Verification.                                                           *)

Begin ==
    /\ job.pc = "off"
    /\ golden # <<>>
    /\ job' = [pc |-> "running", done |-> 0, same |-> TRUE, matched |-> TRUE,
               aligned |-> new = Only(FirstDatabase, Wanted) /\ ~Copying]
    /\ UNCHANGED <<cfg, seedVars, golden, last>>

\* Mutant of Judge: the live write-set is not normalized like the recorded one.
JudgeRaw(e, run) ==
    LET responseDiffs == DiffResponses(e, run, cfg)
        newWS == NormalizeWriteset(run.changes, {}, {})
    IN VerdictOf(responseDiffs,
                 IF cfg.attributed THEN DiffWritesets(Reread(e.writeset), newWS) ELSE {})

\* verifyOne: an entry without a write-set is judged by its response alone.
Judge(e, run) ==
    LET responseDiffs == DiffResponses(e, run, cfg)
        newWS == NormalizeWriteset(run.changes, cfg.columns, cfg.ignore)
    IN VerdictOf(responseDiffs,
                 IF cfg.attributed THEN DiffWritesets(Reread(e.writeset), newWS) ELSE {})

\* The new stack runs the entry's statements.  On an aligned database it may also
\* run others, once: on any other the same statements answer differently already.
VerifyOne ==
    /\ job.pc = "running" /\ job.done < Len(golden)
    /\ \E stmts \in {golden[job.done + 1].stmts}
                      \cup IF job.same /\ job.aligned THEN SeqOf(Statement, MaxStmts) ELSE {} :
        LET e == golden[job.done + 1]
            run == Execute(new, stmts, "new", cfg.backwards)
            verdict == Judge(e, run)
        IN /\ new' = run.db
           /\ last' = [verdict |-> verdict, entry |-> e, run |-> run]
           /\ job' = [job EXCEPT !.done = @ + 1,
                                 !.same = @ /\ stmts = e.stmts,
                                 !.matched = @ /\ verdict = "MATCH"]
    /\ alone' = FALSE
    /\ UNCHANGED <<cfg, engine, old, copyVars, quiet, golden>>

\* The request fails, before or after it was executed.
VerifyFails ==
    /\ job.pc = "running" /\ job.done < Len(golden)
    /\ new' \in {new, Execute(new, golden[job.done + 1].stmts, "new", cfg.backwards).db}
    /\ last' = [verdict |-> "ERROR"]
    /\ job' = [job EXCEPT !.done = @ + 1, !.aligned = FALSE, !.matched = FALSE]
    /\ alone' = FALSE
    /\ UNCHANGED <<cfg, engine, old, copyVars, quiet, golden>>

----------------------------------------------------------------------------

Next == Seed \/ Record \/ Begin \/ VerifyOne \/ VerifyFails

Spec == Init /\ [][Next]_vars

----------------------------------------------------------------------------
(* Properties.                                                             *)

\* Do the write-sets have no column that looks different after it has been
\* through a golden file?  A NUMERIC with a scale does: 50000.00 comes back as
\* 50000, and the live value keeps its zeros.
FileKeepsValues == cfg.attributed => cfg.number # "numeric"

\* A verdict says of response and write-set what the reference says of them:
\* whatever the order of rows, of statements and of array elements, whatever
\* passes for noise, and though the recorded side has been through a file.
\* (Write-sets with a NUMERIC are left out: FileKeepsValues.)
VerdictIsRight ==
    last.verdict \notin {"none", "ERROR"} /\ FileKeepsValues =>
        LET response == SameResponse(last.entry, last.run, cfg)
            writes == cfg.attributed => SameWrites(last.entry.changes, last.run.changes, cfg)
        IN last.verdict = CASE response /\ writes -> "MATCH"
                            [] response /\ ~writes -> "WRITESET_DIFF"
                            [] ~response /\ writes -> "RESPONSE_DIFF"
                            [] OTHER -> "BOTH_DIFF"

\* README.md:26, "new DB (seeded to capture-time state)": on a database that is
\* what the old one was when the recording began, an implementation that does
\* the same is never reported -- also for the requests after one that failed in
\* the same way on both sides.  (Except for a NUMERIC: FileKeepsValues.  A copy
\* made while the job runs ends the alignment.)
SameCodeMatches ==
    job.aligned /\ job.same /\ FileKeepsValues /\ last.verdict # "none" =>
        last.verdict = "MATCH"

\* Whatever the new implementation does, and whatever its columns: when every
\* request was a MATCH, its database holds what the old one held at the end of the
\* recording, except for noise and ignored tables.
AllMatchMeansSameData ==
    job.aligned /\ job.matched /\ cfg.attributed /\ job.done = Len(golden) =>
        \A t \in Wanted \ cfg.ignore :
            /\ DOMAIN new[t].rows = DOMAIN old[t].rows
            /\ \A id \in DOMAIN new[t].rows : new[t].rows[id].v = old[t].rows[id].v
=============================================================================
