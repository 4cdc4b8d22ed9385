-------------------------- MODULE WindowContract ---------------------------
(***************************************************************************)
(* What a writeset.Source promises the driver (internal/writeset): between *)
(* BeginWindow and TakeWindow one request is open, every row committed     *)
(* meanwhile is that request's, and TakeWindow returns exactly those rows  *)
(* or an error.  BinlogCapture and PgCapture implement it only under the   *)
(* conditions their runs name.                                             *)
(***************************************************************************)
EXTENDS Naturals

CONSTANTS Txn, N

VARIABLES
    last,      \* the request whose window was opened last
    open,      \* is that window still open?
    wrote,     \* the rows each request committed
    reported,  \* the rows TakeWindow returned for it
    result     \* "none" until the window is closed, then "ok" or "error"

vars == <<last, open, wrote, reported, result>>

Init ==
    /\ last = 0
    /\ open = FALSE
    /\ wrote = [r \in 1..N |-> {}]
    /\ reported = [r \in 1..N |-> {}]
    /\ result = [r \in 1..N |-> "none"]

BeginWindow ==
    /\ ~open /\ last < N
    /\ open' = TRUE
    /\ last' = last + 1
    /\ UNCHANGED <<wrote, reported, result>>

Write(t) ==
    /\ open
    /\ \A r \in 1..N : t \notin wrote[r]
    /\ wrote' = [wrote EXCEPT ![last] = @ \cup {t}]
    /\ UNCHANGED <<last, open, reported, result>>

TakeWindow ==
    /\ open
    /\ open' = FALSE
    /\ \/ /\ reported' = [reported EXCEPT ![last] = wrote[last]]
          /\ result' = [result EXCEPT ![last] = "ok"]
       \/ /\ result' = [result EXCEPT ![last] = "error"]
          /\ UNCHANGED reported
    /\ UNCHANGED <<last, wrote>>

Next == BeginWindow \/ TakeWindow \/ \E t \in Txn : Write(t)

Spec == Init /\ [][Next]_vars
=============================================================================
