------------------------------- MODULE JobTable -------------------------------
(***************************************************************************)
(* The reserved-job table that delivery_jobs and ingest_jobs both are: the *)
(* SQLite driver of the queue library, which lives outside this            *)
(* repository.  It is modelled from how the repository opens it (a         *)
(* RetryAfter, a failed table) and calls it (Push, Pop, Release, Delete,   *)
(* Failed).  A table maps every row id to a row; ids are never reused.     *)
(***************************************************************************)
EXTENDS Naturals

CONSTANTS
    JobIds,      \* the row ids one table may hand out: bounds the pushes
    Payloads,    \* what a job carries
    NoPayload    \* the payload of a row id that was never handed out

(***************************************************************************)
(* "reserved": popped by a worker less than RetryAfter ago.  "lapsed":     *)
(* popped, never released or deleted, and RetryAfter has gone by.          *)
(***************************************************************************)
JobStates == {"unused", "ready", "reserved", "lapsed", "gone"}
HeldStates == {"ready", "reserved", "lapsed"}

JobRow == [state : JobStates, payload : Payloads \cup {NoPayload}, tries : Nat]
JobTables == [JobIds -> JobRow]

EmptyTable == [j \in JobIds |-> [state |-> "unused", payload |-> NoPayload, tries |-> 0]]

Held(table, j) == table[j].state \in HeldStates
FreshIds(table) == {j \in JobIds : table[j].state = "unused"}
Poppable(table) == {j \in JobIds : table[j].state \in {"ready", "lapsed"}}
HoldsPayload(table, p) == \E j \in JobIds : Held(table, j) /\ table[j].payload = p

Push(table, j, p) == [table EXCEPT ![j] = [state |-> "ready", payload |-> p, tries |-> 0]]

\* Pop reserves the row and counts the attempt.
Pop(table, j) ==
    [table EXCEPT ![j] = [state |-> "reserved", payload |-> @.payload, tries |-> @.tries + 1]]

(***************************************************************************)
(* Release and Delete address the row by id alone: a worker whose          *)
(* reservation lapsed acts on the row another worker holds by now, and     *)
(* neither does anything to a row that is gone.                            *)
(***************************************************************************)
Release(table, j) ==
    IF Held(table, j) THEN [table EXCEPT ![j].state = "ready"] ELSE table
Delete(table, j) == [table EXCEPT ![j].state = "gone"]

\* RetryAfter passes since the row was popped.
Lapse(table, j) == [table EXCEPT ![j].state = "lapsed"]
===============================================================================
