------------------------------ MODULE SqliteKv ------------------------------
(***************************************************************************)
(* The store in a SQLite file (crates/das-db/src/sqlite.rs).  Each         *)
(* statement is atomic in the file; an operation of several statements is  *)
(* held together by the mutex around the connection.  A statement that     *)
(* fails panics with the mutex held, which poisons it: whoever locks it    *)
(* later panics too.                                                       *)
(*                                                                         *)
(* Tasks of one program share its connection.  The light client and the    *)
(* farmer open the same file by default, each with a connection of its own.*)
(***************************************************************************)
EXTENDS Naturals

CONSTANTS
    Task,           \* tasks of the programs that use the file
    Connection,     \* their connections
    conn_of,        \* task -> the connection it uses
    Key, Value, NoValue,
    NoTask

ASSUME SqliteAssumption ==
    /\ conn_of \in [Task -> Connection]
    /\ NoValue \notin Value
    /\ NoTask \notin Task

VARIABLES
    table,      \* melodot_das_kvs: key -> value, NoValue when there is no row
    calling,    \* task -> the operation it is in
    step,       \* task -> where it stands
    returned,   \* task -> what its last operation returned
    conn,       \* connection -> the task that holds its mutex
    poisoned    \* connections whose mutex is poisoned

sqliteVars == <<table, calling, step, returned, conn, poisoned>>

Kv == INSTANCE DasKv WITH kv <- table, request <- calling, response <- returned

Step == {"idle", "locking", "statement", "write"}

-----------------------------------------------------------------------------
call(t) ==
    /\ step[t] = "idle"
    /\ \E o \in Kv!Operation : calling' = [calling EXCEPT ![t] = o]
    /\ step' = [step EXCEPT ![t] = "locking"]
    /\ UNCHANGED <<table, returned, conn, poisoned>>

\* The operation returns r and drops the guard of the mutex.
return(t, r) ==
    /\ returned' = [returned EXCEPT ![t] = r]
    /\ calling' = [calling EXCEPT ![t] = Kv!NoOperation]
    /\ step' = [step EXCEPT ![t] = "idle"]
    /\ conn' = [conn EXCEPT ![conn_of[t]] = NoTask]

\* Wrong variant: the mutex is not waited for.
may_lock_always(t) == conn_of[t] \notin poisoned

may_lock(t) == conn_of[t] \notin poisoned /\ conn[conn_of[t]] = NoTask

lock(t) ==
    /\ step[t] = "locking"
    /\ may_lock(t)
    /\ conn' = [conn EXCEPT ![conn_of[t]] = t]
    /\ step' = [step EXCEPT ![t] = "statement"]
    /\ UNCHANGED <<table, calling, returned, poisoned>>

\* unwrap of a poisoned mutex.
lock_poisoned(t) ==
    /\ step[t] = "locking"
    /\ conn_of[t] \in poisoned
    /\ returned' = [returned EXCEPT ![t] = "panic"]
    /\ calling' = [calling EXCEPT ![t] = Kv!NoOperation]
    /\ step' = [step EXCEPT ![t] = "idle"]
    /\ UNCHANGED <<table, conn, poisoned>>

\* SELECT value, and SELECT COUNT(*).
get(t, o) ==
    /\ o.op = "get"
    /\ return(t, table[o.key])
    /\ UNCHANGED <<table, poisoned>>

contains(t, o) ==
    /\ o.op = "contains"
    /\ return(t, IF table[o.key] = NoValue THEN "false" ELSE "true")
    /\ UNCHANGED <<table, poisoned>>

\* INSERT OR REPLACE.
set(t, o) ==
    /\ o.op = "set"
    /\ table' = [table EXCEPT ![o.key] = o.new]
    /\ return(t, "unit")
    /\ UNCHANGED poisoned

\* DELETE.
remove(t, o) ==
    /\ o.op = "remove"
    /\ table' = [table EXCEPT ![o.key] = NoValue]
    /\ return(t, "unit")
    /\ UNCHANGED poisoned

\* The row, or the count when none is expected, is compared; a second statement
\* writes.
compare(t, o) ==
    /\ o.op = "compare_and_set"
    /\ IF table[o.key] = o.old
         THEN step' = [step EXCEPT ![t] = "write"] /\ UNCHANGED <<calling, returned, conn>>
         ELSE return(t, "false")
    /\ UNCHANGED <<table, poisoned>>

\* The statement fails.
fail(t) ==
    /\ poisoned' = poisoned \cup {conn_of[t]}
    /\ return(t, "panic")
    /\ UNCHANGED table

statement(t) ==
    /\ step[t] = "statement"
    /\ \/ get(t, calling[t])
       \/ contains(t, calling[t])
       \/ set(t, calling[t])
       \/ remove(t, calling[t])
       \/ compare(t, calling[t])
       \/ fail(t)

\* The plain INSERT of a key that was found absent fails when the key is there.
insert(t, o) ==
    IF o.old = NoValue /\ table[o.key] # NoValue
      THEN fail(t)
      ELSE table' = [table EXCEPT ![o.key] = o.new] /\ return(t, "true") /\ UNCHANGED poisoned

write(t) ==
    /\ step[t] = "write"
    /\ insert(t, calling[t]) \/ fail(t)

SqliteInit ==
    /\ table = [k \in Key |-> NoValue]
    /\ calling = [t \in Task |-> Kv!NoOperation]
    /\ step = [t \in Task |-> "idle"]
    /\ returned = [t \in Task |-> "unit"]
    /\ conn = [c \in Connection |-> NoTask]
    /\ poisoned = {}

SqliteNext ==
    \E t \in Task : call(t) \/ lock(t) \/ lock_poisoned(t) \/ statement(t) \/ write(t)

SqliteSpec == SqliteInit /\ [][SqliteNext]_sqliteVars

-----------------------------------------------------------------------------
(* Correctness *)

\* The tasks of one program see an atomic store: compare_and_set of sqlite.rs, a
\* SELECT and an INSERT, is one operation of the trait, also when statements fail.
KvImplemented == Kv!KvSpec
=============================================================================
