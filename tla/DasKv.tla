-------------------------------- MODULE DasKv --------------------------------
(***************************************************************************)
(* What a key-value store promises (the trait DasKv of crates/das-db, and  *)
(* its implementation in memory, MockDb): every operation takes effect at  *)
(* one moment between its call and its return, or not at all when the call *)
(* panics.                                                                 *)
(***************************************************************************)
CONSTANTS
    Task,       \* callers
    Key, Value,
    NoValue     \* what get returns of an absent key

VARIABLES
    kv,         \* key -> its value or NoValue
    request,    \* task -> the operation it called, NoOperation when none
    response    \* task -> what its last operation returned

kvVars == <<kv, request, response>>

Content == Value \cup {NoValue}
NoOperation == [op |-> "none"]

\* old = NoValue: the key is expected to be absent.
Operation ==
    [op: {"get", "remove", "contains"}, key: Key]
    \cup [op: {"set"}, key: Key, new: Value]
    \cup [op: {"compare_and_set"}, key: Key, old: Content, new: Value]

\* Whether the operation writes its new value to a store that holds m.
writes(m, o) ==
    \/ o.op = "set"
    \/ o.op = "compare_and_set" /\ m[o.key] = o.old

\* The store after the operation.
after(m, o) ==
    IF writes(m, o) THEN [m EXCEPT ![o.key] = o.new]
    ELSE IF o.op = "remove" THEN [m EXCEPT ![o.key] = NoValue]
    ELSE m

bool(b) == IF b THEN "true" ELSE "false"

\* What the operation returns.
answer(m, o) ==
    CASE o.op = "get"             -> m[o.key]
      [] o.op = "contains"        -> bool(m[o.key] # NoValue)
      [] o.op = "compare_and_set" -> bool(m[o.key] = o.old)
      [] OTHER                    -> "unit"

Call(t) ==
    /\ request[t] = NoOperation
    /\ \E o \in Operation : request' = [request EXCEPT ![t] = o]
    /\ UNCHANGED <<kv, response>>

Perform(t) ==
    /\ request[t] # NoOperation
    /\ kv' = after(kv, request[t])
    /\ response' = [response EXCEPT ![t] = answer(kv, request[t])]
    /\ request' = [request EXCEPT ![t] = NoOperation]

Panic(t) ==
    /\ request[t] # NoOperation
    /\ response' = [response EXCEPT ![t] = "panic"]
    /\ request' = [request EXCEPT ![t] = NoOperation]
    /\ UNCHANGED kv

KvInit ==
    /\ kv = [k \in Key |-> NoValue]
    /\ request = [t \in Task |-> NoOperation]
    /\ response = [t \in Task |-> "unit"]

KvNext == \E t \in Task : Call(t) \/ Perform(t) \/ Panic(t)

KvSpec == KvInit /\ [][KvNext]_kvVars
=============================================================================
