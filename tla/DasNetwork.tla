------------------------------ MODULE DasNetwork ------------------------------
(***************************************************************************)
(* The DAS network (crates/das-network): the service, which callers use    *)
(* concurrently, and the worker, which alone drives the Kademlia swarm.    *)
(*                                                                         *)
(* A call sends a command with the sender of a one-shot channel and waits  *)
(* for the reply.  The worker keeps the senders of the commands that start *)
(* a query until the query reports; a sender that is dropped cancels the   *)
(* wait.  Calls are pairs of a kind and a number; the get and put calls    *)
(* are those of one get_values and one put_values, and number i asks for   *)
(* or publishes record i.                                                  *)
(***************************************************************************)
EXTENDS Integers, Sequences, FiniteSets

CONSTANTS
    Workloads,      \* the sets of calls to look at, records of WorkloadRecord
    Peer,           \* peers
    ParallelLimit,  \* parallel_limit of the service
    MAX_RETRIES     \* failures of a peer before it is removed

\* The keys of the get_values, the records of the put_values, the add_address calls
\* and the calls of other kinds.
WorkloadRecord == [gets: Nat, puts: Nat, adds: Nat,
                   others: SUBSET {"bootstrap", "remove", "listen"}]

ASSUME NetworkAssumption ==
    /\ Workloads \subseteq WorkloadRecord
    /\ ParallelLimit \in Nat \ {0} /\ MAX_RETRIES \in Nat
    /\ IsFiniteSet(Peer) /\ IsFiniteSet(Workloads)

VARIABLES
    work,               \* the calls of this behaviour
    sent,               \* calls whose command was sent
    reply,              \* call -> what its caller received, "none" while it waits
    commands,           \* the command channel
    query_id_receivers, \* calls whose sender waits for a query of the worker
    pending_routing,    \* peer -> the add_address call that waits for it
    queries,            \* queries Kademlia is running, by the call that began them
    routing,            \* peers in the routing table
    routing_updates,    \* peers of RoutingUpdated events not handled yet
    retry_counts,       \* peer -> failures counted
    store,              \* records in the local store
    held,               \* records that other nodes hold
    found,              \* history: get calls whose query found a record
    results             \* results of get_values so far

callVars == <<sent, reply, commands, query_id_receivers, pending_routing, queries>>
peerVars == <<routing, routing_updates, retry_counts>>
recordVars == <<store, held, found>>
vars == <<work, callVars, peerVars, recordVars, results>>

calls(w) ==
    ({"get"} \X (1..w.gets)) \cup ({"put"} \X (1..w.puts)) \cup ({"add"} \X (1..w.adds))
        \cup (w.others \X {1})
Call == UNION {calls(w) : w \in Workloads}
records(w) == (1..w.gets) \cup (1..w.puts)
Record == UNION {records(w) : w \in Workloads}
NoCall == <<"no", 0>>
Reply == {"none", "ok", "err", "canceled"}

kind(c) == c[1]
number(c) == c[2]

-----------------------------------------------------------------------------
(* The service *)

\* get_values asks for the next parallel_limit keys when it has the results so far.
chunk == {i \in 1..work.gets : Len(results) < i /\ i <= Len(results) + ParallelLimit}

send_command(c) ==
    /\ c \in calls(work) \ sent
    /\ kind(c) = "get" => number(c) \in chunk
    /\ sent' = sent \cup {c}
    /\ commands' = Append(commands, c)
    /\ UNCHANGED <<reply, query_id_receivers, pending_routing, queries>>
    /\ UNCHANGED <<peerVars, recordVars, results>>

get_value(i) == IF reply[<<"get", i>>] = "ok" THEN "some" ELSE "none"

\* Wrong variant: the keys that failed are left out.
chunk_results_filtered ==
    SelectSeq([n \in 1..Cardinality(chunk) |-> get_value(Len(results) + n)],
              LAMBDA r : r = "some")

\* join_all: the replies in the order of the keys.
chunk_results == [n \in 1..Cardinality(chunk) |-> get_value(Len(results) + n)]

get_values ==
    /\ chunk # {}
    /\ \A i \in chunk : reply[<<"get", i>>] # "none"
    /\ results' = results \o chunk_results
    /\ UNCHANGED <<callVars, peerVars, recordVars>>

\* The result of put_values: "none" while it waits.
put_values ==
    IF \A i \in 1..work.puts : reply[<<"put", i>>] # "none" THEN "ok" ELSE "none"

-----------------------------------------------------------------------------
(* The worker: commands *)

\* Kademlia's add_address: an event when the address is new and there is room.
add_address(p) ==
    \/ routing' = routing \cup {p} /\ routing_updates' = routing_updates \cup {p}
    \/ UNCHANGED <<routing, routing_updates>>

answer(c, r) == [reply EXCEPT ![c] = r]

start_query(c) ==
    /\ queries' = queries \cup {c}
    /\ query_id_receivers' = query_id_receivers \cup {c}
    /\ UNCHANGED <<reply, pending_routing>>

\* The sender goes out of scope unused.
drop_sender(c) ==
    /\ reply' = answer(c, "canceled")
    /\ UNCHANGED <<queries, query_id_receivers, pending_routing>>

reply_now(c, r) ==
    /\ reply' = answer(c, r)
    /\ UNCHANGED <<queries, query_id_receivers, pending_routing>>

handle_get(c) ==
    /\ kind(c) = "get"
    /\ start_query(c)
    /\ UNCHANGED <<peerVars, store>>

\* Wrong variant: the sender is kept although no query was started.
handle_put_failed_kept(c) ==
    /\ kind(c) = "put"
    /\ query_id_receivers' = query_id_receivers \cup {c}
    /\ UNCHANGED <<reply, queries, pending_routing>>
    /\ UNCHANGED <<peerVars, store>>

\* The local store refuses the record.
handle_put_failed(c) ==
    /\ kind(c) = "put"
    /\ drop_sender(c)
    /\ UNCHANGED <<peerVars, store>>

handle_put(c) ==
    /\ kind(c) = "put"
    /\ start_query(c)
    /\ store' = store \cup {number(c)}
    /\ UNCHANGED peerVars

handle_bootstrap(c) ==
    /\ kind(c) = "bootstrap"
    /\ IF routing # {} THEN start_query(c) ELSE drop_sender(c)
    /\ UNCHANGED <<peerVars, store>>

\* The call takes the place of one that waits for the same peer.
handle_add(c) ==
    /\ kind(c) = "add"
    /\ \E p \in Peer :
        /\ add_address(p)
        /\ pending_routing' = [pending_routing EXCEPT ![p] = c]
        /\ reply' = IF pending_routing[p] = NoCall THEN reply
                        ELSE answer(pending_routing[p], "canceled")
    /\ UNCHANGED <<queries, query_id_receivers, retry_counts, store>>

handle_remove(c) ==
    /\ kind(c) = "remove"
    /\ \E keys \in SUBSET records(work) : store' = store \ keys
    /\ reply_now(c, "ok")
    /\ UNCHANGED peerVars

handle_listen(c) ==
    /\ kind(c) = "listen"
    /\ \E r \in {"ok", "err"} : reply_now(c, r)
    /\ UNCHANGED <<peerVars, store>>

handle_command ==
    /\ commands # <<>>
    /\ commands' = Tail(commands)
    /\ LET c == Head(commands) IN
        \/ handle_get(c)
        \/ handle_put(c)
        \/ handle_put_failed(c)
        \/ handle_bootstrap(c)
        \/ handle_add(c)
        \/ handle_remove(c)
        \/ handle_listen(c)
    /\ UNCHANGED <<sent, held, found, results>>

-----------------------------------------------------------------------------
(* The worker: events *)

\* Wrong variant: the sender is not taken out of the map.
take_sender_kept(c) == query_id_receivers' = query_id_receivers

take_sender(c) == query_id_receivers' = query_id_receivers \ {c}

\* Wrong variant: the reply goes out for every event of the query.
report_anyway(c, r) ==
    /\ take_sender(c)
    /\ reply' = answer(c, r)

\* Only a sender that is still there gets the reply.
report(c, r) ==
    /\ take_sender(c)
    /\ reply' = IF c \in query_id_receivers THEN answer(c, r) ELSE reply

eventUnchanged == UNCHANGED <<sent, commands, pending_routing, peerVars, results>>

\* A get query may report a record more than once before it ends.
found_record(c) ==
    /\ kind(c) = "get" /\ c \in queries /\ number(c) \in store \cup held
    /\ report(c, "ok")
    /\ found' = found \cup {c}
    /\ UNCHANGED <<queries, store, held>>
    /\ eventUnchanged

\* The query ends, without (further) records or with an error.
finished_get(c) ==
    /\ kind(c) = "get" /\ c \in queries
    /\ queries' = queries \ {c}
    /\ report(c, "err")
    /\ UNCHANGED recordVars
    /\ eventUnchanged

\* The peers of the quorum hold the record, or some do not.
finished_put(c) ==
    /\ kind(c) = "put" /\ c \in queries
    /\ queries' = queries \ {c}
    /\ \/ report(c, "ok") /\ held' = held \cup {number(c)}
       \/ report(c, "err") /\ held' \in {held, held \cup {number(c)}}
    /\ UNCHANGED <<store, found>>
    /\ eventUnchanged

\* The last step of a bootstrap, or its error.
finished_bootstrap(c) ==
    /\ kind(c) = "bootstrap" /\ c \in queries
    /\ queries' = queries \ {c}
    /\ \E r \in {"ok", "err"} : report(c, r)
    /\ UNCHANGED recordVars
    /\ eventUnchanged

finished(c) == finished_get(c) \/ finished_put(c) \/ finished_bootstrap(c)

routing_updated(p) ==
    /\ p \in routing_updates
    /\ routing_updates' = routing_updates \ {p}
    /\ pending_routing' = [pending_routing EXCEPT ![p] = NoCall]
    /\ reply' = IF pending_routing[p] = NoCall THEN reply
                    ELSE answer(pending_routing[p], "ok")
    /\ UNCHANGED <<sent, commands, query_id_receivers, queries, routing, retry_counts,
                   recordVars, results>>

\* mDNS or identify names a peer and its address.
discovered(p) ==
    /\ add_address(p)
    /\ UNCHANGED <<callVars, retry_counts, recordVars, results>>

\* mDNS no longer sees the peer, and its last address is removed.
expired(p) ==
    /\ p \in routing
    /\ routing' = routing \ {p}
    /\ UNCHANGED <<callVars, routing_updates, retry_counts, recordVars, results>>

should_remove(p) == retry_counts[p] >= MAX_RETRIES

\* A connection closes with an I/O or a handler error.
handle_retry_connection(p) ==
    /\ IF should_remove(p)
         THEN /\ routing' = routing \ {p}
              /\ retry_counts' = [retry_counts EXCEPT ![p] = 0]
         ELSE /\ retry_counts' = [retry_counts EXCEPT ![p] = @ + 1]
              /\ UNCHANGED routing
    /\ UNCHANGED <<callVars, routing_updates, recordVars, results>>

-----------------------------------------------------------------------------
NetInit ==
    /\ work \in Workloads
    /\ sent = {} /\ reply = [c \in Call |-> "none"]
    /\ commands = <<>> /\ query_id_receivers = {} /\ queries = {}
    /\ pending_routing = [p \in Peer |-> NoCall]
    /\ routing \in SUBSET Peer /\ routing_updates = routing
    /\ retry_counts = [p \in Peer |-> 0]
    /\ store = {} /\ held \in SUBSET records(work) /\ found = {}
    /\ results = <<>>

NetNext ==
    /\ \/ \E c \in Call : send_command(c) \/ found_record(c) \/ finished(c)
       \/ get_values
       \/ handle_command
       \/ \E p \in Peer :
           routing_updated(p) \/ discovered(p) \/ expired(p) \/ handle_retry_connection(p)
    /\ UNCHANGED work

\* Callers and the worker are polled, and Kademlia ends each query, by its timeout
\* at the latest.
NetSpec ==
    /\ NetInit
    /\ [][NetNext]_vars
    /\ WF_vars(get_values /\ UNCHANGED work) /\ WF_vars(handle_command /\ UNCHANGED work)
    /\ \A c \in Call : WF_vars(send_command(c) /\ UNCHANGED work)
                        /\ WF_vars(finished(c) /\ UNCHANGED work)

-----------------------------------------------------------------------------
(* Correctness *)

\* The places that hold the sender of a call.
sender_places(c) ==
    Cardinality({i \in DOMAIN commands : commands[i] = c})
        + (IF c \in query_id_receivers THEN 1 ELSE 0)
        + Cardinality({p \in Peer : pending_routing[p] = c})

\* A caller waits for a reply exactly while the worker still has its sender, in one
\* place: no reply is lost without the caller being told, and no call can be
\* answered twice, whatever the order of commands and events.
SenderHeldOnce ==
    \A c \in sent : sender_places(c) = IF reply[c] = "none" THEN 1 ELSE 0

\* What a caller was told never changes, although a get query reports a record, or
\* several, and then its end (handle_kademlia_event).
ReplyStable == [][\A c \in Call : reply[c] # "none" => reply'[c] = reply[c]]_vars

\* get_values: the n-th result is that of the n-th key, and it is there only if a
\* query for that key found a record, whatever the order of the replies.
ResultsMatchKeys ==
    \A i \in DOMAIN results : results[i] = "some" <=> <<"get", i>> \in found
                                                        /\ reply[<<"get", i>>] = "ok"

\* get_values and put_values end, also when records are missing, the store is full
\* and queries fail.
BatchesEnd == <>(Len(results) = work.gets) /\ <>(put_values # "none")

-----------------------------------------------------------------------------
(* What the comments of the code say *)

\* "Asynchronously puts multiple data into the Kademlia network": when put_values
\* returns Ok, each record was put.
PutValuesPuts ==
    put_values = "ok" => \A i \in 1..work.puts : reply[<<"put", i>>] = "ok"
=============================================================================
