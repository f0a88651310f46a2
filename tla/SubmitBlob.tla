----------------------------- MODULE SubmitBlob -----------------------------
(***************************************************************************)
(* The way of a blob from an application to the chain: the client reads    *)
(* the application's nonce (crates/meloxt), calls submit_blob_tx (crates/  *)
(* das-rpc), which puts the data into the network and the transaction into *)
(* the pool, the node samples what enters the pool (crates/daser), and     *)
(* submit_data decides about it on chain (crates/pallet-melo-store).       *)
(* Submissions of several applications run side by side, each may be tried *)
(* again, and applications are registered meanwhile.  The records of the   *)
(* network are keyed by application and nonce; the chain checks the nonce  *)
(* of the application registered last.                                     *)
(***************************************************************************)
EXTENDS Integers, FiniteSets

CONSTANTS
    Submission,     \* submissions, each with its own data
    MaxAppId,       \* bound: applications that are registered
    MaxTries,       \* bound: calls of submit_blob_tx for one submission
    NoData          \* no record

ASSUME SubmitAssumption ==
    /\ IsFiniteSet(Submission) /\ NoData \notin Submission
    /\ MaxAppId \in Nat /\ MaxTries \in Nat \ {0}

VARIABLES
    app,        \* submission -> the application of its metadata
    bytes,      \* submission -> what verify_bytes says of its data
    stage,      \* submission -> where its call stands
    nonce,      \* submission -> the nonce of its metadata
    err,        \* submission -> err_msg is set
    response,   \* submission -> the answer of its last call
    tries,      \* submission -> calls so far
    records,    \* application and nonce -> the submission whose data the network holds
    put,        \* history: submission and nonce -> how their last put ended
    pool,       \* transactions in the pool: submission and nonce
    app_sample, \* submission and nonce -> the confidence of the sampled transaction
    AppId,      \* the application registered last
    Nonces,     \* application -> nonce on chain
    accepted    \* blobs on chain: submission, nonce, and the counter that was checked

callVars == <<app, bytes, stage, nonce, err, response, tries>>
netVars == <<records, put>>
chainVars == <<AppId, Nonces, accepted>>
submitVars == <<callVars, netVars, chainVars, pool, app_sample>>

AppIds == 0..MaxAppId
Nonce == 1..(Cardinality(Submission) * MaxTries)
Tx == Submission \X Nonce
Blob == Submission \X Nonce \X AppIds
PutResult == {"none", "put", "dropped", "error"}
CallStage == {"idle", "verifying", "putting", "submitting"}
Response == {"none", "length", "pool", "ok", "ok_with_err"}

-----------------------------------------------------------------------------
next_nonce(s) == Nonces[app[s]] + 1

\* The client reads its application's nonce and builds metadata for the next one.
\* The node decodes the transaction and checks the length of the data.
begin(s) ==
    /\ stage[s] = "idle" /\ tries[s] < MaxTries
    /\ next_nonce(s) \in Nonce
    /\ tries' = [tries EXCEPT ![s] = @ + 1]
    /\ nonce' = [nonce EXCEPT ![s] = next_nonce(s)]
    /\ err' = [err EXCEPT ![s] = FALSE]
    /\ IF bytes[s] = "bad_length"
         THEN /\ response' = [response EXCEPT ![s] = "length"]
              /\ UNCHANGED stage
         ELSE /\ stage' = [stage EXCEPT ![s] = "verifying"]
              /\ response' = [response EXCEPT ![s] = "none"]
    /\ UNCHANGED <<app, bytes, netVars, chainVars, pool, app_sample>>

\* Wrong variant: data that does not verify is published as well.
verified_any(s) == TRUE

verified(s) == bytes[s] = "good"

\* Wrong variant: the transaction goes to the pool first.
after_verify_unordered(s) == "submitting"

after_verify(s) == IF verified(s) THEN "putting" ELSE "submitting"

verify_bytes(s) ==
    /\ stage[s] = "verifying"
    /\ stage' = [stage EXCEPT ![s] = after_verify(s)]
    /\ err' = [err EXCEPT ![s] = ~verified(s)]
    /\ UNCHANGED <<app, bytes, nonce, response, tries, netVars, chainVars, pool, app_sample>>

\* put_values answers Ok whether or not the records were put; making segments of the
\* data may fail, and the call goes on with an error.
put_bytes(s) ==
    /\ stage[s] = "putting"
    /\ \E result \in {"put", "dropped", "error"} :
          /\ put' = [put EXCEPT ![<<s, nonce[s]>>] = result]
          /\ records' = IF result = "put" THEN [records EXCEPT ![<<app[s], nonce[s]>>] = s]
                                          ELSE records
          /\ err' = [err EXCEPT ![s] = result = "error"]
    /\ stage' = [stage EXCEPT ![s] = "submitting"]
    /\ UNCHANGED <<app, bytes, nonce, response, tries, chainVars, pool, app_sample>>

\* Wrong variant: an error is left out of the answer.
answer_plain(s) == "ok"

answer(s) == IF err[s] THEN "ok_with_err" ELSE "ok"

\* The pool takes the transaction, or refuses it and the call fails.
submit_one(s) ==
    /\ stage[s] = "submitting"
    /\ stage' = [stage EXCEPT ![s] = "idle"]
    /\ \/ /\ pool' = pool \cup {<<s, nonce[s]>>}
          /\ response' = [response EXCEPT ![s] = answer(s)]
       \/ /\ response' = [response EXCEPT ![s] = "pool"]
          /\ UNCHANGED pool
    /\ UNCHANGED <<app, bytes, nonce, err, tries, netVars, chainVars, app_sample>>

\* The listener samples the transaction that entered the pool: only data that
\* matches its commitments counts.
sample_application(t) ==
    /\ t \in pool
    /\ app_sample' = [app_sample EXCEPT ![t] =
                        IF records[<<app[t[1]], t[2]>>] = t[1] THEN "available" ELSE "unavailable"]
    /\ UNCHANGED <<callVars, netVars, chainVars, pool>>

\* Wrong variant: the nonce accepted last is still valid.
nonce_valid_again(n) == n >= Nonces[AppId]

\* The counter is that of the application registered last, whoever submits.
nonce_valid(n) == n = Nonces[AppId] + 1

\* A block includes the transaction; with an application that is not registered or
\* another nonce, or in a block that is full, it fails.
submit_data(t) ==
    /\ t \in pool
    /\ pool' = pool \ {t}
    /\ \/ /\ app[t[1]] <= AppId /\ nonce_valid(t[2])
          /\ Nonces' = [Nonces EXCEPT ![AppId] = t[2]]
          /\ accepted' = accepted \cup {<<t[1], t[2], AppId>>}
          /\ UNCHANGED AppId
       \/ UNCHANGED chainVars
    /\ UNCHANGED <<callVars, netVars, app_sample>>

register_app ==
    /\ AppId < MaxAppId
    /\ AppId' = AppId + 1
    /\ UNCHANGED <<callVars, netVars, pool, app_sample, Nonces, accepted>>

SubmitInit ==
    /\ app \in [Submission -> AppIds]
    /\ bytes \in [Submission -> {"good", "bad", "bad_length"}]
    /\ stage = [s \in Submission |-> "idle"]
    /\ nonce = [s \in Submission |-> 0]
    /\ err = [s \in Submission |-> FALSE]
    /\ response = [s \in Submission |-> "none"]
    /\ tries = [s \in Submission |-> 0]
    /\ records = [k \in AppIds \X Nonce |-> NoData] /\ put = [t \in Tx |-> "none"]
    /\ pool = {} /\ app_sample = [t \in Tx |-> "none"]
    /\ AppId = 0 /\ Nonces = [a \in AppIds |-> 0] /\ accepted = {}

SubmitNext ==
    \/ \E s \in Submission : begin(s) \/ verify_bytes(s) \/ put_bytes(s) \/ submit_one(s)
    \/ \E t \in Tx : sample_application(t) \/ submit_data(t)
    \/ register_app

SubmitSpec == SubmitInit /\ [][SubmitNext]_submitVars

-----------------------------------------------------------------------------
(* Correctness *)

\* The calls, the pool, the network and the chain keep their types.
SubmitTypeOK ==
    /\ app \in [Submission -> AppIds]
    /\ stage \in [Submission -> CallStage]
    /\ nonce \in [Submission -> Nonce \cup {0}]
    /\ err \in [Submission -> BOOLEAN]
    /\ response \in [Submission -> Response]
    /\ records \in [AppIds \X Nonce -> Submission \cup {NoData}]
    /\ pool \subseteq Tx /\ accepted \subseteq Blob /\ put \in [Tx -> PutResult]
    /\ app_sample \in [Tx -> {"none", "available", "unavailable"}]
    /\ AppId \in AppIds /\ Nonces \in [AppIds -> Nonce \cup {0}]

\* The data of a transaction that is on its way or on chain was tried to be put into the
\* network before, unless it never verified: samplers do not look too early, over all
\* retries (submit_blob_tx puts before it submits).  That the put was answered without
\* error does not say that the records are there.
PutBeforePool ==
    /\ \A t \in pool : bytes[t[1]] = "good" => put[t] # "none"
    /\ \A t \in accepted : bytes[t[1]] = "good" => put[<<t[1], t[2]>>] # "none"

\* A plain success is answered only for data that verified and whose put gave no
\* error, over all retries (err_msg of submit_blob_tx).
ErrorsAnswered ==
    \A s \in Submission : response[s] = "ok" =>
        bytes[s] = "good" /\ put[<<s, nonce[s]>>] \in {"put", "dropped"}

\* The network never holds data under an application and a nonce whose commitments it
\* does not match: what is found under a key was verified against some transaction of
\* that application with that nonce.
RecordsVerified ==
    \A a \in AppIds, n \in Nonce :
        LET s == records[<<a, n>>] IN
            s # NoData => bytes[s] = "good" /\ app[s] = a /\ put[<<s, n>>] # "none"

\* Blobs accepted while the same application was the last one have nonces of their own
\* without gaps, however many submissions read the same nonce (submit_data): two blobs
\* of an application share a nonce, and their keys, only if an application was
\* registered in between.
NoncesOfCounter ==
    \A a \in AppIds, n \in Nonce :
        Cardinality({t \in accepted : t[3] = a /\ t[2] = n}) = IF n <= Nonces[a] THEN 1 ELSE 0

-----------------------------------------------------------------------------
(* What the comments of the code say *)

\* "`err` - `Some` error string if the data submission fails. `None` if successful":
\* the data of a blob that the chain accepted after a plain success is held by the
\* network.
SuccessIsHeld ==
    \A t \in accepted :
        response[t[1]] = "ok" /\ nonce[t[1]] = t[2] => records[<<app[t[1]], t[2]>>] = t[1]

\* "Holds the nonce for the application": a nonce that is the next one of its application
\* is accepted.
OwnNonceAccepted ==
    \A t \in pool : app[t[1]] <= AppId /\ t[2] = Nonces[app[t[1]]] + 1 => nonce_valid(t[2])
=============================================================================
