----------------------------- MODULE MeloStore -----------------------------
(***************************************************************************)
(* The data-availability pallet of Melodot (crates/pallet-melo-store) and  *)
(* the part of block execution that calls it: frame-executive-ext opens    *)
(* and closes blocks, frame-system-ext writes the pallet's commitments in  *)
(* the header.                                                             *)
(*                                                                         *)
(* A block is open between initialize_block and finalize_block; extrinsics *)
(* are applied while it is open.  An extrinsic that returns an error       *)
(* leaves no trace (FRAME rolls its storage back), so only the successful  *)
(* calls are steps: the guards are the conjunction of the code's checks.   *)
(***************************************************************************)
EXTENDS Integers, Sequences, FiniteSets, SequencesExt

CONSTANTS
    Authority,      \* the validators' keys
    SessionKeys,    \* the key lists a session can install (on_new_session)
    CommitmentLists,\* the commitment lists a submission can carry
    MaxBlobNum,     \* T::MaxBlobNum: commitments of a blob, voters of a blob
    MaxKeys,        \* T::MaxKeys: metadata entries of a block
    MaxU32,         \* u32::MAX, where the nonce saturates
    MaxAppId,       \* bound: applications ever registered
    MaxBlock        \* bound: blocks ever built

ASSUME StoreAssumption ==
    /\ MaxBlobNum \in Nat \ {0} /\ MaxKeys \in Nat \ {0}
    /\ MaxU32 \in Nat \ {0} /\ MaxAppId \in Nat /\ MaxBlock \in Nat
    /\ IsFiniteSet(Authority)
    /\ \A ks \in SessionKeys : ks \in Seq(Authority) /\ IsInjective(ks)

VARIABLES
    block_number,   \* frame_system::block_number
    phase,          \* "open" between initialize_block and finalize_block
    Metadata,       \* block -> the blobs submitted in it
    UnavailableVote,\* block, blob index -> authority indexes that reported it
    Keys,           \* the authority list reports are checked against
    validators,     \* pallet_session: number of validators of the session
    disabled,       \* pallet_session: positions disabled in the session
    AppId,          \* the application registered last
    Nonces,         \* application -> nonce accepted last
    headers,        \* number of a closed block -> its header extension
    signers,        \* history: block, blob index -> authorities that reported
    keys_since      \* history: first block all of whose reports saw these Keys

chainVars == <<block_number, phase, headers>>
blobVars  == <<Metadata, AppId, Nonces>>
voteVars  == <<UnavailableVote, signers>>
keyVars   == <<Keys, validators, disabled, keys_since>>
storeVars == <<chainVars, blobVars, voteVars, keyVars>>

Blocks  == 0..MaxBlock
Indexes == 0..(MaxKeys - 1)          \* positions in the metadata of a block
AuthIndex == 0..(Cardinality(Authority) - 1)

DELAY_CHECK_THRESHOLD == 1

BlobMetadata == [app_id: 0..MaxAppId, nonce: 1..MaxU32,
                 commitments: CommitmentLists, is_available: BOOLEAN]

\* The arguments of submit_data.  blob_num stands for the number of blobs that
\* bytes_len bytes fill; nothing relates it to the number of commitments.
SidecarMetadata == [app_id: 0..MaxAppId, nonce: 1..MaxU32,
                    blob_num: 0..(MaxBlobNum + 1),
                    commitments: CommitmentLists, proofs: 0..(MaxBlobNum + 1)]

\* The arguments of report, with the authority whose signature they carry.  The
\* code's index_set is a list; one with a repeated index always fails.
UnavailableDataReport == [at_block: Blocks, authority_index: AuthIndex,
                          index_set: SUBSET Indexes,
                          validators_len: 0..Cardinality(Authority),
                          signer: Authority]

-----------------------------------------------------------------------------
(* The header extension *)

\* The metadata entries of a block that are still available.
iter_metadata(metadata) == SelectSeq(metadata, LAMBDA m : m.is_available)

\* Their commitments, blob after blob.
get_commitments(metadata) ==
    FlattenSeq([i \in DOMAIN metadata |->
        IF metadata[i].is_available THEN metadata[i].commitments ELSE <<>>])

get_commitments_and_app_lookups(metadata) ==
    LET ms == iter_metadata(metadata)
    IN  [commitments |-> get_commitments(metadata),
         app_lookup  |-> [i \in DOMAIN ms |->
            [app_id |-> ms[i].app_id, nonce |-> ms[i].nonce,
             count  |-> Len(ms[i].commitments)]]]

EmptyExtension == [commitments |-> <<>>, app_lookup |-> <<>>]

\* What HeaderCommitList::last returns while block n is finalised.
HeaderExtension(n) ==
    IF n <= DELAY_CHECK_THRESHOLD
      THEN EmptyExtension
      ELSE get_commitments_and_app_lookups(Metadata[n - DELAY_CHECK_THRESHOLD])

last == HeaderExtension(block_number)

-----------------------------------------------------------------------------
(* Extrinsics *)

check(p) ==
    Len(p.commitments) = p.proofs /\ p.commitments # <<>> /\ p.blob_num > 0

saturating_succ(n) == IF n < MaxU32 THEN n + 1 ELSE MaxU32

\* Wrong variant: the bound of the metadata list is not checked.
try_push_unbounded(m) ==
    Metadata' = [Metadata EXCEPT ![block_number] = Append(@, m)]

\* Metadata::try_mutate(now, try_push)
try_push(m) ==
    /\ Len(Metadata[block_number]) < MaxKeys
    /\ Metadata' = [Metadata EXCEPT ![block_number] = Append(@, m)]

\* The nonce is the one of the application registered last, whatever
\* application the submission is for.
submit_data(p) ==
    /\ phase = "open"
    /\ check(p)
    /\ p.blob_num <= MaxBlobNum
    /\ p.app_id <= AppId
    /\ p.nonce = saturating_succ(Nonces[AppId])
    /\ Len(p.commitments) <= MaxBlobNum
    /\ p.proofs <= MaxBlobNum
    /\ try_push([app_id |-> p.app_id, nonce |-> p.nonce,
                 commitments |-> p.commitments, is_available |-> TRUE])
    /\ Nonces' = [Nonces EXCEPT ![AppId] = p.nonce]
    /\ UNCHANGED <<chainVars, voteVars, keyVars, AppId>>

register_app ==
    /\ phase = "open"
    /\ AppId < MaxAppId
    /\ AppId' = AppId + 1
    /\ UNCHANGED <<chainVars, voteVars, keyVars, Metadata, Nonces>>

\* Applied by the transaction pool and again before dispatch.
validate_unsigned(r) ==
    /\ r.authority_index < Len(Keys)
    /\ r.validators_len = Len(Keys)
    /\ Keys[r.authority_index + 1] = r.signer

\* Wrong variant: the window is one block longer.
in_report_window_late(at_block) ==
    /\ at_block <= block_number
    /\ at_block + DELAY_CHECK_THRESHOLD + 1 >= block_number

in_report_window(at_block) ==
    /\ at_block <= block_number
    /\ at_block + DELAY_CHECK_THRESHOLD >= block_number

\* The checks of handle_vote, with the lookup of the metadata entry before it.
vote_accepted(r, i) ==
    /\ i < Len(Metadata[r.at_block])
    /\ r.authority_index \notin UnavailableVote[r.at_block][i]
    /\ Cardinality(UnavailableVote[r.at_block][i]) < MaxBlobNum

\* Wrong variant: half of the authorities are enough.
exceeds_threshold_tie(vote_num) == vote_num >= Len(Keys) \div 2

exceeds_threshold(vote_num) == vote_num > Len(Keys) \div 2

handle_vote(r, i, m) ==
    IF exceeds_threshold(Cardinality(UnavailableVote[r.at_block][i]) + 1)
      THEN [m EXCEPT !.is_available = FALSE]
      ELSE m

report_accepted(r) ==
    /\ phase = "open"
    /\ validate_unsigned(r)
    /\ in_report_window(r.at_block)
    /\ r.index_set # {}
    /\ \A i \in r.index_set : vote_accepted(r, i)

report(r) ==
    /\ report_accepted(r)
    /\ Metadata' = [Metadata EXCEPT ![r.at_block] =
          [k \in DOMAIN @ |-> IF k - 1 \in r.index_set
                                THEN handle_vote(r, k - 1, @[k]) ELSE @[k]]]
    /\ UnavailableVote' = [UnavailableVote EXCEPT ![r.at_block] =
          [i \in Indexes |-> IF i \in r.index_set
                               THEN @[i] \cup {r.authority_index} ELSE @[i]]]
    /\ signers' = [signers EXCEPT ![r.at_block] =
          [i \in Indexes |-> IF i \in r.index_set
                               THEN @[i] \cup {r.signer} ELSE @[i]]]
    /\ UNCHANGED <<chainVars, keyVars, AppId, Nonces>>

-----------------------------------------------------------------------------
(* Sessions *)

\* pallet_session disables the validator at position i of the session, once,
\* while extrinsics run.  Vec::remove shifts the later keys down and panics
\* when there is no position i any more: that call is then not applied.
on_disabled(i) ==
    /\ phase = "open"
    /\ i < validators /\ i \notin disabled
    /\ i < Len(Keys)
    /\ Keys' = RemoveAt(Keys, i + 1)
    /\ disabled' = disabled \cup {i}
    /\ keys_since' = block_number + 1
    /\ UNCHANGED <<chainVars, blobVars, voteVars, validators>>

-----------------------------------------------------------------------------
(* Blocks *)

open_block ==
    /\ phase = "closed"
    /\ block_number < MaxBlock
    /\ block_number' = block_number + 1
    /\ phase' = "open"
    /\ UNCHANGED <<headers, blobVars, voteVars>>

initialize_block == open_block /\ UNCHANGED keyVars

\* on_initialize of pallet_session rotates the session first.
on_new_session(keys) ==
    /\ open_block
    /\ Keys' = keys
    /\ validators' = Len(keys)
    /\ disabled' = {}
    /\ keys_since' = block_number'

\* Wrong variant: votes are cleared one block later than they expire.
expired_block_late == block_number - (DELAY_CHECK_THRESHOLD + 2)

expired_block == block_number - (DELAY_CHECK_THRESHOLD + 1)

\* clear_prefix removes at most MaxBlobNum entries, in the order of their hashes.
clear_prefix(kept) ==
    LET votes == {i \in Indexes : UnavailableVote[expired_block][i] # {}}
    IN  /\ kept \subseteq votes
        /\ Cardinality(kept) = IF Cardinality(votes) > MaxBlobNum
                                 THEN Cardinality(votes) - MaxBlobNum ELSE 0
        /\ UnavailableVote' = [UnavailableVote EXCEPT ![expired_block] =
              [i \in Indexes |-> IF i \in kept THEN @[i] ELSE {}]]
        /\ signers' = [signers EXCEPT ![expired_block] =
              [i \in Indexes |-> IF i \in kept THEN @[i] ELSE {}]]

on_finalize ==
    IF DELAY_CHECK_THRESHOLD + 1 >= block_number
      THEN UNCHANGED voteVars
      ELSE \E kept \in SUBSET Indexes : clear_prefix(kept)

\* The hooks run before the header is sealed.
finalize_block ==
    /\ phase = "open"
    /\ on_finalize
    /\ headers' = [headers EXCEPT ![block_number] = last]
    /\ phase' = "closed"
    /\ UNCHANGED <<block_number, blobVars, keyVars>>

-----------------------------------------------------------------------------
\* Block 0 is the genesis block; its session installs the first keys.
Init ==
    /\ block_number = 0
    /\ phase = "closed"
    /\ Metadata = [b \in Blocks |-> <<>>]
    /\ UnavailableVote = [b \in Blocks |-> [i \in Indexes |-> {}]]
    /\ Keys \in SessionKeys
    /\ validators = Len(Keys)
    /\ disabled = {}
    /\ AppId = 0
    /\ Nonces = [a \in 0..MaxAppId |-> 0]
    /\ headers = [b \in Blocks |-> EmptyExtension]
    /\ signers = [b \in Blocks |-> [i \in Indexes |-> {}]]
    /\ keys_since = 0

Next ==
    \/ initialize_block
    \/ \E keys \in SessionKeys : on_new_session(keys)
    \/ \E p \in SidecarMetadata : submit_data(p)
    \/ register_app
    \/ \E r \in UnavailableDataReport : report(r)
    \/ \E i \in AuthIndex : on_disabled(i)
    \/ finalize_block

Spec == Init /\ [][Next]_storeVars

-----------------------------------------------------------------------------
(* Correctness *)

\* The storage items keep their types and bounds.
TypeOK ==
    /\ block_number \in Blocks
    /\ phase \in {"open", "closed"}
    /\ Metadata \in [Blocks -> Seq(BlobMetadata)]
    /\ \A b \in Blocks : Len(Metadata[b]) <= MaxKeys
    /\ UnavailableVote \in [Blocks -> [Indexes -> SUBSET AuthIndex]]
    /\ Keys \in Seq(Authority)
    /\ validators \in Nat /\ Len(Keys) <= validators
    /\ disabled \subseteq AuthIndex
    /\ AppId \in 0..MaxAppId
    /\ Nonces \in [0..MaxAppId -> 0..MaxU32]
    /\ DOMAIN headers = Blocks
    /\ signers \in [Blocks -> [Indexes -> SUBSET Authority]]
    /\ keys_since \in 0..(MaxBlock + 1)

\* The last block whose header exists.
last_closed == IF phase = "closed" THEN block_number ELSE block_number - 1

\* A header, once sealed, stays the list of the available blobs of the block
\* before it: no report is accepted any more that would change what the header
\* of block n committed to (report's window against HeaderCommitList::last).
HeaderFinal == \A n \in 1..last_closed : headers[n] = HeaderExtension(n)

\* Votes are kept for the report window only: when block n is closed the votes
\* on blocks up to n - 2 are gone, unless such a block had more blobs than
\* clear_prefix removes (on_finalize).
VotesExpire ==
    \A b \in Blocks, i \in Indexes :
        /\ UnavailableVote[b][i] # {}
        /\ Len(Metadata[b]) <= MaxBlobNum
        => /\ b <= block_number
           /\ b >= last_closed - DELAY_CHECK_THRESHOLD

\* While a block can still be reported, and as long as the keys have not changed
\* since it was opened, a blob of it is unavailable exactly when more than half
\* of the authorities, counted as different keys, reported it (handle_vote).
MajorityBacked ==
    \A b \in Blocks : in_report_window(b) /\ b >= keys_since =>
        \A k \in DOMAIN Metadata[b] :
            ~Metadata[b][k].is_available
                <=> 2 * Cardinality(signers[b][k - 1] \cap ToSet(Keys)) > Len(Keys)

\* A step only adds blobs to the open block, and only turns blobs of the report
\* window from available to unavailable: nothing else in Metadata ever changes,
\* and a reported blob never becomes available again (submit_data, report).
MetadataGrows ==
    [][\A b \in Blocks :
          /\ \A k \in DOMAIN Metadata[b] :
                LET m == Metadata[b][k]  n == Metadata'[b][k]
                IN  \/ n = m
                    \/ n = [m EXCEPT !.is_available = FALSE] /\ b > last_closed - 1
          /\ Len(Metadata'[b]) > Len(Metadata[b]) => b = block_number]_storeVars

-----------------------------------------------------------------------------
(* The parts that make the invariants above inductive *)

\* Blobs are submitted to the open block only: there are none in the genesis
\* block and none in the future.
BlobsInThePast ==
    /\ phase = "open" => block_number > 0
    /\ \A b \in Blocks : Metadata[b] # <<>> => 0 < b /\ b <= block_number

\* Only blobs that exist are voted on.
VotesOnBlobs ==
    \A b \in Blocks, i \in Indexes :
        UnavailableVote[b][i] # {} => i < Len(Metadata[b])

HeaderInv == TypeOK /\ BlobsInThePast /\ VotesOnBlobs /\ HeaderFinal /\ VotesExpire

-----------------------------------------------------------------------------
(* What the comments of the code say *)

BlobIds == {x \in Blocks \X (1..MaxKeys) : x[2] <= Len(Metadata[x[1]])}

\* "Holds the nonce for the application using this pallet": two blobs of one
\* application never share a nonce (submit_data, below the saturation of u32).
NoncePerApp ==
    \A x, y \in BlobIds :
        LET m == Metadata[x[1]][x[2]]  n == Metadata[y[1]][y[2]]
        IN  m.app_id = n.app_id /\ m.nonce = n.nonce /\ m.nonce < MaxU32 => x = y

\* "Deletion of expired polling data": whatever the size of a block, its votes
\* are gone when its report window has passed (on_finalize).
ExpiredVotesDeleted ==
    \A b \in Blocks, i \in Indexes :
        UnavailableVote[b][i] # {} => b >= last_closed - DELAY_CHECK_THRESHOLD

\* "Repeat submission or not": an authority is counted once for a blob, also when
\* the key list changes inside the report window (handle_vote).
CountedOnce ==
    \A b \in Blocks, i \in Indexes :
        in_report_window(b) =>
            Cardinality(UnavailableVote[b][i]) = Cardinality(signers[b][i])

\* "Under no circumstances may this function panic": the position pallet_session
\* disables next is still a position of Keys (on_disabled).
DisableInRange == \A i \in 0..(validators - 1) : i \in disabled \/ i < Len(Keys)
=============================================================================
