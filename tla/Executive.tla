------------------------------ MODULE Executive ------------------------------
(***************************************************************************)
(* Block execution (crates/frame-executive-ext with frame-system-ext): an  *)
(* author validates transactions, builds blocks one extrinsic at a time    *)
(* and seals them with the extended header; another node executes each     *)
(* block on its own state and compares the headers.                        *)
(*                                                                         *)
(* The storage is a record of what the executive and frame_system write,   *)
(* and of what the pallets do in this model: a call stores a blob, or      *)
(* replaces the code, or is the inherent of the block.  Hashes and roots   *)
(* are the values they are computed from.  A panic ends the call and its   *)
(* changes are dropped.                                                    *)
(***************************************************************************)
EXTENDS Naturals, Sequences, FiniteSets

CONSTANTS
    Account,        \* senders of transactions
    Extrinsic,      \* the extrinsics, records of ExtrinsicRecord
    Pallet,         \* the pallets with a try_state check
    MaxBlobs,       \* blobs the storage takes before submit_data fails
    MaxWeight,      \* BlockWeights::max_block; an extrinsic weighs one
    BaseWeight,     \* base_block and on_initialize
    UpgradeWeight,  \* execute_on_runtime_upgrade
    MaxBlock,       \* bound: blocks built
    MaxVersion      \* bound: versions of the code

Call == {"submit_data", "set_code", "inherent"}

\* good: the signature verifies; for an inherent, that its data is right.
ExtrinsicRecord == [call: Call, who: Account, nonce: 0..MaxBlock, good: BOOLEAN]

ASSUME ExecutiveAssumption ==
    /\ Extrinsic \subseteq ExtrinsicRecord
    /\ {MaxBlobs, MaxWeight, BaseWeight, UpgradeWeight, MaxBlock, MaxVersion} \subseteq Nat

VARIABLES
    pool,       \* validated transactions of the author
    chain,      \* the author's blocks with the storage after each; chain[1] is genesis
    building,   \* the storage of the block under construction, <<>> or one
    imported,   \* storages of the importing node, imported[1] is genesis
    refused     \* blocks of the author that the importing node refused

vars == <<pool, chain, building, imported, refused>>

-----------------------------------------------------------------------------
(* frame_system *)

Mandatory(xt) == xt.call = "inherent"

Genesis == [number |-> 0, parent_hash |-> <<>>, digest |-> <<>>, weight |-> 0,
            extrinsics |-> <<>>, index |-> 0,
            nonce |-> [a \in Account |-> 0], blobs |-> 0, code |-> 1,
            last_upgrade |-> 1, migrations |-> 0, idles |-> 0]

\* The block's own number and parent hash are put; the parent hash becomes the hash
\* of the block before, and the weight is reset.
initialize(s, number, parent_hash, digest) ==
    [s EXCEPT !.number = number, !.parent_hash = parent_hash, !.digest = digest,
              !.index = 0, !.weight = 0]

\* The encoded extrinsic is put under the current index.
note_extrinsic(s, xt) ==
    [s EXCEPT !.extrinsics = Append(SubSeq(@, 1, s.index), xt)]

note_applied_extrinsic(s) == [s EXCEPT !.index = @ + 1]

\* The extrinsics that were counted are taken out of the storage; the header of
\* frame_system is extended with what CommitList::last returns.
finalize(s) ==
    LET after == [s EXCEPT !.extrinsics = SubSeq(@, s.index + 1, Len(@)), !.index = 0]
    IN  [header |-> [number |-> s.number, parent_hash |-> s.parent_hash, digest |-> s.digest,
                     extrinsics_root |-> SubSeq(s.extrinsics, 1, s.index),
                     state_root |-> after, extension |-> s.blobs],
         storage |-> after]

signature_ok(xt) == xt.good \/ Mandatory(xt)

\* The sender's nonce is the expected one and the block has room (SignedExtra).
pre_dispatch(s, xt) ==
    Mandatory(xt) \/ (xt.nonce = s.nonce[xt.who] /\ s.weight < MaxWeight)

\* What the call returns.
dispatch_ok(s, xt) ==
    \/ xt.call = "submit_data" /\ s.blobs < MaxBlobs
    \/ xt.call = "set_code" /\ s.code < MaxVersion
    \/ xt.call = "inherent" /\ xt.good

\* The call's changes; a failing call only counts as a transaction.
dispatch(s, xt) ==
    LET counted == [s EXCEPT !.weight = @ + 1,
                             !.nonce[xt.who] = IF Mandatory(xt) THEN @ ELSE @ + 1]
    IN  CASE ~dispatch_ok(s, xt)       -> counted
          [] xt.call = "submit_data"   -> [counted EXCEPT !.blobs = @ + 1]
          [] xt.call = "set_code"      -> [counted EXCEPT !.code = @ + 1,
                                              !.digest = Append(@, "environment_updated")]
          [] OTHER                     -> counted

-----------------------------------------------------------------------------
(* The executive *)

\* Only pre-runtime items of the digest are given to the block.
extract_pre_digest(header) ==
    LET kept[n \in 0..Len(header.digest)] ==
            IF n = 0 THEN <<>>
            ELSE IF header.digest[n] = "pre_runtime" THEN Append(kept[n - 1], header.digest[n])
            ELSE kept[n - 1]
    IN  kept[Len(header.digest)]

\* The code is newer than the one that ran the upgrade hooks last.
runtime_upgraded(s) == s.code > s.last_upgrade

\* Wrong variant: the version is not put, so that the hooks run in every block.
execute_on_runtime_upgrade_unversioned(s) == [s EXCEPT !.migrations = @ + 1]

\* The version is put and the upgrade hooks run.
execute_on_runtime_upgrade(s) ==
    [s EXCEPT !.last_upgrade = s.code, !.migrations = @ + 1]

\* The hooks run before initialize, and their weight is registered after it.
initialize_block(s, header) ==
    LET base   == IF runtime_upgraded(s) THEN execute_on_runtime_upgrade(s) ELSE s
        weight == BaseWeight + IF runtime_upgraded(s) THEN UpgradeWeight ELSE 0
    IN  [initialize(base, header.number, header.parent_hash, extract_pre_digest(header))
            EXCEPT !.weight = weight]

Included(s)   == [ok |-> TRUE, storage |-> s]
Refused(s)    == [ok |-> FALSE, storage |-> s]

\* A call that fails is included, unless it is an inherent.
apply_extrinsic(s, xt) ==
    LET noted == note_extrinsic(s, xt)
    IN  CASE ~signature_ok(xt)         -> Refused(s)
          [] ~pre_dispatch(noted, xt)  -> Refused(noted)
          [] Mandatory(xt) /\ ~dispatch_ok(noted, xt) -> Refused(dispatch(noted, xt))
          [] OTHER                     -> Included(note_applied_extrinsic(dispatch(noted, xt)))

\* An extrinsic of try_execute_block: a failing inherent is included, and with
\* signature_check off every signature is taken for good.
try_apply_extrinsic(s, xt, signature_check) ==
    LET noted == note_extrinsic(s, xt)
    IN  CASE signature_check /\ ~signature_ok(xt) -> Refused(s)
          [] ~pre_dispatch(noted, xt)  -> Refused(noted)
          [] OTHER                     -> Included(note_applied_extrinsic(dispatch(noted, xt)))

\* The ways to execute a block: execute_block, and try_execute_block with its check of
\* signatures on and off.
Way == {"execute", "try", "try_unsigned"}

apply_by(way, s, xt) ==
    IF way = "execute" THEN apply_extrinsic(s, xt)
                       ELSE try_apply_extrinsic(s, xt, way = "try")

\* Extrinsics are applied in their order; the first that is refused ends the loop.
apply_all(way, s, body) ==
    LET after[n \in 0..Len(body)] ==
            IF n = 0 THEN Included(s)
            ELSE IF after[n - 1].ok THEN apply_by(way, after[n - 1].storage, body[n])
            ELSE after[n - 1]
    IN  after[Len(body)]

\* on_idle runs when the block has weight left.
idle_and_finalize_hook(s) ==
    IF s.weight < MaxWeight THEN [s EXCEPT !.weight = @ + 1, !.idles = @ + 1] ELSE s

finalize_block(s) == finalize(idle_and_finalize_hook(s))

ensure_inherents_are_first(body) ==
    \A i, j \in DOMAIN body : i < j /\ Mandatory(body[j]) => Mandatory(body[i])

\* The parent hash compared is the one that initialize has just put.
initial_checks(s, block) ==
    /\ block.header.number > 0
    /\ s.parent_hash = block.header.parent_hash
    /\ ensure_inherents_are_first(block.body)

\* Wrong variant: the root of the storage is not compared.
final_checks_no_root(header, computed) ==
    /\ header.digest = computed.digest
    /\ header.extrinsics_root = computed.extrinsics_root

final_checks(header, computed) ==
    /\ header.digest = computed.digest
    /\ header.state_root = computed.state_root
    /\ header.extrinsics_root = computed.extrinsics_root

\* Not ok: the call panics.
execute_block(s, block) ==
    LET start   == initialize_block(s, block.header)
        applied == apply_all("execute", start, block.body)
        final   == finalize_block(applied.storage)
    IN  [ok |-> /\ initial_checks(start, block)
                /\ applied.ok
                /\ final_checks(block.header, final.header),
         storage |-> final.storage]

\* Wrong variant: the digest is compared with the one given to initialize_block.
try_final_checks_pre(header, computed, state_root_check) ==
    /\ header.digest = extract_pre_digest(header)
    /\ header.extrinsics_root = computed.extrinsics_root

\* Digest items are compared as far as both lists go.
try_final_checks(header, computed, state_root_check) ==
    /\ \A i \in DOMAIN header.digest \cap DOMAIN computed.digest :
          header.digest[i] = computed.digest[i]
    /\ state_root_check => header.state_root = computed.state_root
    /\ header.extrinsics_root = computed.extrinsics_root

\* The checks of the selected pallets; broken are the pallets that find their part of
\* the storage wrong.
try_state(select, broken) == select \cap broken = {}

\* The first extrinsic that is refused ends the loop and not the block.  A check of a
\* pallet that fails is returned as an error, any other check panics.
try_execute_block(s, block, state_root_check, signature_check, select, broken) ==
    LET start   == initialize_block(s, block.header)
        applied == apply_all(IF signature_check THEN "try" ELSE "try_unsigned",
                             start, block.body)
    IN  IF ~initial_checks(start, block) THEN "panic"
        ELSE IF ~try_state(select, broken) THEN "err"
        ELSE IF try_final_checks(block.header, finalize_block(applied.storage).header,
                                 state_root_check) THEN "ok"
        ELSE "panic"

\* Wrong variant: inherents are taken into the pool.
validate_transaction_mandatory(s, xt) ==
    signature_ok(xt) /\ xt.nonce >= s.nonce[xt.who]

\* A later nonce is valid: the transaction waits for the ones before it.
validate_transaction(s, xt) ==
    /\ signature_ok(xt)
    /\ ~Mandatory(xt)
    /\ xt.nonce >= s.nonce[xt.who]

-----------------------------------------------------------------------------
(* The author *)

Best == chain[Len(chain)].storage

\* A transaction reaches the author and is validated on its best block.
submit_transaction(xt) ==
    /\ xt \notin pool
    /\ validate_transaction(Best, xt)
    /\ pool' = pool \cup {xt}
    /\ UNCHANGED <<chain, building, imported, refused>>

start_block ==
    /\ building = <<>>
    /\ Len(chain) <= MaxBlock
    /\ building' = <<initialize_block(Best,
            [number |-> Best.number + 1, parent_hash |-> chain[Len(chain)].header,
             digest |-> <<"pre_runtime">>])>>
    /\ UNCHANGED <<pool, chain, imported, refused>>

\* The block builder applies each extrinsic in a storage transaction, which is rolled
\* back when it is refused.
built_with(xt) ==
    LET r == apply_extrinsic(building[1], xt)
    IN  IF r.ok THEN <<r.storage>> ELSE building

\* The inherents are applied before the transactions of the pool.
apply_inherent(xt) ==
    /\ building # <<>>
    /\ Mandatory(xt)
    /\ \A k \in 1..building[1].index :
          Mandatory(building[1].extrinsics[k]) /\ building[1].extrinsics[k] # xt
    /\ building' = built_with(xt)
    /\ UNCHANGED <<pool, chain, imported, refused>>

\* A refused transaction leaves the pool, unless the block was full.
apply_transaction(xt) ==
    /\ building # <<>>
    /\ xt \in pool
    /\ building' = built_with(xt)
    /\ pool' = IF building[1].weight < MaxWeight THEN pool \ {xt} ELSE pool
    /\ UNCHANGED <<chain, imported, refused>>

seal_block ==
    /\ building # <<>>
    /\ LET final == finalize_block(building[1])
       IN  chain' = Append(chain, [header |-> final.header, storage |-> final.storage,
                                   body |-> final.header.extrinsics_root])
    /\ building' = <<>>
    /\ UNCHANGED <<pool, imported, refused>>

(* The importing node *)

import_block ==
    /\ Len(imported) < Len(chain)
    /\ LET block  == chain[Len(imported) + 1]
           result == execute_block(imported[Len(imported)], block)
       IN  IF result.ok
             THEN imported' = Append(imported, result.storage) /\ UNCHANGED refused
             ELSE refused' = refused \cup {block.header.number} /\ UNCHANGED imported
    /\ UNCHANGED <<pool, chain, building>>

Init ==
    /\ pool = {}
    /\ chain = <<[header |-> [number |-> 0], storage |-> Genesis, body |-> <<>>]>>
    /\ building = <<>>
    /\ imported = <<Genesis>>
    /\ refused = {}

Next ==
    \/ \E xt \in Extrinsic : submit_transaction(xt) \/ apply_inherent(xt) \/ apply_transaction(xt)
    \/ start_block
    \/ seal_block
    \/ import_block

Spec == Init /\ [][Next]_vars

-----------------------------------------------------------------------------
(* Correctness *)

Blocks == 2..Len(chain)

\* A block that an author builds from validated transactions and inherents, refused
\* ones rolled back, is executed without a panic by every node (execute_block), also
\* over an upgrade of the code and with calls that fail, and gives the author's storage.
BuiltBlocksImport ==
    /\ refused = {}
    /\ \A k \in DOMAIN imported : imported[k] = chain[k].storage

\* Alterations of a block that a node must notice.
Altered(block, what) ==
    CASE what = "state_root"      -> [block EXCEPT !.header.state_root.blobs = @ + 1]
      [] what = "extrinsics_root" -> [block EXCEPT !.header.extrinsics_root = Append(@, "other")]
      [] what = "digest"          -> [block EXCEPT !.header.digest = Append(@, "other")]
      [] what = "body"            -> [block EXCEPT !.body = SubSeq(@, 1, Len(@) - 1)]
      [] what = "extension"       -> [block EXCEPT !.header.extension = @ + 1]

\* A block whose roots, digest or body are not the ones that its execution gives
\* is not accepted (final_checks).
AlteredBlocksRefused ==
    \A k \in Blocks, what \in {"state_root", "extrinsics_root", "digest", "body"} :
        (what = "body" => chain[k].body # <<>>)
            => ~execute_block(chain[k - 1].storage, Altered(chain[k], what)).ok

\* The hooks of an upgrade run in the first block that the new code executes, and in
\* no other, also when the code is replaced twice in one block.
UpgradesRunOnce ==
    \A k \in DOMAIN chain :
        chain[k].storage.migrations =
            Cardinality({j \in 2..(k - 1) : chain[j].storage.code # chain[j - 1].storage.code})

\* try_execute_block, which migrations are tested with, takes a block that nodes accept
\* unless a selected check of a pallet fails, which it returns, and never panics over it,
\* with any of its checks switched off.  Although its loop goes on where execute_block
\* panics, it takes no block with an altered root or body: the state root is left out
\* when its check is off.
TryRuntimeAgrees ==
    \A k \in Blocks, root, sig \in BOOLEAN :
        LET try(block, select, broken) ==
                try_execute_block(chain[k - 1].storage, block, root, sig, select, broken)
            takes(what) == try(Altered(chain[k], what), {}, {}) = "ok"
        IN  /\ execute_block(chain[k - 1].storage, chain[k]).ok
                 => \A select, broken \in SUBSET Pallet :
                       try(chain[k], select, broken)
                          = IF try_state(select, broken) THEN "ok" ELSE "err"
            /\ root => ~takes("state_root")
            /\ ~takes("extrinsics_root")
            /\ chain[k].body # <<>> => ~takes("body")

-----------------------------------------------------------------------------
(* What the comments of the code say *)

\* The module "introduces an extended block header that includes a commitment list": a
\* node refuses a block whose header has other commitments than finalize computes.
AlteredExtensionRefused ==
    \A k \in Blocks :
        ~execute_block(chain[k - 1].storage, Altered(chain[k], "extension")).ok
=============================================================================
