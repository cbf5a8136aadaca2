----------------------------- MODULE Validators -----------------------------
(***************************************************************************)
(* The validator service next to the chain it keeps going.                 *)
(*                                                                         *)
(*   validator/src/validator.rs                                            *)
(*   validator/src/utils.rs     submit_call, submit_generate_block_call    *)
(*                                                                         *)
(* One service runs for each key.  It keeps nothing between two rounds of  *)
(* its loop: it reads the chain account and, when no block is pending, the *)
(* host's slot and the trie, each with a request of its own, and submits   *)
(* at most one call.  Whatever it read may be stale when the call is       *)
(* executed.  Requests and transactions get lost, and a transaction may be *)
(* executed although the service is told that it failed.                   *)
(***************************************************************************)
EXTENDS GuestChain

CONSTANT MaxTries   \* max_tries of run_validator

ASSUME MaxTriesAssumption == MaxTries \in Nat \ {0}

VARIABLE service    \* what the service of each key is about to do

allVars == <<vars, service>>

Sleeping == [does |-> "sleep"]
Asking(ch) == [does |-> "ask", chain |-> ch]
Checking(roots) == [does |-> "check", passes |-> roots]
Signing(fp, tries) == [does |-> "sign", fingerprint |-> fp, tries |-> tries]
Generating(tries) == [does |-> "generate", tries |-> tries]

Does(pk, what) == service[pk].does = what
Goes(pk, to) == service' = [service EXCEPT ![pk] = to]

InitServices == Init /\ service = [pk \in PubKey |-> Sleeping]

-----------------------------------------------------------------------------
(* The loop.                                                               *)

\* What the chain account tells the service to do.
AfterReading(pk, ch) ==
    IF ch.pending_block = None THEN Asking(ch)
    ELSE IF pk \in ch.pending_block.signers THEN Sleeping
    ELSE Signing(ch.pending_block.fingerprint, 1)

ReadChain(pk) ==
    /\ Does(pk, "sleep")
    /\ Goes(pk, AfterReading(pk, chain))
    /\ UNCHANGED vars

\* ChainData::check_generate_block, on the chain account that was read before.
check_generate_block(ch, root) ==
    validate_generate_next(ch, host_height, host_timestamp, root)

\* The host's slot and the time of that slot.  Of these and the chain account
\* the service needs no more than the roots of the trie that it will call for a
\* block with.
ReadHost(pk) ==
    /\ Does(pk, "ask")
    /\ Goes(pk, Checking({root \in Roots :
                            check_generate_block(service[pk].chain, root)}))
    /\ UNCHANGED vars

\* The trie is read last.
CheckGenerate(pk) ==
    /\ Does(pk, "check")
    /\ Goes(pk, IF state_root \in service[pk].passes THEN Generating(1) ELSE Sleeping)
    /\ UNCHANGED vars

\* A request for data fails: the service panics and is started again.
Restart(pk) ==
    /\ Does(pk, "ask") \/ Does(pk, "check")
    /\ Goes(pk, Sleeping)
    /\ UNCHANGED vars

\* The call again, unless it was tried often enough.
Retry(call) ==
    IF call.tries = MaxTries THEN Sleeping ELSE [call EXCEPT !.tries = @ + 1]

\* The answer to a call: one that ends the round or one that is retried.
Answered(pk) == \E to \in {Sleeping, Retry(service[pk])} : Goes(pk, to)

\* submit_call: the transaction is executed.
Sign(pk) ==
    /\ Does(pk, "sign")
    /\ SignBlock(pk, service[pk].fingerprint)
    /\ Answered(pk)

\* submit_generate_block_call: the transaction is executed.
Generate(pk) ==
    /\ Does(pk, "generate")
    /\ GenerateBlock
    /\ Answered(pk)

\* Either transaction is lost, expires or fails on the chain.
Fail(pk) ==
    /\ Does(pk, "sign") \/ Does(pk, "generate")
    /\ Answered(pk)
    /\ UNCHANGED vars

-----------------------------------------------------------------------------

\* Everybody else: the host, users and the administrator.  Other instructions
\* that change stakes are in GuestChain.
Others ==
    /\ \/ \E timestamp \in 1 .. MaxTimestamp : Tick(timestamp)
       \/ \E pk \in PubKey, amount \in StakeValues : SetStake(pk, amount)
       \/ \E root \in Roots : Deliver(root)
       \/ \E u \in ConfigUpdates : UpdateChainConfig(u)
    /\ UNCHANGED service

NextServices ==
    \/ Others
    \/ \E pk \in PubKey :
         \/ ReadChain(pk) \/ ReadHost(pk) \/ CheckGenerate(pk) \/ Restart(pk)
         \/ Sign(pk) \/ Generate(pk) \/ Fail(pk)

\* The loop of each service goes on, and requests and transactions that are
\* repeated for ever do not fail every time.
FairServices ==
    /\ InitServices
    /\ [][NextServices]_allVars
    /\ \A pk \in PubKey :
         /\ WF_allVars(ReadChain(pk))
         /\ WF_allVars(Fail(pk))
         /\ SF_allVars(ReadHost(pk))
         /\ SF_allVars(CheckGenerate(pk))
         /\ SF_allVars(Sign(pk))
         /\ SF_allVars(Generate(pk))

-----------------------------------------------------------------------------
(* Liveness.                                                               *)

\* A pending block is eventually final.
PendingIsFinalised ==
    \A h \in 2 .. MaxHostHeight :
        (chain.pending_block # None /\ head(chain).block_height = h)
            ~> (chain.header.block_height >= h)

\* The host's slot is still open to a block, and one is due.
BlockIsDue ==
    /\ chain.last_check_height # host_height
    /\ generate_next(chain, host_height, host_timestamp, state_root) # {}

\* A block does not stay due.
DueIsGenerated == []<>~BlockIsDue

(* Services that know nothing but what they read, late, and that lose      *)
(* calls, repeat calls that have been executed or make calls that no       *)
(* longer apply, keep the chain going whatever happens to candidates and   *)
(* configuration: a block that is due is generated and a block that is     *)
(* pending becomes final.                                                  *)
ChainKeepsGoing == PendingIsFinalised /\ DueIsGenerated
=============================================================================
