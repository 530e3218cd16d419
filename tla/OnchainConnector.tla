-------------------------- MODULE OnchainConnector --------------------------
(***************************************************************************)
(* The subscriber to the events of one chain                               *)
(* (src/src/connectors/onchain_events/mod.rs): historical sync in batches  *)
(* of blocks, then a stream of live events with requests to retry          *)
(* (network/admin_server.rs) in between, and the block number that the     *)
(* node keeps to resume from (storage/store/node_local_state.rs).          *)
(*                                                                         *)
(* The chain and the provider are external: a request returns the logs of  *)
(* the blocks asked for, or fails; watch_logs delivers the logs from its   *)
(* first block on, in order, and may end at any time.  The node may crash  *)
(* between any two steps.                                                  *)
(***************************************************************************)
EXTENDS Integers

CONSTANTS
    Log,           \* the logs of the chain: block, index, contract, topic, fid
    NumContracts,  \* contracts(), numbered in the order they are asked
    FirstBlock,    \* first_block()
    BatchSize,
    Starts,        \* the values of start_block_number to check (None: unset)
    Stops,         \* the values of stop_block_number to check (None: unset)
    Fid,
    MaxBlock,      \* bound on the chain
    MaxFaults,     \* bound on crashes, errors of the provider and bad logs
    None

Contracts == 1..NumContracts

\* The events that process_log turns into an on-chain event, of them the
\* ones that retry_filters asks for, and a topic that neither knows.
RetriedTopics ==
    {"Rent", "Register", "Transfer", "Add", "Remove", "PurchasedTier"}
KnownTopics ==
    RetriedTopics \union {"ChangeRecoveryAddress", "AdminReset", "Migrated"}

\* What the constants are.
OnchainConstants ==
    /\ NumContracts \in Nat \ {0}
    /\ FirstBlock \in Nat
    /\ BatchSize \in Nat \ {0}
    /\ MaxBlock \in Nat
    /\ Log \subseteq [block : FirstBlock..MaxBlock, index : Nat,
                      contract : Contracts,
                      topic : KnownTopics \union {"Other"}, fid : Fid]
    /\ Starts \subseteq (Nat \union {None})
    /\ Stops \subseteq (Nat \union {None})

VARIABLES
    startBlock,    \* start_block_number, at least the first block
    stopBlock,     \* stop_block_number
    head,          \* the latest block on chain
    cursor,        \* the latest block number in the node's database, or 0
    phase,
    from,          \* start_block of the batch
    final,         \* final_stop_block
    contract,      \* the contract whose logs are asked for
    fetched,       \* logs of the last answer that are still to be processed
    live,          \* live_sync_block
    delivered,     \* logs the stream has delivered
    handed,        \* history: events sent to the mempool
    failed,        \* history: logs whose processing failed
    faults

configVars == <<startBlock, stopBlock>>
syncVars   == <<from, final, contract, live>>
histVars   == <<handed, failed>>
vars == <<configVars, head, cursor, phase, syncVars, fetched, delivered,
          histVars, faults>>

LogsBetween(a, b) == {l \in Log : a <= l.block /\ l.block <= b /\ l.block <= head}

\* Logs are processed in the order of the chain.
Before(k, l) == k.block < l.block \/ (k.block = l.block /\ k.index < l.index)
Firsts(logs) == {l \in logs : \A k \in logs : ~Before(k, l)}

Volatile ==
    /\ phase' = "start"
    /\ from' = 0 /\ final' = 0 /\ contract' = 1 /\ live' = 0
    /\ fetched' = {} /\ delivered' = {}

Init ==
    /\ startBlock \in {IF s = None THEN None
                       ELSE IF s < FirstBlock THEN FirstBlock ELSE s : s \in Starts}
    /\ stopBlock \in Stops
    /\ head = FirstBlock
    /\ cursor = 0
    /\ phase = "start"
    /\ from = 0 /\ final = 0 /\ contract = 1 /\ live = 0
    /\ fetched = {} /\ delivered = {}
    /\ handed = {} /\ failed = {}
    /\ faults = 0

\* The chain grows.
Mine ==
    /\ head < MaxBlock
    /\ head' = head + 1
    /\ UNCHANGED <<configVars, cursor, phase, syncVars, fetched, delivered,
                   histVars, faults>>

\* record_block_number.
Record(b) == cursor' = IF b > cursor THEN b ELSE cursor

-----------------------------------------------------------------------------
(***************************************************************************)
(* run and sync_historical_events.                                         *)
(***************************************************************************)

MinOf(a, b) == IF a < b THEN a ELSE b
MaxOf(a, b) == IF a < b THEN b ELSE a

\* run, up to the historical sync or the stream.
Run ==
    /\ phase = "start"
    /\ IF startBlock = None
       THEN /\ phase' = "subscribe"
            /\ live' = MaxOf(FirstBlock, cursor)
            /\ UNCHANGED <<from, final, contract>>
       ELSE /\ phase' = "historical"
            /\ from' = MaxOf(cursor, startBlock)
            /\ final' = IF stopBlock = None THEN head ELSE MinOf(head, stopBlock)
            /\ contract' = 1
            /\ UNCHANGED live
    /\ UNCHANGED <<configVars, head, cursor, fetched, delivered, histVars, faults>>

BatchStop == MinOf(final, from + BatchSize)

\* get_logs of the batch for one contract.
GetLogs ==
    /\ phase = "historical"
    /\ fetched' = {l \in LogsBetween(from, BatchStop) : l.contract = contract}
    /\ phase' = "logs"
    /\ UNCHANGED <<configVars, head, cursor, syncVars, delivered, histVars,
                   faults>>

\* process_log: the event of a known topic goes to the mempool, or the
\* processing fails (a missing field, no block timestamp after the retries,
\* a body that does not decode) and only the log says so.
ProcessLog(l, ok) ==
    /\ ok \/ faults < MaxFaults
    /\ faults' = IF ok THEN faults ELSE faults + 1
    /\ handed' = IF ok /\ l.topic \in KnownTopics THEN handed \union {l}
                                                  ELSE handed
    /\ failed' = IF ok THEN failed ELSE failed \union {l}

\* One log of an answer.
HandleLog(ok) ==
    /\ phase \in {"logs", "retry"}
    /\ \E l \in Firsts(fetched) :
           /\ ProcessLog(l, ok)
           /\ fetched' = fetched \ {l}
    /\ UNCHANGED <<configVars, head, cursor, phase, syncVars, delivered>>

\* With a bug: the block number is recorded after every contract.
RecordAfterEach(c) == TRUE

\* The block number is recorded after the loop over the contracts.
RecordAfter(c) == c = NumContracts

\* With a bug: the stream starts at the latest block.
LiveFromHead == head

\* The block the stream starts from after the historical sync.
LiveSyncBlock == final

\* The logs of a contract are processed: the next contract, or the next
\* batch, or the end of the historical sync.
NextRequest ==
    /\ phase = "logs"
    /\ fetched = {}
    /\ IF RecordAfter(contract) THEN Record(BatchStop) ELSE UNCHANGED cursor
    /\ IF contract < NumContracts
       THEN /\ contract' = contract + 1
            /\ phase' = "historical"
            /\ UNCHANGED <<from, live>>
       ELSE /\ contract' = 1
            /\ from' = from + BatchSize
            /\ IF from + BatchSize <= final
               THEN phase' = "historical" /\ UNCHANGED live
               ELSE IF stopBlock = None \/ stopBlock > final
               THEN phase' = "subscribe" /\ live' = LiveSyncBlock
               ELSE phase' = "complete" /\ UNCHANGED live
    /\ UNCHANGED <<configVars, head, final, fetched, delivered, histVars, faults>>

\* A request of run or of the historical sync fails for the sixth time: run
\* returns the error, and main only logs it.
RequestFails ==
    /\ phase \in {"start", "historical"}
    /\ faults < MaxFaults
    /\ faults' = faults + 1
    /\ phase' = "error"
    /\ UNCHANGED <<configVars, head, cursor, syncVars, fetched, delivered, histVars>>

-----------------------------------------------------------------------------
(***************************************************************************)
(* sync_live_events.                                                       *)
(***************************************************************************)

Subscribe ==
    /\ phase = "subscribe"
    /\ phase' = "live"
    /\ delivered' = {}
    /\ UNCHANGED <<configVars, head, cursor, syncVars, fetched, histVars, faults>>

\* The next log of the stream; its block number is recorded when it was
\* processed.
StreamEvent(ok) ==
    /\ phase = "live"
    /\ LET upTo == IF stopBlock = None THEN head ELSE stopBlock
       IN  \E l \in Firsts(LogsBetween(live, upTo) \ delivered) :
               /\ ProcessLog(l, ok)
               /\ delivered' = delivered \union {l}
               /\ IF ok THEN Record(l.block) ELSE UNCHANGED cursor
    /\ UNCHANGED <<configVars, head, phase, syncVars, fetched>>

\* The stream ends: subscribe again, from the same block.
StreamEnds ==
    /\ phase = "live"
    /\ faults < MaxFaults
    /\ faults' = faults + 1
    /\ phase' = "subscribe"
    /\ UNCHANGED <<configVars, head, cursor, syncVars, fetched, delivered, histVars>>

\* retry_fid: the logs that retry_filters asks for.
RetryFid(f) ==
    /\ phase = "live"
    /\ fetched' = {l \in LogsBetween(FirstBlock, head) :
                      l.fid = f /\ l.topic \in RetriedTopics}
    /\ phase' = "retry"
    /\ UNCHANGED <<configVars, head, cursor, syncVars, delivered, histVars, faults>>

\* retry_block_range.
RetryBlockRange(a, b) ==
    /\ phase = "live"
    /\ fetched' = LogsBetween(a, b)
    /\ phase' = "retry"
    /\ UNCHANGED <<configVars, head, cursor, syncVars, delivered, histVars, faults>>

RetryDone ==
    /\ phase = "retry"
    /\ fetched = {}
    /\ phase' = "live"
    /\ UNCHANGED <<configVars, head, cursor, syncVars, fetched, delivered,
                   histVars, faults>>

\* The node crashes and starts again.
Restart ==
    /\ faults < MaxFaults
    /\ faults' = faults + 1
    /\ Volatile
    /\ UNCHANGED <<configVars, head, cursor, histVars>>

Step == \/ Run \/ GetLogs \/ NextRequest \/ Subscribe \/ RetryDone
        \/ \E ok \in BOOLEAN : HandleLog(ok) \/ StreamEvent(ok)

Next ==
    \/ Mine \/ Step \/ RequestFails \/ StreamEnds \/ Restart
    \/ \E f \in Fid : RetryFid(f)
    \/ \E a, b \in FirstBlock..MaxBlock : a <= b /\ RetryBlockRange(a, b)

Spec == Init /\ [][Next]_vars

\* The task keeps running, and requests to retry do not crowd out the stream
\* for ever.
FairSpec ==
    /\ Spec
    /\ WF_vars(Step)
    /\ SF_vars(\E ok \in BOOLEAN : StreamEvent(ok))

-----------------------------------------------------------------------------
(***************************************************************************)
(* Properties.                                                             *)
(***************************************************************************)

\* The first block the connector is asked to read.
Origin == IF startBlock = None THEN FirstBlock ELSE startBlock

Settled(l) == l.topic \notin KnownTopics \/ l \in handed \union failed

\* The block number that the node resumes from leaves nothing behind: every
\* event of an earlier block was handed to the mempool, or its processing
\* failed, whatever crashes and reconnections happened (record_block_number).
CursorCovers ==
    \A l \in Log : Origin <= l.block /\ l.block < cursor => Settled(l)

\* Every event that the chain has, within the configured blocks, is handed to
\* the mempool or fails, unless run ended with an error.
EventsSettle ==
    LET Due(l) == /\ head >= l.block /\ Origin <= l.block
                  /\ stopBlock = None \/ l.block <= stopBlock
    IN  []<>(phase = "error" \/ \A l \in Log : Due(l) => Settled(l))

=============================================================================
