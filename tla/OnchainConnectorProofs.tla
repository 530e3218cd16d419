----------------------- MODULE OnchainConnectorProofs -----------------------
(***************************************************************************)
(* Proof that the block number a node resumes from leaves no event behind, *)
(* for every chain, set of contracts, batch size, start and stop block and *)
(* number of faults.                                                       *)
(***************************************************************************)
EXTENDS OnchainConnector, TLAPS

\* Every event of a block before b, from the origin on, is settled.
CoveredBefore(b) == \A l \in Log : Origin <= l.block /\ l.block < b => Settled(l)

TypeInv ==
    /\ startBlock \in Nat \union {None}
    /\ stopBlock \in Nat \union {None}
    /\ head \in Nat /\ cursor \in Nat
    /\ from \in Nat /\ final \in Nat /\ contract \in Contracts /\ live \in Nat
    /\ fetched \subseteq Log /\ delivered \subseteq Log

\* During the historical sync: what lies before the batch is settled, and in
\* the batch what belongs to the contracts that are done; of the contract
\* whose answer is being processed, what is not in the rest of the answer.
Historical ==
    phase \in {"historical", "logs"} =>
        /\ final <= head
        /\ CoveredBefore(from)
        /\ \A l \in Log : from <= l.block /\ l.block <= BatchStop =>
               /\ l.contract < contract => Settled(l)
               /\ phase = "logs" /\ l.contract = contract =>
                      Settled(l) \/ l \in fetched

\* During the live sync: what lies before the first block of the stream and
\* what the stream has delivered is settled.
Live ==
    phase \in {"subscribe", "live", "retry"} =>
        /\ CoveredBefore(live)
        /\ phase # "subscribe" => \A l \in delivered : Settled(l)

\* The inductive invariant.
Inv == TypeInv /\ CoveredBefore(cursor) /\ Historical /\ Live

-----------------------------------------------------------------------------
\* What is settled stays settled.
LEMMA SettledKept ==
  ASSUME handed \subseteq handed', failed \subseteq failed', UNCHANGED startBlock
  PROVE  /\ \A l : Settled(l) => Settled(l)'
         /\ \A b : CoveredBefore(b) => (\A l \in Log :
                       Origin' <= l.block /\ l.block < b => Settled(l)')
  BY DEF Settled, CoveredBefore, Origin

\* A log that is processed is settled.
LEMMA ProcessSettles ==
  ASSUME NEW l, NEW ok \in BOOLEAN, ProcessLog(l, ok)
  PROVE  Settled(l)' /\ handed \subseteq handed' /\ failed \subseteq failed'
  BY DEF ProcessLog, Settled

\* Nothing is recorded yet.
LEMMA InvInit == OnchainConstants /\ Init => Inv
  <1> SUFFICES ASSUME OnchainConstants, Init PROVE Inv
    OBVIOUS
  <1>1. TypeInv
    BY DEF OnchainConstants, Init, TypeInv, Contracts
  <1>2. CoveredBefore(0)
    BY DEF CoveredBefore, OnchainConstants
  <1>3. QED
    BY <1>1, <1>2 DEF Init, Inv, Historical, Live

\* The historical sync starts at the recorded block or the configured one.
LEMMA RunKeeps == OnchainConstants /\ Inv /\ Run => Inv'
  <1> SUFFICES ASSUME OnchainConstants, Inv, Run PROVE Inv'
    OBVIOUS
  <1>1. /\ UNCHANGED <<startBlock, stopBlock, head, cursor, fetched, delivered,
                       handed, failed>>
        /\ TypeInv
    BY DEF Run, Inv, configVars, histVars
  <1>2. \A b : CoveredBefore(b)' <=> CoveredBefore(b)
    BY <1>1 DEF CoveredBefore, Origin, Settled
  <1>3. CASE startBlock = None
    <2>1. /\ phase' = "subscribe" /\ live' = MaxOf(FirstBlock, cursor)
          /\ UNCHANGED <<from, final, contract>>
      BY <1>3 DEF Run
    <2>2. TypeInv'
      BY <1>1, <2>1 DEF TypeInv, OnchainConstants, MaxOf
    <2>3. CoveredBefore(live')
      BY <1>1, <1>3, <2>1 DEF Inv, CoveredBefore, MaxOf, Origin, TypeInv, OnchainConstants
    <2>4. QED
      BY <1>1, <1>2, <2>1, <2>2, <2>3 DEF Inv, Historical, Live, CoveredBefore
  <1>4. CASE startBlock # None
    <2>1. /\ phase' = "historical" /\ from' = MaxOf(cursor, startBlock)
          /\ final' = IF stopBlock = None THEN head ELSE MinOf(head, stopBlock)
          /\ contract' = 1 /\ live' = live
      BY <1>4 DEF Run
    <2>2. TypeInv' /\ final' <= head
      BY <1>1, <1>4, <2>1 DEF TypeInv, OnchainConstants, MaxOf, MinOf, Contracts
    <2>3. CoveredBefore(from')
      BY <1>1, <1>4, <2>1 DEF Inv, CoveredBefore, MaxOf, Origin, TypeInv, OnchainConstants
    <2>4. \A l \in Log : ~(l.contract < contract')
      BY <2>1 DEF OnchainConstants, Contracts
    <2>5. QED
      BY <1>1, <1>2, <2>1, <2>2, <2>3, <2>4 DEF Inv, Historical, Live, CoveredBefore
  <1>5. QED
    BY <1>3, <1>4

\* The answer holds all logs of the contract in the batch.
LEMMA GetLogsKeeps == OnchainConstants /\ Inv /\ GetLogs => Inv'
  <1> SUFFICES ASSUME OnchainConstants, Inv, GetLogs PROVE Inv'
    OBVIOUS
  <1>1. /\ UNCHANGED <<startBlock, stopBlock, head, cursor, from, final, contract,
                       live, delivered, handed, failed>>
        /\ phase = "historical" /\ phase' = "logs"
        /\ fetched' = {l \in LogsBetween(from, BatchStop) : l.contract = contract}
    BY DEF GetLogs, configVars, syncVars, histVars
  <1>2. BatchStop <= final /\ BatchStop' = BatchStop /\ BatchStop \in Int
    BY <1>1 DEF Inv, TypeInv, BatchStop, MinOf, OnchainConstants
  <1>3. \A l \in Log : from <= l.block /\ l.block <= BatchStop /\ l.contract = contract
                         => l \in fetched'
    BY <1>1, <1>2 DEF Inv, TypeInv, Historical, LogsBetween, OnchainConstants
  <1>4. TypeInv'
    BY <1>1 DEF Inv, TypeInv, LogsBetween
  <1>5. (\A b : CoveredBefore(b)' <=> CoveredBefore(b)) /\ (\A l : Settled(l)' <=> Settled(l))
    BY <1>1 DEF CoveredBefore, Origin, Settled
  <1>6. QED
    BY <1>1, <1>2, <1>3, <1>4, <1>5 DEF Inv, Historical, Live, CoveredBefore

\* A log of an answer is settled when it leaves the answer.
LEMMA HandleLogKeeps ==
  ASSUME OnchainConstants, Inv, NEW ok \in BOOLEAN, HandleLog(ok)
  PROVE  Inv'
  <1>1. PICK l \in fetched : ProcessLog(l, ok) /\ fetched' = fetched \ {l}
    BY DEF HandleLog, Firsts
  <1>2. UNCHANGED <<startBlock, stopBlock, head, cursor, phase, from, final, contract,
                    live, delivered>>
    BY DEF HandleLog, configVars, syncVars
  <1>3. /\ Settled(l)' /\ \A k : Settled(k) => Settled(k)'
        /\ \A b : CoveredBefore(b) => CoveredBefore(b)'
    BY <1>1, <1>2, ProcessSettles, SettledKept DEF CoveredBefore
  <1>4. TypeInv'
    BY <1>1, <1>2 DEF Inv, TypeInv
  <1>5. BatchStop' = BatchStop
    BY <1>2 DEF BatchStop
  <1>6. Historical'
    BY <1>1, <1>2, <1>3, <1>5 DEF Inv, Historical
  <1>7. Live'
    BY <1>2, <1>3 DEF Inv, Live
  <1>8. QED
    BY <1>2, <1>3, <1>4, <1>6, <1>7 DEF Inv

\* The block number is recorded when all contracts are done with the batch.
LEMMA NextRequestKeeps == OnchainConstants /\ Inv /\ NextRequest => Inv'
  <1> SUFFICES ASSUME OnchainConstants, Inv, NextRequest PROVE Inv'
    OBVIOUS
  <1>1. /\ UNCHANGED <<startBlock, stopBlock, head, final, fetched, delivered,
                       handed, failed>>
        /\ phase = "logs" /\ fetched = {}
    BY DEF NextRequest, configVars, histVars
  <1>2. (\A b : CoveredBefore(b)' <=> CoveredBefore(b)) /\ (\A l : Settled(l)' <=> Settled(l))
    BY <1>1 DEF CoveredBefore, Origin, Settled
  <1>3. /\ final <= head /\ CoveredBefore(from)
        /\ \A l \in Log : from <= l.block /\ l.block <= BatchStop
                            /\ l.contract <= contract => Settled(l)
    BY <1>1 DEF Inv, Historical, TypeInv, OnchainConstants, Contracts
  <1>4. TypeInv
    BY DEF Inv
  <1>5. CASE contract < NumContracts
    <2>1. /\ contract' = contract + 1 /\ phase' = "historical"
          /\ UNCHANGED <<from, live, cursor>>
      BY <1>4, <1>5 DEF NextRequest, RecordAfter, TypeInv, Contracts, OnchainConstants
    <2>2. TypeInv'
      BY <1>1, <1>4, <1>5, <2>1 DEF TypeInv, Contracts, OnchainConstants
    <2>3. BatchStop' = BatchStop
      BY <1>1, <2>1 DEF BatchStop
    <2>4. \A l \in Log : l.contract < contract' => l.contract <= contract
      BY <1>4, <2>1 DEF TypeInv, Contracts, OnchainConstants
    <2>5. QED
      BY <1>1, <1>2, <1>3, <2>1, <2>2, <2>3, <2>4 DEF Inv, Historical, Live
  <1>6. CASE ~(contract < NumContracts)
    <2>1. /\ contract = NumContracts /\ contract' = 1 /\ from' = from + BatchSize
          /\ cursor' = IF BatchStop > cursor THEN BatchStop ELSE cursor
      BY <1>4, <1>6 DEF NextRequest, RecordAfter, Record, TypeInv, Contracts, OnchainConstants
    <2>2. /\ BatchStop <= final /\ BatchStop <= from + BatchSize /\ BatchStop \in Nat
          /\ BatchStop = final \/ BatchStop = from + BatchSize
          /\ from + BatchSize <= final => BatchStop = from + BatchSize
      BY <1>4 DEF BatchStop, MinOf, TypeInv, OnchainConstants
    <2>3. \A b \in Nat : b <= BatchStop + 1 => CoveredBefore(b)
      BY <1>3, <1>4, <2>1, <2>2 DEF CoveredBefore, TypeInv, OnchainConstants, Contracts
    <2>4. CoveredBefore(cursor')
      BY <1>4, <2>1, <2>2, <2>3 DEF Inv
    <2>5. \A l \in Log : ~(l.contract < contract')
      BY <2>1 DEF OnchainConstants, Contracts
    <2>6. CASE from + BatchSize <= final
      <3>1. phase' = "historical" /\ UNCHANGED live
        BY <1>6, <2>6 DEF NextRequest
      <3>2. TypeInv'
        BY <1>1, <1>4, <2>1, <2>2, <3>1 DEF TypeInv, OnchainConstants, Contracts
      <3>3. CoveredBefore(from')
        BY <1>4, <2>1, <2>2, <2>3, <2>6 DEF TypeInv, OnchainConstants
      <3>4. QED
        BY <1>1, <1>2, <1>3, <2>1, <2>4, <2>5, <3>1, <3>2, <3>3
           DEF Inv, Historical, Live, CoveredBefore
    <2>7. CASE ~(from + BatchSize <= final)
      <3>1. BatchStop = final
        BY <1>4, <2>2, <2>7 DEF TypeInv, OnchainConstants
      <3>2. \/ phase' = "subscribe" /\ live' = final
            \/ phase' = "complete" /\ live' = live
        BY <1>6, <2>7 DEF NextRequest, LiveSyncBlock
      <3>3. TypeInv'
        BY <1>1, <1>4, <2>1, <2>2, <3>2 DEF TypeInv, OnchainConstants, Contracts
      <3>4. CoveredBefore(final)
        BY <1>4, <2>3, <3>1 DEF TypeInv
      <3>5. QED
        BY <1>1, <1>2, <2>4, <3>2, <3>3, <3>4 DEF Inv, Historical, Live, CoveredBefore
    <2>8. QED
      BY <2>6, <2>7
  <1>7. QED
    BY <1>5, <1>6

\* The stream delivers logs in order: when one is recorded, everything
\* before its block is settled.
LEMMA StreamKeeps ==
  ASSUME OnchainConstants, Inv, NEW ok \in BOOLEAN, StreamEvent(ok)
  PROVE  Inv'
  <1> DEFINE upTo == IF stopBlock = None THEN head ELSE stopBlock
             rest == LogsBetween(live, upTo) \ delivered
  <1>1. PICK l \in Firsts(rest) :
            /\ ProcessLog(l, ok) /\ delivered' = delivered \union {l}
            /\ IF ok THEN Record(l.block) ELSE UNCHANGED cursor
    BY DEF StreamEvent
  <1>2. /\ UNCHANGED <<startBlock, stopBlock, head, phase, from, final, contract, live,
                       fetched>>
        /\ phase = "live"
    BY DEF StreamEvent, configVars, syncVars
  <1>3. TypeInv /\ l \in Log /\ l \in rest /\ l.block \in Nat /\ upTo \in Nat
    BY <1>1 DEF Inv, TypeInv, Firsts, LogsBetween, OnchainConstants
  <1>4. \A k \in Log : live <= k.block /\ k.block < l.block => k \in delivered
    <2> SUFFICES ASSUME NEW k \in Log, live <= k.block, k.block < l.block
                 PROVE  k \in delivered
      OBVIOUS
    <2>1. l.block <= upTo /\ l.block <= head
      BY <1>3 DEF LogsBetween
    <2>2. k \in LogsBetween(live, upTo)
      BY <1>3, <2>1 DEF LogsBetween, TypeInv, OnchainConstants
    <2>3. k \notin rest
      BY <1>1 DEF Firsts, Before
    <2>4. QED
      BY <2>2, <2>3
  <1>5. CoveredBefore(l.block)
    BY <1>2, <1>3, <1>4 DEF CoveredBefore, Inv, Live, TypeInv, OnchainConstants
  <1>6. /\ Settled(l)' /\ \A k : Settled(k) => Settled(k)'
        /\ \A b : CoveredBefore(b) => CoveredBefore(b)'
    BY <1>1, <1>2, ProcessSettles, SettledKept DEF CoveredBefore
  <1>7. cursor' \in Nat /\ CoveredBefore(cursor)'
    <2>1. cursor' = cursor \/ cursor' = l.block
      BY <1>1 DEF Record
    <2>2. CoveredBefore(cursor) /\ cursor \in Nat
      BY DEF Inv, TypeInv
    <2>3. QED
      BY <1>3, <1>5, <1>6, <2>1, <2>2 DEF CoveredBefore
  <1>8. TypeInv'
    BY <1>1, <1>2, <1>3, <1>7 DEF TypeInv
  <1>9. QED
    BY <1>1, <1>2, <1>6, <1>7, <1>8 DEF Inv, Historical, Live

\* Every step keeps the invariant.
LEMMA InvNext == OnchainConstants /\ Inv /\ [Next]_vars => Inv'
  <1> SUFFICES ASSUME OnchainConstants, Inv, [Next]_vars PROVE Inv'
    OBVIOUS
  <1>1. ASSUME UNCHANGED <<startBlock, stopBlock, cursor, from, final, contract, live,
                           handed, failed>>,
               TypeInv',
               head <= head',
               \/ phase' \in {"error", "start"}
               \/ phase' = phase /\ UNCHANGED <<fetched, delivered>>
               \/ phase = "live" /\ phase' \in {"subscribe", "retry"} /\ UNCHANGED delivered
               \/ phase = "retry" /\ phase' = "live" /\ UNCHANGED delivered
               \/ phase = "subscribe" /\ phase' = "live" /\ delivered' = {}
        PROVE  Inv'
    <2>1. (\A b : CoveredBefore(b)' <=> CoveredBefore(b)) /\ (\A l : Settled(l)' <=> Settled(l))
      BY <1>1 DEF CoveredBefore, Origin, Settled
    <2>2. BatchStop' = BatchStop
      BY <1>1 DEF BatchStop
    <2>3. CoveredBefore(cursor)'
      BY <1>1, <2>1 DEF Inv, CoveredBefore
    <2>4. Historical'
      BY <1>1, <2>1, <2>2 DEF Inv, Historical, TypeInv, CoveredBefore
    <2>5. Live'
      BY <1>1, <2>1 DEF Inv, Live, CoveredBefore
    <2>6. QED
      BY <1>1, <2>3, <2>4, <2>5 DEF Inv
  <1> USE DEF configVars, syncVars, histVars
  <1>2. CASE Mine
    BY <1>1, <1>2 DEF Mine, Inv, TypeInv
  <1>3. CASE Run
    BY <1>3, RunKeeps
  <1>4. CASE GetLogs
    BY <1>4, GetLogsKeeps
  <1>5. CASE NextRequest
    BY <1>5, NextRequestKeeps
  <1>6. CASE Subscribe
    BY <1>1, <1>6 DEF Subscribe, Inv, TypeInv
  <1>7. CASE RetryDone
    BY <1>1, <1>7 DEF RetryDone, Inv, TypeInv
  <1>8. ASSUME NEW ok \in BOOLEAN, HandleLog(ok) \/ StreamEvent(ok) PROVE Inv'
    BY <1>8, HandleLogKeeps, StreamKeeps
  <1>9. CASE RequestFails
    BY <1>1, <1>9 DEF RequestFails, Inv, TypeInv
  <1>10. CASE StreamEnds
    BY <1>1, <1>10 DEF StreamEnds, Inv, TypeInv
  <1>11. CASE Restart
    <2>1. TypeInv'
      BY <1>11 DEF Restart, Volatile, Inv, TypeInv, Contracts, OnchainConstants
    <2>2. CoveredBefore(cursor)'
      BY <1>11 DEF Restart, Inv, CoveredBefore, Origin, Settled
    <2>3. QED
      BY <1>11, <2>1, <2>2 DEF Restart, Volatile, Inv, Historical, Live
  <1>12. ASSUME NEW f \in Fid, RetryFid(f) PROVE Inv'
    <2>1. TypeInv'
      BY <1>12 DEF RetryFid, Inv, TypeInv, LogsBetween
    <2>2. QED
      BY <1>1, <1>12, <2>1 DEF RetryFid, Inv, TypeInv
  <1>13. ASSUME NEW a, NEW b, RetryBlockRange(a, b) PROVE Inv'
    <2>1. TypeInv'
      BY <1>13 DEF RetryBlockRange, Inv, TypeInv, LogsBetween
    <2>2. QED
      BY <1>1, <1>13, <2>1 DEF RetryBlockRange, Inv, TypeInv
  <1>14. CASE UNCHANGED vars
    BY <1>1, <1>14 DEF vars, Inv, TypeInv
  <1>15. QED
    BY <1>2, <1>3, <1>4, <1>5, <1>6, <1>7, <1>8, <1>9, <1>10, <1>11, <1>12, <1>13, <1>14
       DEF Next, Step

\* The block number that the node resumes from leaves no event behind
\* (record_block_number), whatever requests fail, streams end and crashes
\* happen.
THEOREM CursorAlwaysCovers == OnchainConstants => (Spec => []CursorCovers)
  <1> SUFFICES ASSUME OnchainConstants PROVE Spec => []CursorCovers
    OBVIOUS
  <1>1. Init => Inv
    BY InvInit
  <1>2. Inv /\ [Next]_vars => Inv'
    BY InvNext
  <1>3. Inv => CursorCovers
    BY DEF Inv, CursorCovers, CoveredBefore
  <1>4. QED
    BY <1>1, <1>2, <1>3, PTL DEF Spec
=============================================================================
