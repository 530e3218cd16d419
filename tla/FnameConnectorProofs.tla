------------------------ MODULE FnameConnectorProofs ------------------------
(***************************************************************************)
(* Proof that the transfer id a node resumes from leaves no transfer       *)
(* behind, for every number of transfers, page size, start and number of   *)
(* crashes.                                                                *)
(***************************************************************************)
EXTENDS FnameConnector, TLAPS

\* Every transfer up to n, from the start on, was handed over or is malformed.
CoveredTo(n) ==
    \A id \in Ids : startFrom < id /\ id <= n => id \in handed \union Malformed

\* What is left of an answer continues without a gap at the position or
\* before it.
PageFollows ==
    /\ page \in Seq(Nat)
    /\ \A i \in 1..Len(page) : page[i] = page[1] + (i - 1)
    /\ page # << >> => page[1] <= position + 1

\* The inductive invariant: the position is covered as well as the cursor,
\* and the last id of the answer is not beyond the position.
Inv ==
    /\ startFrom \in Nat \union {None}
    /\ latest \in Nat /\ cursor \in Nat /\ position \in Nat /\ last \in Nat
    /\ last <= position
    /\ phase = "start" => last = 0 /\ page = << >>
    /\ PageFollows
    /\ startFrom # None => CoveredTo(cursor) /\ CoveredTo(position)

-----------------------------------------------------------------------------
\* Nothing is handed over yet and nothing is recorded.
LEMMA InvInit == FnameConstants /\ Init => Inv
  <1> SUFFICES ASSUME FnameConstants, Init PROVE Inv
    OBVIOUS
  <1>1. startFrom \in Nat \union {None}
    BY DEF FnameConstants, Init
  <1>2. PageFollows
    BY DEF Init, PageFollows
  <1>3. startFrom # None => CoveredTo(0)
    BY <1>1 DEF CoveredTo, Ids
  <1>4. QED
    BY <1>1, <1>2, <1>3 DEF Init, Inv

\* Only the position and what is handed over matter to what is covered.
LEMMA CoverKept ==
  ASSUME Inv, UNCHANGED <<startFrom, cursor, position>>, handed \subseteq handed'
  PROVE  startFrom' # None => CoveredTo(cursor)' /\ CoveredTo(position)'
  BY DEF Inv, CoveredTo

\* The answer of the server starts at the position or before it.
LEMMA FetchKeeps == FnameConstants /\ Inv /\ Fetch => Inv'
  <1> SUFFICES ASSUME FnameConstants, Inv, Fetch PROVE Inv'
    OBVIOUS
  <1>1. PICK p \in 0..position :
            LET count == IF latest - p < PageSize THEN latest - p ELSE PageSize
            IN  count > 0 /\ page' = [i \in 1..count |-> p + i]
    BY DEF Fetch
  <1> DEFINE count == IF latest - p < PageSize THEN latest - p ELSE PageSize
  <1>2. p \in Nat /\ p <= position /\ count \in Nat \ {0}
    BY <1>1 DEF Inv, FnameConstants
  <1>3. page' = [i \in 1..count |-> p + i]
    BY <1>1
  <1> HIDE DEF count
  <1>4. /\ page' \in Seq(Nat) /\ Len(page') = count
        /\ \A i \in 1..count : page'[i] = p + i
    BY <1>2, <1>3
  <1>5. UNCHANGED <<startFrom, latest, cursor, position, handed>> /\ last' = 0 /\ phase' = "page"
    BY DEF Fetch
  <1>6. PageFollows'
    BY <1>2, <1>4, <1>5 DEF PageFollows, Inv
  <1>7. QED
    BY <1>5, <1>6, CoverKept DEF Inv

\* A transfer moves the position by one, and it is handed over or malformed.
LEMMA HandleKeeps == FnameConstants /\ Inv /\ HandleTransfer => Inv'
  <1> SUFFICES ASSUME FnameConstants, Inv, HandleTransfer PROVE Inv'
    OBVIOUS
  <1> DEFINE id == Head(page)
  <1>1. /\ page # << >> /\ id = page[1] /\ id \in Nat /\ id <= position + 1
        /\ UNCHANGED <<startFrom, latest, cursor>> /\ phase' # "start"
    BY DEF HandleTransfer, Inv, PageFollows
  <1>2. CASE page' = << >> /\ UNCHANGED <<position, last, handed>>
    <2>1. PageFollows'
      BY <1>2 DEF PageFollows
    <2>2. QED
      BY <1>1, <1>2, <2>1, CoverKept DEF Inv
  <1>3. CASE /\ id > position /\ position' = id
             /\ handed \subseteq handed' /\ id \in handed' \union Malformed
             /\ \/ page' = << >> /\ last' = last
                \/ page' = Tail(page) /\ last' = id
    <2>1. position' = position + 1
      BY <1>1, <1>3 DEF Inv
    <2>2. PageFollows'
      <3>1. CASE page' = << >>
        BY <3>1 DEF PageFollows
      <3>2. CASE page' = Tail(page)
        <4>1. /\ Tail(page) \in Seq(Nat) /\ Len(Tail(page)) = Len(page) - 1
              /\ \A i \in 1..Len(page) - 1 : Tail(page)[i] = page[i + 1]
          BY <1>1 DEF Inv, PageFollows
        <4>2. \A i \in 1..Len(page) - 1 : Tail(page)[i] = id + i
          BY <1>1, <4>1 DEF Inv, PageFollows
        <4>3. \A i \in 1..Len(page') : page'[i] = page'[1] + (i - 1)
          <5> SUFFICES ASSUME NEW i \in 1..Len(page) - 1
                       PROVE  Tail(page)[i] = Tail(page)[1] + (i - 1)
            BY <3>2, <4>1
          <5>1. /\ Tail(page)[i] = id + i /\ Tail(page)[1] = id + 1
                /\ i \in Nat /\ id \in Nat
            BY <1>1, <4>1, <4>2 DEF Inv, PageFollows
          <5>2. QED
            BY <5>1
        <4>4. page' # << >> => page'[1] = id + 1
          BY <1>1, <3>2, <4>1, <4>2
        <4>5. QED
          BY <1>1, <1>3, <3>2, <4>1, <4>3, <4>4 DEF PageFollows
      <3>3. QED
        BY <1>3, <3>1, <3>2
    <2>3. startFrom' # None => CoveredTo(cursor)' /\ CoveredTo(position)'
      <3> SUFFICES ASSUME startFrom # None, NEW x \in Ids, startFrom < x
                   PROVE  /\ x <= cursor => x \in handed' \union Malformed
                          /\ x <= position + 1 => x \in handed' \union Malformed
        BY <1>1, <2>1 DEF CoveredTo
      <3>1. x <= cursor => x \in handed \union Malformed
        BY DEF Inv, CoveredTo
      <3>2. x <= position => x \in handed \union Malformed
        BY DEF Inv, CoveredTo
      <3>3. x <= position + 1 => x <= position \/ x = id
        BY <1>3, <2>1 DEF Inv, Ids, FnameConstants
      <3>4. QED
        BY <1>3, <3>1, <3>2, <3>3
    <2>4. QED
      BY <1>1, <1>3, <2>1, <2>2, <2>3 DEF Inv
  <1>4. QED
    BY <1>1, <1>2, <1>3 DEF HandleTransfer, Inv

\* Every step keeps the invariant.
LEMMA InvNext == FnameConstants /\ Inv /\ [Next]_vars => Inv'
  <1> SUFFICES ASSUME FnameConstants, Inv, [Next]_vars PROVE Inv'
    OBVIOUS
  <1>1. CASE Transfer
    <2>1. /\ UNCHANGED <<startFrom, cursor, position, page, last, handed, phase>>
          /\ latest' \in Nat
      BY <1>1 DEF Transfer, Inv
    <2>2. QED
      BY <2>1, CoverKept DEF Inv, PageFollows
  <1>2. CASE SetInitialPosition
    <2>1. /\ UNCHANGED <<startFrom, latest, cursor, page, last, handed>>
          /\ position' \in Nat /\ phase' = "idle"
      BY <1>2 DEF SetInitialPosition, Inv
    <2>2. last <= position' /\ PageFollows'
      BY <1>2, <2>1 DEF SetInitialPosition, Inv, PageFollows
    <2>3. startFrom # None => CoveredTo(cursor)' /\ CoveredTo(position)'
      BY <1>2, <2>1 DEF SetInitialPosition, Inv, CoveredTo, Ids
    <2>4. QED
      BY <2>1, <2>2, <2>3 DEF Inv
  <1>3. CASE Fetch
    BY <1>3, FetchKeeps
  <1>4. CASE HandleTransfer
    BY <1>4, HandleKeeps
  <1>5. CASE RecordUsernameProof
    <2>1. /\ UNCHANGED <<startFrom, latest, position, page, last, handed>>
          /\ cursor' = IF last > 0 THEN last ELSE cursor
          /\ phase' = "idle"
      BY <1>5 DEF RecordUsernameProof
    <2>2. startFrom # None => CoveredTo(cursor)' /\ CoveredTo(position)'
      BY <2>1 DEF Inv, CoveredTo, Ids, FnameConstants
    <2>3. QED
      BY <2>1, <2>2 DEF Inv, PageFollows
  <1>6. CASE Restart
    <2>1. /\ UNCHANGED <<startFrom, latest, cursor, handed>>
          /\ position' = 0 /\ last' = 0 /\ page' = << >>
      BY <1>6 DEF Restart
    <2>2. PageFollows'
      BY <2>1 DEF PageFollows
    <2>3. startFrom # None => CoveredTo(cursor)' /\ CoveredTo(position)'
      BY <2>1 DEF Inv, CoveredTo, Ids
    <2>4. QED
      BY <2>1, <2>2, <2>3 DEF Inv
  <1>7. CASE UNCHANGED vars
    BY <1>7, CoverKept DEF vars, Inv, PageFollows
  <1>8. QED
    BY <1>1, <1>2, <1>3, <1>4, <1>5, <1>6, <1>7 DEF Next

\* The transfer id that the node resumes from leaves nothing behind
\* (record_username_proof), whatever the server answers and wherever the node
\* crashes.
THEOREM FnameCursorAlwaysCovers == FnameConstants => (Spec => []FnameCursorCovers)
  <1> SUFFICES ASSUME FnameConstants PROVE Spec => []FnameCursorCovers
    OBVIOUS
  <1>1. Init => Inv
    BY InvInit
  <1>2. Inv /\ [Next]_vars => Inv'
    BY InvNext
  <1>3. Inv => FnameCursorCovers
    BY DEF Inv, FnameCursorCovers, CoveredTo
  <1>4. QED
    BY <1>1, <1>2, <1>3, PTL DEF Spec
=============================================================================
