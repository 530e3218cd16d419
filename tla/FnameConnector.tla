--------------------------- MODULE FnameConnector ---------------------------
(***************************************************************************)
(* The fetcher of username transfers (src/src/connectors/fname/mod.rs): it *)
(* asks the registry server for the transfers after its position, hands    *)
(* them to the mempool one by one and keeps the last id of every complete  *)
(* answer (storage/store/node_local_state.rs).                             *)
(*                                                                         *)
(* The server is external: an answer lists transfers in the order of their *)
(* ids and leaves none out, but it may be one to an earlier position.      *)
(***************************************************************************)
EXTENDS Integers, Sequences, FiniteSets

CONSTANTS
    MaxId,         \* bound on the transfers
    Malformed,     \* the transfers whose owner or signature is not hex
    PageSize,      \* the transfers in an answer
    Starts,        \* the values of start_from to check (None: unset)
    Stops,         \* the values of stop_at to check (None: unset)
    MaxRestarts,   \* bound on crashes
    None

Ids == 1..MaxId

\* What the constants are.
FnameConstants ==
    /\ MaxId \in Nat
    /\ Malformed \subseteq Ids
    /\ PageSize \in Nat \ {0}
    /\ Starts \subseteq (Nat \union {None})
    /\ Stops \subseteq (Nat \union {None})

VARIABLES
    startFrom, stopAt,
    latest,        \* the last transfer the server has
    cursor,        \* the latest transfer id in the node's database, or 0
    position,
    phase,
    page,          \* transfers of the answer that are still to be processed
    last,          \* last_transfer_id
    handed,        \* history: transfers sent to the mempool
    restarts

vars == <<startFrom, stopAt, latest, cursor, position, phase, page, last,
          handed, restarts>>

Init ==
    /\ startFrom \in Starts
    /\ stopAt \in Stops
    /\ latest = 0
    /\ cursor = 0
    /\ position = 0
    /\ phase = "start"
    /\ page = << >>
    /\ last = 0
    /\ handed = {}
    /\ restarts = 0

\* Somebody transfers a username.
Transfer ==
    /\ latest < MaxId
    /\ latest' = latest + 1
    /\ UNCHANGED <<startFrom, stopAt, cursor, position, phase, page, last, handed,
                   restarts>>

\* set_initial_position; when its request fails the position stays 0.
SetInitialPosition ==
    /\ phase = "start"
    /\ phase' = "idle"
    /\ IF startFrom = None
       THEN position' \in {latest, 0}
       ELSE position' = IF startFrom > cursor THEN startFrom ELSE cursor
    /\ UNCHANGED <<startFrom, stopAt, latest, cursor, page, last, handed, restarts>>

\* A request of fetch is answered with transfers after some earlier position.
Fetch ==
    /\ phase = "idle"
    /\ \E p \in 0..position :
           LET count == IF latest - p < PageSize THEN latest - p ELSE PageSize
           IN  /\ count > 0
               /\ page' = [i \in 1..count |-> p + i]
    /\ phase' = "page"
    /\ last' = 0
    /\ UNCHANGED <<startFrom, stopAt, latest, cursor, position, handed, restarts>>

\* One transfer of the answer.  The rest of the answer is dropped when the
\* ids do not increase or the transfer is malformed; the fetcher stops for
\* good at stop_at.
HandleTransfer ==
    /\ phase = "page"
    /\ page # << >>
    /\ LET id == Head(page)
       IN  CASE id <= position ->
                    /\ phase' = "idle"
                    /\ page' = << >>
                    /\ UNCHANGED <<position, last, handed>>
             [] id > position /\ stopAt # None /\ id >= stopAt ->
                    /\ phase' = "stopped"
                    /\ page' = << >>
                    /\ UNCHANGED <<position, last, handed>>
             [] OTHER ->
                    /\ position' = id
                    /\ IF id \in Malformed
                       THEN /\ phase' = "idle"
                            /\ page' = << >>
                            /\ UNCHANGED <<last, handed>>
                       ELSE /\ handed' = handed \union {id}
                            /\ last' = id
                            /\ page' = Tail(page)
                            /\ UNCHANGED phase
    /\ UNCHANGED <<startFrom, stopAt, latest, cursor, restarts>>

\* With a bug: the last id of the answer is recorded before the transfers
\* are handed on.
RecordEarly ==
    /\ phase = "page"
    /\ cursor' = IF page = << >> THEN cursor ELSE page[Len(page)]
    /\ phase' = IF page = << >> THEN "idle" ELSE phase
    /\ UNCHANGED <<startFrom, stopAt, latest, position, page, last, handed, restarts>>

\* The end of an answer: record_username_proof.
RecordUsernameProof ==
    /\ phase = "page"
    /\ page = << >>
    /\ cursor' = IF last > 0 THEN last ELSE cursor
    /\ phase' = "idle"
    /\ UNCHANGED <<startFrom, stopAt, latest, position, page, last, handed, restarts>>

\* The node crashes and starts again.
Restart ==
    /\ restarts < MaxRestarts
    /\ restarts' = restarts + 1
    /\ position' = 0
    /\ phase' = "start"
    /\ page' = << >>
    /\ last' = 0
    /\ UNCHANGED <<startFrom, stopAt, latest, cursor, handed>>

Next == \/ Transfer \/ SetInitialPosition \/ Fetch \/ HandleTransfer
        \/ RecordUsernameProof \/ Restart

Spec == Init /\ [][Next]_vars

-----------------------------------------------------------------------------
\* The transfer id that the node resumes from leaves nothing behind: every
\* well-formed transfer up to it, from the configured start on, was handed to
\* the mempool (record_username_proof).  With start_from unset the fetcher
\* skips what happened while it was down, by design.
FnameCursorCovers ==
    startFrom # None =>
        \A id \in Ids :
            startFrom < id /\ id <= cursor => id \in handed \union Malformed

=============================================================================
