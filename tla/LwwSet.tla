------------------------------- MODULE LwwSet -------------------------------
(***************************************************************************)
(* What a message store promises: a last-write-wins set.  Every key has at *)
(* most one winning message, a write replaces the winner only by a message *)
(* that beats it, and entries disappear only by being dropped (pruned,     *)
(* revoked or compacted away).  Writes and drops happen in a working copy  *)
(* that is committed as a whole or abandoned as a whole.                   *)
(***************************************************************************)
CONSTANTS Key, Message, None,
          KeyOf(_),       \* the key of a message
          Wins(_, _)      \* Wins(m, n): message m replaces message n

VARIABLES committed,      \* the winner of each key in the database
          working         \* the winner of each key in the open transaction

Entries == [Key -> Message \cup {None}]

Init == /\ committed = [k \in Key |-> None]
        /\ working = committed

Write(m) ==
    /\ working[KeyOf(m)] # None => Wins(m, working[KeyOf(m)])
    /\ working' = [working EXCEPT ![KeyOf(m)] = m]
    /\ UNCHANGED committed

Drop(K) ==
    /\ working' = [k \in Key |-> IF k \in K THEN None ELSE working[k]]
    /\ UNCHANGED committed

Commit == committed' = working /\ UNCHANGED working

Abort == working' = committed /\ UNCHANGED committed

Next == \/ \E m \in Message : Write(m)
        \/ \E K \in SUBSET Key : Drop(K)
        \/ Commit
        \/ Abort

Spec == Init /\ [][Next]_<<committed, working>>
=============================================================================
