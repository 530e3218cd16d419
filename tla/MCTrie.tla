------------------------------- MODULE MCTrie -------------------------------
(***************************************************************************)
(* The trie of two fids whose keys meet.                                   *)
(***************************************************************************)
EXTENDS MerkleTrie

Item(k, f, t, i) == [kind |-> k, fid |-> f, type |-> t, id |-> i]

MCFidShard == (1 :> 128) @@ (17 :> 0)

\* Two casts of fid 17 and two removes of fid 1: the path to the latter goes
\* through nibble 8 and then follows that of the former.
MCScenarios == {
    [items |-> {Item("message", 17, 1, <<48>>), Item("message", 17, 1, <<64>>),
                Item("message", 1, 2, <<131>>), Item("message", 1, 2, <<132>>)},
     permanent |-> {}, batches |-> 2, size |-> 4]}
=============================================================================
