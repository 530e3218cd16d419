----------------------------- MODULE MCPaging ------------------------------
(***************************************************************************)
(* A client lists the reactions to a target, page by page, from two shards *)
(* while a reaction is merged.                                             *)
(***************************************************************************)
EXTENDS Serving, TLC

MCShardOf == (1 :> 1) @@ (2 :> 2)

Reaction(f, t) ==
    [store |-> "reaction", fid |-> f, ts |-> t, parent |-> {}, mentions |-> {},
     target |-> <<5>>, type |-> 1]

MCReactions == {
    [stored |-> {Reaction(1, 1)},
     messages |-> {Reaction(2, 2)},
     requests |-> {[request |-> "reactions_by_target", target |-> <<5>>,
                    type |-> <<1>>, reverse |-> FALSE, size |-> 1]},
     writes |-> 1, restarts |-> 0]}

=============================================================================
