------------------------------- MODULE MCPDA -------------------------------
(* Small automata for TLC. *)
EXTENDS PDAStore

CONSTANTS Which  \* which set of transitions and patterns the run uses

T(q, r, p, u, z) == [source |-> q, read |-> r, pop |-> p, push |-> u, sink |-> z]
MCTrans ==
    CASE Which = "pass" -> {T(0, 2, 0, 0, 0), T(0, 1, 0, 2, 1),
                            T(1, 0, 0, 1, 0), T(0, 0, 0, 0, 1)}
      [] Which = "order" -> {T(0, 1, 0, 0, 1), T(0, 2, 0, 0, 0), T(0, 1, 0, 0, 0)}
MCPattern ==
    [g \in Gens |->
       CASE g = "all" -> T(Wild, Wild, Wild, Wild, Wild)
         [] g = "of0" -> T(0, Wild, Wild, Wild, Wild)
         [] g = "read0" -> T(Wild, 0, Wild, Wild, Wild)
         [] g = "read2" -> T(Wild, 2, Wild, Wild, Wild)
         [] g = "of0read1" -> T(0, 1, Wild, Wild, Wild)]
MCPushed == {<<1, 2>>}
MCBinder == [g \in Gens |-> "h"]
=============================================================================
