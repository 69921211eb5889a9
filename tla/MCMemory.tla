------------------------------ MODULE MCMemory ------------------------------
(***************************************************************************)
(* Model-checking instances of Memory.                                     *)
(***************************************************************************)
EXTENDS Memory, TLC

CONSTANTS text, stack

TwoTables == (text :> 0) @@ (stack :> 1)

\* Which page is which does not matter, only who uses it, how it is counted and
\* what it holds; nor does what a free page, a page table or a task structure
\* holds, as get_free_page clears the page.
View ==
    <<{LET users == Users(g)
       IN  <<users, mem_map[g],
             IF \E u \in users : u[1] \in {"pte", "held"} THEN contents[g] ELSE "zero">> :
            g \in Pages \ FreePages},
      Cardinality(FreePages),
      [t \in Tasks |-> [a \in Addrs |->
          IF Present(t, a) THEN <<pte[t][a].rw, pte[t][a].dirty>> ELSE <<>>]],
      executable, pc, mem, execed>>

ChildSymmetry == Permutations(Tasks \ {InitTask})
=============================================================================
