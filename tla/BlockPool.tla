------------------------------- MODULE BlockPool ------------------------------
(***************************************************************************)
(* What a memory pool of the RTOS-neutral API promises (include/tm_api.h): *)
(* an allocation hands out a block that nobody holds, and fails only when  *)
(* there is none; a deallocated block can be handed out again.             *)
(***************************************************************************)
CONSTANTS Blocks, NULL

VARIABLES
    free, held,   \* the blocks of the pool
    given,        \* the block last handed out
    status        \* what the last call returned

poolVars == <<free, held, given, status>>

PoolInit == free = {} /\ held = {} /\ given = NULL /\ status = "none"

Create == /\ free = {} /\ held = {}
          /\ free' = Blocks
          /\ status' = "success"
          /\ UNCHANGED <<held, given>>

Allocate == \E b \in free : /\ free' = free \ {b}
                            /\ held' = held \cup {b}
                            /\ given' = b
                            /\ status' = "success"

Refuse == /\ free = {}
          /\ status' = "error"
          /\ UNCHANGED <<free, held, given>>

Deallocate == \E b \in held : /\ free' = free \cup {b}
                              /\ held' = held \ {b}
                              /\ status' = "success"
                              /\ UNCHANGED given

PoolNext == Create \/ Allocate \/ Refuse \/ Deallocate

PoolSpec == PoolInit /\ [][PoolNext]_poolVars
=============================================================================
