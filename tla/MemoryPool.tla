------------------------------- MODULE MemoryPool -----------------------------
(***************************************************************************)
(* The memory pool of the FreeRTOS port (ports/freertos/tm_port.c): blocks *)
(* of a static buffer, the free ones linked through their first word.  A   *)
(* block that is held belongs to its holder, first word included.          *)
(*                                                                         *)
(* Block n stands for the address of the n-th block.  The pool takes no    *)
(* lock: one thread uses it (src/memory_allocation.c), so that each call   *)
(* is one step.                                                            *)
(***************************************************************************)
EXTENDS Integers, Sequences

CONSTANT BlockCount   \* TM_BLOCK_COUNT

ASSUME PoolAssumption == BlockCount \in Nat /\ BlockCount > 0

Blocks == 0 .. (BlockCount - 1)
NULL   == -1

VARIABLES
    created,   \* tm_memory_pool_create was called
    head,      \* tm_pool_free
    word,      \* the first word of each block
    held,      \* the blocks handed out
    given,     \* *memory_ptr, where the caller gets its block
    status     \* what the last call returned

vars == <<created, head, word, held, given, status>>

TypeOK ==
    /\ created \in BOOLEAN
    /\ head \in Blocks \cup {NULL}
    /\ word \in [Blocks -> Blocks \cup {NULL}]
    /\ held \in SUBSET Blocks
    /\ given \in Blocks \cup {NULL}
    /\ status \in {"none", "success", "error"}

\* The buffer is static: all zero.
Init ==
    /\ created = FALSE
    /\ head = NULL
    /\ word = [b \in Blocks |-> 0]
    /\ held = {}
    /\ given = NULL
    /\ status = "none"

NextInRing(i)   == (i + 1) % BlockCount   \* mutant: the list has no end
NextUnended(i)  == i + 1                  \* mutant: nor stays in the buffer
NextInBuffer(i) == IF i = BlockCount - 1 THEN NULL ELSE i + 1

Create ==
    /\ ~created
    /\ created' = TRUE
    /\ head' = 0
    /\ word' = [i \in Blocks |-> NextInBuffer(i)]
    /\ status' = "success"
    /\ UNCHANGED <<held, given>>

Allocate ==
    /\ head # NULL
    /\ head' = word[head]
    /\ held' = held \cup {head}
    /\ given' = head
    /\ status' = "success"
    /\ UNCHANGED <<created, word>>

AllocateFails ==
    /\ head = NULL
    /\ status' = "error"
    /\ UNCHANGED <<created, head, word, held, given>>

\* The holder writes to the block; what it writes may look like an address.
Write(b) ==
    /\ b \in held
    /\ \E v \in Blocks \cup {NULL} : word' = [word EXCEPT ![b] = v]
    /\ UNCHANGED <<created, head, held, given, status>>

HeadFirst(b) == /\ head' = b                           \* mutant: swapped
                /\ word' = [word EXCEPT ![b] = head']
Push(b) == /\ word' = [word EXCEPT ![b] = head]
           /\ head' = b

Deallocate(b) ==
    /\ b \in held
    /\ Push(b)
    /\ held' = held \ {b}
    /\ status' = "success"
    /\ UNCHANGED <<created, given>>

Next == \/ Create \/ Allocate \/ AllocateFails
        \/ \E b \in Blocks : Write(b) \/ Deallocate(b)

Spec == Init /\ [][Next]_vars

-----------------------------------------------------------------------------
Free == IF created THEN Blocks \ held ELSE {}

\* The freelist, followed from its head, passes through every block that is
\* not held, through each once, and ends: no block is lost, handed out twice
\* or linked into a cycle, whatever the holders write.
Freelist(s) ==
    /\ head = IF s = <<>> THEN NULL ELSE s[1]
    /\ \A i \in 1 .. Len(s) :
          word[s[i]] = IF i = Len(s) THEN NULL ELSE s[i + 1]
    /\ \A i, j \in 1 .. Len(s) : s[i] = s[j] => i = j
    /\ {s[i] : i \in 1 .. Len(s)} = Free

ListIsFree == \E n \in 0 .. BlockCount : \E s \in [1 .. n -> Blocks] : Freelist(s)

\* The freelist implements the pool the API promises.
Pool == INSTANCE BlockPool WITH free <- Free

ImplementsPool == Pool!PoolSpec
=============================================================================
