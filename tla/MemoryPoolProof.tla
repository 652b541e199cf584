---------------------------- MODULE MemoryPoolProof ---------------------------
(***************************************************************************)
(* The freelist implements the pool, for every number of blocks.           *)
(***************************************************************************)
EXTENDS MemoryPool, SequenceTheorems, FiniteSetTheorems, TLAPS

\* Some sequence of blocks is the freelist.  Before the pool is created it is
\* the empty one.
IInv ==
    /\ TypeOK
    /\ ~created => held = {}
    /\ \E s \in Seq(Blocks) : Freelist(s)

LEMMA InitInvariant == Init => IInv
  <1> SUFFICES ASSUME Init PROVE IInv
    OBVIOUS
  <1>1. TypeOK
    <2>1. 0 \in Blocks
      BY PoolAssumption DEF Blocks
    <2>2. created \in BOOLEAN
      BY DEF Init
    <2> QED
      BY <2>1, <2>2 DEF Init, TypeOK
  <1>2. Freelist(<<>>)
    BY DEF Init, Freelist, Free
  <1>3. <<>> \in Seq(Blocks) /\ held = {}
    BY DEF Init
  <1> QED
    BY <1>1, <1>2, <1>3 DEF IInv

\* The list that tm_memory_pool_create builds: the blocks in their order.
LEMMA CreateInvariant == IInv /\ Create => IInv'
  <1> SUFFICES ASSUME IInv, Create PROVE IInv'
    OBVIOUS
  <1> DEFINE s == [i \in 1 .. BlockCount |-> i - 1]
  <1> USE PoolAssumption
  <1>1. TypeOK'
    BY DEF IInv, Create, TypeOK, NextInBuffer, Blocks, NULL
  <1>2. /\ s \in Seq(Blocks) /\ Len(s) = BlockCount /\ s # <<>>
        /\ \A i \in 1 .. BlockCount : s[i] = i - 1
    BY DEF Blocks
  <1> HIDE DEF s
  <1>3. \A i \in 1 .. Len(s) :
           word'[s[i]] = IF i = Len(s) THEN NULL ELSE s[i + 1]
    BY <1>2, SMTT(30) DEF Create, NextInBuffer, Blocks
  <1>4. {s[i] : i \in 1 .. Len(s)} = Blocks
    <2>1. \A b \in Blocks : b + 1 \in 1 .. Len(s) /\ s[b + 1] = b
      BY <1>2 DEF Blocks
    <2> QED
      BY <1>2, <2>1 DEF Blocks
  <1>5. Free' = Blocks
    BY DEF IInv, Create, Free
  <1>6. Freelist(s)'
    <2>1. head' = s[1]
      BY <1>2 DEF Create
    <2>2. \A i, j \in 1 .. Len(s) : s[i] = s[j] => i = j
      BY <1>2
    <2> QED
      BY <1>2, <1>3, <1>4, <1>5, <2>1, <2>2 DEF Freelist
  <1> QED
    BY <1>1, <1>2, <1>6 DEF IInv, Create

\* An allocation takes the first block off the list.
LEMMA AllocateInvariant ==
    ASSUME IInv, Allocate
    PROVE  IInv' /\ head \in Free /\ Free' = Free \ {head}
  <1>1. PICK s \in Seq(Blocks) : Freelist(s)
    BY DEF IInv
  <1>2. s # <<>> /\ head = s[1] /\ head \in Blocks
    BY <1>1 DEF Freelist, Allocate, IInv, TypeOK
  <1>3. head \in Free
    BY <1>1, <1>2 DEF Freelist
  <1>4. created
    BY <1>3 DEF Free
  <1>5. Free' = Free \ {head}
    BY <1>4 DEF Allocate, Free
  <1> DEFINE t == Tail(s)
  <1>6. /\ t \in Seq(Blocks) /\ Len(s) \in Nat /\ Len(s) = Len(t) + 1
        /\ t = <<>> <=> Len(s) = 1
        /\ \A i \in 1 .. Len(t) : t[i] = s[i + 1]
    <2>1. /\ t \in Seq(Blocks) /\ Len(s) \in Nat /\ Len(s) = Len(t) + 1
          /\ \A i \in 1 .. Len(t) : t[i] = s[i + 1]
      BY <1>2
    <2>2. t = <<>> <=> Len(t) = 0
      BY <2>1, EmptySeq
    <2> QED
      BY <2>1, <2>2
  <1> HIDE DEF t
  <1>7. Freelist(t)'
    <2>1. word[s[1]] = IF Len(s) = 1 THEN NULL ELSE s[2]
      BY <1>1, <1>6 DEF Freelist
    <2>2. head' = IF t = <<>> THEN NULL ELSE t[1]
      BY <1>2, <1>6, <2>1 DEF Allocate
    <2>3. \A i \in 1 .. Len(t) :
             word'[t[i]] = IF i = Len(t) THEN NULL ELSE t[i + 1]
      <3> SUFFICES ASSUME NEW i \in 1 .. Len(t)
                   PROVE  word'[t[i]] = IF i = Len(t) THEN NULL ELSE t[i + 1]
        OBVIOUS
      <3>1. word[s[i + 1]] = IF i + 1 = Len(s) THEN NULL ELSE s[i + 2]
        BY <1>1, <1>6 DEF Freelist
      <3>2. i # Len(t) => t[i + 1] = s[i + 2]
        BY <1>6
      <3> QED
        BY <1>6, <3>1, <3>2 DEF Allocate
    <2>4. \A i, j \in 1 .. Len(t) : t[i] = t[j] => i = j
      <3>1. \A i, j \in 1 .. Len(s) : s[i] = s[j] => i = j
        BY <1>1 DEF Freelist
      <3> QED
        BY <1>6, <3>1
    <2>5. {t[i] : i \in 1 .. Len(t)} = {s[i] : i \in 1 .. Len(s)} \ {s[1]}
      <3>1. \A i \in 1 .. Len(t) : i + 1 \in 1 .. Len(s) /\ s[i + 1] # s[1]
        <4>1. \A i, j \in 1 .. Len(s) : s[i] = s[j] => i = j
          BY <1>1 DEF Freelist
        <4> QED
          BY <1>6, <4>1
      <3>2. \A i \in 1 .. Len(s) :
               i # 1 => i - 1 \in 1 .. Len(t) /\ t[i - 1] = s[i]
        BY <1>6
      <3>3. \A i \in 1 .. Len(t) : t[i] \in {s[k] : k \in 1 .. Len(s)} \ {s[1]}
        BY <1>6, <3>1
      <3>4. \A i \in 1 .. Len(s) :
               s[i] # s[1] => s[i] \in {t[k] : k \in 1 .. Len(t)}
        BY <3>2
      <3> QED
        BY <3>3, <3>4
    <2> QED
      BY <1>1, <1>2, <1>5, <2>2, <2>3, <2>4, <2>5 DEF Freelist
  <1>8. TypeOK'
    BY <1>2 DEF IInv, TypeOK, Allocate
  <1> QED
    BY <1>3, <1>4, <1>5, <1>6, <1>7, <1>8 DEF IInv, Allocate

\* What a holder writes is not on the list.
LEMMA WriteInvariant ==
    ASSUME IInv, NEW b \in Blocks, Write(b)
    PROVE  IInv'
  <1>1. PICK s \in Seq(Blocks) : Freelist(s)
    BY DEF IInv
  <1>2. \A i \in 1 .. Len(s) : s[i] # b
    BY <1>1 DEF Freelist, Free, Write
  <1>3. Free' = Free
    BY DEF Free, Write
  <1>4. TypeOK'
    BY DEF IInv, TypeOK, Write
  <1>5. Freelist(s)'
    BY <1>1, <1>2, <1>3 DEF Freelist, Write, IInv, TypeOK
  <1> QED
    BY <1>4, <1>5 DEF IInv, Write

\* A deallocation puts the block in front of the list.
LEMMA DeallocateInvariant ==
    ASSUME IInv, NEW b \in Blocks, Deallocate(b)
    PROVE  IInv' /\ Free' = Free \cup {b}
  <1>1. PICK s \in Seq(Blocks) : Freelist(s)
    BY DEF IInv
  <1> DEFINE u == <<b>> \o s
  <1>2. created
    BY DEF IInv, Deallocate
  <1>3. Free' = Free \cup {b} /\ b \notin Free
    BY <1>2 DEF Deallocate, Free
  <1>4. \A i \in 1 .. Len(s) : s[i] # b
    BY <1>1, <1>3 DEF Freelist
  <1>5. /\ u \in Seq(Blocks) /\ Len(u) = Len(s) + 1 /\ u[1] = b /\ u # <<>>
        /\ \A i \in 1 .. Len(s) : u[i + 1] = s[i]
        /\ \A i \in 1 .. Len(u) : i # 1 => u[i] = s[i - 1]
    OBVIOUS
  <1> HIDE DEF u
  <1>6. Freelist(u)'
    <2>1. head' = u[1]
      BY <1>5 DEF Deallocate, Push
    <2>2. \A i \in 1 .. Len(u) :
             word'[u[i]] = IF i = Len(u) THEN NULL ELSE u[i + 1]
      <3> SUFFICES ASSUME NEW i \in 1 .. Len(u)
                   PROVE  word'[u[i]] = IF i = Len(u) THEN NULL ELSE u[i + 1]
        OBVIOUS
      <3>1. CASE i = 1
        <4>1. word'[b] = head
          BY DEF Deallocate, Push, IInv, TypeOK
        <4>2. head = IF Len(s) = 0 THEN NULL ELSE u[2]
          BY <1>1, <1>5 DEF Freelist
        <4> QED
          BY <1>5, <3>1, <4>1, <4>2
      <3>2. CASE i # 1
        <4>1. i - 1 \in 1 .. Len(s) /\ u[i] = s[i - 1]
          BY <1>5, <3>2
        <4>2. word'[s[i - 1]] = word[s[i - 1]]
          BY <1>4, <4>1 DEF Deallocate, Push, IInv, TypeOK
        <4>3. word[s[i - 1]] = IF i - 1 = Len(s) THEN NULL ELSE s[i]
          BY <1>1, <4>1 DEF Freelist
        <4>4. i # Len(u) => s[i] = u[i + 1]
          BY <1>5, <4>1
        <4> QED
          BY <1>5, <4>1, <4>2, <4>3, <4>4
      <3> QED
        BY <3>1, <3>2
    <2>3. \A i, j \in 1 .. Len(u) : u[i] = u[j] => i = j
      <3>1. \A i \in 1 .. Len(u) : i # 1 => i - 1 \in 1 .. Len(s)
        BY <1>5
      <3>2. \A i, j \in 1 .. Len(s) : s[i] = s[j] => i = j
        BY <1>1 DEF Freelist
      <3>3. \A i \in 1 .. Len(u) : u[i] = b => i = 1
        BY <1>4, <1>5, <3>1
      <3> SUFFICES ASSUME NEW i \in 1 .. Len(u), NEW j \in 1 .. Len(u),
                          u[i] = u[j]
                   PROVE  i = j
        OBVIOUS
      <3>4. CASE i = 1 \/ j = 1
        BY <1>5, <3>3, <3>4
      <3>5. CASE i # 1 /\ j # 1
        <4>1. s[i - 1] = s[j - 1]
          BY <1>5, <3>5
        <4>2. i - 1 = j - 1
          BY <3>1, <3>2, <3>5, <4>1
        <4> QED
          BY <4>2
      <3> QED
        BY <3>4, <3>5
    <2>4. {u[i] : i \in 1 .. Len(u)} = {s[i] : i \in 1 .. Len(s)} \cup {b}
      <3>1. \A i \in 1 .. Len(s) : i + 1 \in 1 .. Len(u)
        BY <1>5
      <3>2. \A i \in 1 .. Len(u) : i # 1 => i - 1 \in 1 .. Len(s)
        BY <1>5
      <3> DEFINE L == {u[k] : k \in 1 .. Len(u)}
                 R == {s[k] : k \in 1 .. Len(s)} \cup {b}
      <3>3. ASSUME NEW i \in 1 .. Len(u) PROVE u[i] \in R
        <4>1. CASE i = 1
          BY <1>5, <4>1
        <4>2. CASE i # 1
          <5>1. i - 1 \in 1 .. Len(s) /\ u[i] = s[i - 1]
            BY <1>5, <3>2, <4>2
          <5> QED
            BY <5>1
        <4> QED
          BY <4>1, <4>2
      <3>4. ASSUME NEW i \in 1 .. Len(s) PROVE s[i] \in L
        BY <1>5, <3>1
      <3>5. b \in L
        <4>1. 1 \in 1 .. Len(u)
          BY <1>5
        <4> QED
          BY <1>5, <4>1
      <3>6. L \subseteq R
        BY <3>3
      <3>7. R \subseteq L
        BY <3>4, <3>5
      <3> QED
        BY <3>6, <3>7
    <2> QED
      BY <1>1, <1>3, <1>5, <2>1, <2>2, <2>3, <2>4 DEF Freelist
  <1>7. TypeOK'
    BY DEF IInv, TypeOK, Deallocate, Push
  <1> QED
    BY <1>2, <1>3, <1>5, <1>6, <1>7 DEF IInv, Deallocate

LEMMA StepInvariant == IInv /\ [Next]_vars => IInv'
  <1> SUFFICES ASSUME IInv, [Next]_vars PROVE IInv'
    OBVIOUS
  <1>1. CASE AllocateFails
    BY <1>1 DEF IInv, TypeOK, Freelist, Free, AllocateFails
  <1>2. CASE UNCHANGED vars
    BY <1>2 DEF IInv, TypeOK, Freelist, Free, vars
  <1> QED
    BY <1>1, <1>2, CreateInvariant, AllocateInvariant, WriteInvariant,
       DeallocateInvariant DEF Next

\* In every reachable state the freelist holds the blocks that nobody holds.
THEOREM Invariance == Spec => []IInv
  BY InitInvariant, StepInvariant, PTL DEF Spec

\* The variables keep to their types.
THEOREM TypeCorrect == Spec => []TypeOK
  BY Invariance, PTL DEF IInv

\* The freelist runs through every block that nobody holds, once, and ends.
\* It is no longer than the pool, for no block is on it twice.
THEOREM FreelistIsFree == Spec => []ListIsFree
  <1>1. ASSUME IInv PROVE ListIsFree
    <2>1. PICK s \in Seq(Blocks) : Freelist(s)
      BY <1>1 DEF IInv
    <2>2. Len(s) \in Nat /\ s \in [1 .. Len(s) -> Blocks]
      OBVIOUS
    <2>3. IsFiniteSet(Blocks) /\ Cardinality(Blocks) = BlockCount
      BY PoolAssumption, FS_Interval DEF Blocks
    <2>4. IsFiniteSet(1 .. Len(s)) /\ Cardinality(1 .. Len(s)) = Len(s)
      BY <2>2, FS_Interval
    <2>5. \A i, j \in 1 .. Len(s) : s[i] = s[j] => i = j
      BY <2>1 DEF Freelist
    <2>6. ~ (BlockCount < Len(s))
      BY <2>2, <2>3, <2>4, <2>5, FS_PigeonHole
    <2>7. Len(s) \in 0 .. BlockCount
      BY <2>2, <2>6, PoolAssumption
    <2> QED
      BY <2>1, <2>2, <2>7 DEF ListIsFree
  <1> QED
    BY <1>1, Invariance, PTL

\* tm_memory_pool_allocate hands out a block that nobody holds and returns
\* TM_ERROR only when every block is held; a deallocated block is free again.
THEOREM Refinement == Spec => ImplementsPool
  <1>1. Init => Pool!PoolInit
    BY DEF Init, Free, Pool!PoolInit
  <1>2. IInv /\ [Next]_vars => [Pool!PoolNext]_(Pool!poolVars)
    <2> SUFFICES ASSUME IInv, [Next]_vars
                 PROVE  Pool!PoolNext \/ UNCHANGED Pool!poolVars
      OBVIOUS
    <2> USE DEF Pool!PoolNext, Pool!poolVars
    <2>1. CASE Create
      BY <2>1 DEF Create, Free, IInv, Pool!Create
    <2>2. CASE Allocate
      BY <2>2, AllocateInvariant DEF Allocate, Pool!Allocate
    <2>3. CASE AllocateFails
      <3>1. PICK s \in Seq(Blocks) : Freelist(s)
        BY DEF IInv
      <3>2. s = <<>>
        <4>1. s # <<>> => s[1] \in Blocks
          OBVIOUS
        <4> QED
          BY <2>3, <3>1, <4>1 DEF Freelist, AllocateFails, Blocks, NULL
      <3>3. Free = {}
        BY <3>1, <3>2 DEF Freelist
      <3> QED
        BY <2>3, <3>3 DEF AllocateFails, Free, Pool!Refuse
    <2>4. ASSUME NEW b \in Blocks, Write(b)
          PROVE  UNCHANGED Pool!poolVars
      BY <2>4 DEF Write, Free
    <2>5. ASSUME NEW b \in Blocks, Deallocate(b)
          PROVE  Pool!PoolNext
      BY <2>5, DeallocateInvariant DEF Deallocate, Pool!Deallocate
    <2>6. CASE UNCHANGED vars
      BY <2>6 DEF vars, Free
    <2> QED
      BY <2>1, <2>2, <2>3, <2>4, <2>5, <2>6 DEF Next
  <1> QED
    BY <1>1, <1>2, Invariance, PTL DEF Spec, ImplementsPool, Pool!PoolSpec
=============================================================================
