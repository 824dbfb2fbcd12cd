------------------------- MODULE PayloadMoveProofs -------------------------
(***************************************************************************)
(* Proofs about the relocation of the payload, for memories, payloads and  *)
(* overlaps of every size.                                                 *)
(***************************************************************************)
EXTENDS PayloadMove, TLAPS

\* The addresses of the header in use.
LEMMA HeaderFacts ==
    ASSUME TypeOK
    PROVE  /\ MemSize \in Nat
           /\ Dest \in Nat /\ Src \in Nat /\ End \in Nat /\ Size \in Nat
           /\ header.bss_end_addr \in Nat
           /\ Dest <= End /\ End <= header.bss_end_addr
           /\ header.bss_end_addr <= MemSize
           /\ Dest + Size = End
           /\ Src + Size <= MemSize
  <1>1. header \in Headers
    BY DEF TypeOK
  <1> QED
    BY <1>1, MemoryAssumption, HeaderAssumption DEF Dest, Src, End, Size

\* The facts that every step starts from.
LEMMA MoveFacts ==
    ASSUME MoveInv
    PROVE  /\ mem \in [0 .. MemSize - 1 -> Nat]
           /\ start \in [0 .. MemSize - 1 -> Nat]
           /\ start \in Starts /\ header \in Headers
           /\ ptrd \in Nat /\ ptrs \in Nat
           /\ ptrd <= MemSize /\ ptrs <= MemSize
  <1>1. TypeOK
    BY DEF MoveInv
  <1> QED
    BY <1>1, MemoryAssumption DEF TypeOK

\* The jumper's loops keep the inductive invariant.
THEOREM MoveInvariant == Init /\ [][Next]_vars => []MoveInv
  <1>1. Init => MoveInv
    <2> SUFFICES ASSUME Init PROVE MoveInv
      OBVIOUS
    <2>1. TypeOK
      BY MemoryAssumption DEF Init, TypeOK
    <2>2. Pointers /\ Progress
      BY DEF Init, Pointers, Progress
    <2> QED
      BY <2>1, <2>2 DEF MoveInv
  <1>2. MoveInv /\ [Next]_vars => MoveInv'
    <2> SUFFICES ASSUME MoveInv, [Next]_vars PROVE MoveInv'
      OBVIOUS
    <2>1. TypeOK /\ Pointers /\ Progress
      BY DEF MoveInv
    <2>2. /\ MemSize \in Nat
          /\ Dest \in Nat /\ Src \in Nat /\ End \in Nat /\ Size \in Nat
          /\ header.bss_end_addr \in Nat
          /\ Dest <= End /\ End <= header.bss_end_addr
          /\ header.bss_end_addr <= MemSize
          /\ Dest + Size = End
          /\ Src + Size <= MemSize
      BY <2>1, HeaderFacts
    <2>3. /\ mem \in [0 .. MemSize - 1 -> Nat]
          /\ start \in [0 .. MemSize - 1 -> Nat]
          /\ start \in Starts /\ header \in Headers
          /\ ptrd \in Nat /\ ptrs \in Nat
          /\ ptrd <= MemSize /\ ptrs <= MemSize
      BY MoveFacts
    <2>4. header' = header => Dest' = Dest /\ Src' = Src /\ End' = End
      BY DEF Dest, Src, End
    <2>5. CASE MoveNothing
      <3>1. /\ pc = "memmove" /\ Dest = Src /\ pc' = "memset" /\ ptrd' = End
            /\ mem' = mem /\ start' = start /\ header' = header
            /\ ptrs' = ptrs
        BY <2>5 DEF MoveNothing
      <3>2. TypeOK'
        BY <2>2, <2>3, <3>1 DEF TypeOK
      <3>3. Pointers'
        BY <2>2, <2>4, <3>1 DEF Pointers
      <3>4. Progress'
        BY <2>1, <2>2, <2>3, <2>4, <3>1 DEF Progress, Arrived, Cells
      <3> QED
        BY <3>2, <3>3, <3>4 DEF MoveInv
    <2>6. CASE MoveDown
      <3>1. /\ pc = "memmove" /\ Dest < Src /\ pc' = "forward"
            /\ ptrd' = Dest /\ ptrs' = Src
            /\ mem' = mem /\ start' = start /\ header' = header
        BY <2>6 DEF MoveDown
      <3>2. TypeOK'
        BY <2>2, <2>3, <3>1 DEF TypeOK
      <3>3. Pointers'
        BY <2>2, <2>4, <3>1 DEF Pointers
      <3>4. Progress'
        BY <2>1, <2>2, <2>3, <2>4, <3>1 DEF Progress, Arrived, Cells
      <3> QED
        BY <3>2, <3>3, <3>4 DEF MoveInv
    <2>7. CASE MoveUp
      <3>1. /\ pc = "memmove" /\ Dest > Src /\ pc' = "backward"
            /\ ptrd' = End /\ ptrs' = Src + Size
            /\ mem' = mem /\ start' = start /\ header' = header
        BY <2>2, <2>7 DEF MoveUp
      <3>2. TypeOK'
        BY <2>2, <2>3, <3>1 DEF TypeOK
      <3>3. Pointers'
        BY <2>2, <2>4, <3>1 DEF Pointers
      <3>4. Progress'
        BY <2>1, <2>2, <2>3, <2>4, <3>1 DEF Progress, Arrived, Cells
      <3> QED
        BY <3>2, <3>3, <3>4 DEF MoveInv
    <2>8. CASE CopyForward
      <3>1. /\ pc = "forward" /\ ptrd < End /\ pc' = pc
            /\ mem' = [mem EXCEPT ![ptrd] = mem[ptrs]]
            /\ ptrd' = ptrd + 1 /\ ptrs' = ptrs + 1
            /\ start' = start /\ header' = header
        BY <2>8 DEF CopyForward
      <3>2. /\ Dest < Src /\ Dest <= ptrd /\ ptrs = ptrd - Dest + Src
        BY <2>1, <3>1 DEF Pointers
      <3>3. ptrd \in 0 .. MemSize - 1 /\ ptrs \in 0 .. MemSize - 1
        BY <2>2, <2>3, <3>1, <3>2
      <3>4. mem[ptrs] = start[ptrs] /\ Arrived(ptrd) = start[ptrs]
        BY <2>1, <2>2, <2>3, <3>1, <3>2, <3>3 DEF Progress, Arrived, Cells
      <3>5. TypeOK'
        BY <2>2, <2>3, <3>1, <3>3 DEF TypeOK
      <3>6. Pointers'
        BY <2>2, <2>3, <2>4, <3>1, <3>2 DEF Pointers
      <3>7. Progress'
        <4> SUFFICES ASSUME NEW a \in 0 .. MemSize - 1
                     PROVE  mem'[a] = IF a \in Cells(Dest, ptrd + 1)
                                      THEN Arrived(a) ELSE start[a]
          BY <2>4, <3>1 DEF Progress, Arrived
        <4>1. mem[a] = IF a \in Cells(Dest, ptrd) THEN Arrived(a) ELSE start[a]
          BY <2>1, <3>1 DEF Progress
        <4>2. CASE a = ptrd
          BY <2>2, <2>3, <3>1, <3>2, <3>3, <3>4, <4>2 DEF Cells
        <4>3. CASE a # ptrd
          BY <2>2, <2>3, <3>1, <4>1, <4>3 DEF Cells
        <4> QED
          BY <4>2, <4>3
      <3> QED
        BY <3>5, <3>6, <3>7 DEF MoveInv
    <2>9. CASE CopyBackward
      <3>1. /\ pc = "backward" /\ Dest < ptrd /\ pc' = pc
            /\ mem' = [mem EXCEPT ![ptrd - 1] = mem[ptrs - 1]]
            /\ ptrd' = ptrd - 1 /\ ptrs' = ptrs - 1
            /\ start' = start /\ header' = header
        BY <2>9 DEF CopyBackward
      <3>2. /\ Src < Dest /\ ptrd <= End /\ ptrs = ptrd - Dest + Src
        BY <2>1, <3>1 DEF Pointers
      <3>3. ptrd - 1 \in 0 .. MemSize - 1 /\ ptrs - 1 \in 0 .. MemSize - 1
        BY <2>2, <2>3, <3>1, <3>2
      <3>4. mem[ptrs - 1] = start[ptrs - 1]
            /\ Arrived(ptrd - 1) = start[ptrs - 1]
        BY <2>1, <2>2, <2>3, <3>1, <3>2, <3>3 DEF Progress, Arrived, Cells
      <3>5. TypeOK'
        BY <2>2, <2>3, <3>1, <3>3 DEF TypeOK
      <3>6. Pointers'
        BY <2>2, <2>3, <2>4, <3>1, <3>2 DEF Pointers
      <3>7. Progress'
        <4> SUFFICES ASSUME NEW a \in 0 .. MemSize - 1
                     PROVE  mem'[a] = IF a \in Cells(ptrd - 1, End)
                                      THEN Arrived(a) ELSE start[a]
          BY <2>4, <3>1 DEF Progress, Arrived
        <4>1. mem[a] = IF a \in Cells(ptrd, End) THEN Arrived(a) ELSE start[a]
          BY <2>1, <3>1 DEF Progress
        <4>2. CASE a = ptrd - 1
          BY <2>2, <2>3, <3>1, <3>2, <3>3, <3>4, <4>2 DEF Cells
        <4>3. CASE a # ptrd - 1
          BY <2>2, <2>3, <3>1, <4>1, <4>3 DEF Cells
        <4> QED
          BY <4>2, <4>3
      <3> QED
        BY <3>5, <3>6, <3>7 DEF MoveInv
    <2>10. CASE EndMove
      <3>1. /\ \/ pc = "forward" /\ ptrd = End
               \/ pc = "backward" /\ ptrd = Dest
            /\ pc' = "memset" /\ ptrd' = End
            /\ mem' = mem /\ start' = start /\ header' = header
            /\ ptrs' = ptrs
        BY <2>10 DEF EndMove
      <3>2. TypeOK'
        BY <2>2, <2>3, <3>1 DEF TypeOK
      <3>3. Pointers'
        BY <2>2, <2>4, <3>1 DEF Pointers
      <3>4. Progress'
        BY <2>1, <2>2, <2>3, <2>4, <3>1 DEF Progress, Arrived, Cells
      <3> QED
        BY <3>2, <3>3, <3>4 DEF MoveInv
    <2>11. CASE ClearByte
      <3>1. /\ pc = "memset" /\ ptrd < header.bss_end_addr /\ pc' = pc
            /\ mem' = [mem EXCEPT ![ptrd] = 0]
            /\ ptrd' = ptrd + 1 /\ ptrs' = ptrs
            /\ start' = start /\ header' = header
        BY <2>11 DEF ClearByte
      <3>2. End <= ptrd
        BY <2>1, <3>1 DEF Pointers
      <3>3. ptrd \in 0 .. MemSize - 1
        BY <2>2, <2>3, <3>1
      <3>4. TypeOK'
        BY <2>2, <2>3, <3>1, <3>3 DEF TypeOK
      <3>5. Pointers'
        BY <2>2, <2>3, <2>4, <3>1, <3>2 DEF Pointers
      <3>6. Progress'
        <4> SUFFICES ASSUME NEW a \in 0 .. MemSize - 1
                     PROVE  mem'[a] = IF a \in Cells(Dest, End) THEN Arrived(a)
                                      ELSE IF a \in Cells(End, ptrd + 1) THEN 0
                                      ELSE start[a]
          BY <2>4, <3>1 DEF Progress, Arrived
        <4>1. mem[a] = IF a \in Cells(Dest, End) THEN Arrived(a)
                       ELSE IF a \in Cells(End, ptrd) THEN 0
                       ELSE start[a]
          BY <2>1, <3>1 DEF Progress
        <4>2. CASE a = ptrd
          BY <2>2, <2>3, <3>1, <3>2, <3>3, <4>2 DEF Cells
        <4>3. CASE a # ptrd
          BY <2>2, <2>3, <3>1, <4>1, <4>3 DEF Cells
        <4> QED
          BY <4>2, <4>3
      <3> QED
        BY <3>4, <3>5, <3>6 DEF MoveInv
    <2>12. CASE EndClear
      <3>1. /\ pc = "memset" /\ ptrd = header.bss_end_addr /\ pc' = "done"
            /\ mem' = mem /\ start' = start /\ header' = header
            /\ ptrd' = ptrd /\ ptrs' = ptrs
        BY <2>12 DEF EndClear
      <3>2. TypeOK' /\ Pointers'
        BY <2>1, <2>3, <3>1 DEF TypeOK, Pointers
      <3>3. Progress'
        BY <2>1, <2>4, <3>1 DEF Progress, Arrived
      <3> QED
        BY <3>2, <3>3 DEF MoveInv
    <2>13. CASE UNCHANGED vars
      BY <2>1, <2>4, <2>13
         DEF MoveInv, vars, TypeOK, Pointers, Progress, Arrived
    <2> QED
      BY <2>5, <2>6, <2>7, <2>8, <2>9, <2>10, <2>11, <2>12, <2>13 DEF Next
  <1> QED
    BY <1>1, <1>2, PTL

\* When the jumper is done the payload is at its load address, byte for byte,
\* and its bss is null.
THEOREM PayloadIsMoved == Spec => []Moved
  <1>1. MoveInv => Moved
    <2> SUFFICES ASSUME MoveInv, pc = "done" PROVE
                 /\ \A k \in Cells(0, Size) : mem[Dest + k] = start[Src + k]
                 /\ \A a \in Cells(End, header.bss_end_addr) : mem[a] = 0
      BY DEF Moved
    <2>1. TypeOK /\ Pointers /\ Progress
      BY DEF MoveInv
    <2>2. /\ MemSize \in Nat
          /\ Dest \in Nat /\ Src \in Nat /\ End \in Nat /\ Size \in Nat
          /\ header.bss_end_addr \in Nat
          /\ Dest <= End /\ End <= header.bss_end_addr
          /\ header.bss_end_addr <= MemSize
          /\ Dest + Size = End
      BY <2>1, HeaderFacts
    <2>3. \A a \in 0 .. MemSize - 1 :
             mem[a] = IF a \in Cells(Dest, End) THEN Arrived(a)
                      ELSE IF a \in Cells(End, header.bss_end_addr) THEN 0
                      ELSE start[a]
      BY <2>1 DEF Progress, Pointers
    <2>4. ASSUME NEW k \in Cells(0, Size)
          PROVE  mem[Dest + k] = start[Src + k]
      <3>1. /\ k \in Nat /\ Dest + k \in Cells(Dest, End)
            /\ Dest + k \in 0 .. MemSize - 1
            /\ Dest + k - Dest + Src = Src + k
        BY <2>2 DEF Cells
      <3>2. mem[Dest + k] = Arrived(Dest + k)
        BY <2>3, <3>1
      <3>3. Arrived(Dest + k) = start[Src + k]
        BY <2>2, <3>1 DEF Arrived
      <3> QED
        BY <3>2, <3>3
    <2>5. ASSUME NEW a \in Cells(End, header.bss_end_addr)
          PROVE  mem[a] = 0
      BY <2>2, <2>3 DEF Cells
    <2> QED
      BY <2>4, <2>5
  <1> QED
    BY <1>1, MoveInvariant, PTL DEF Spec

\* The jumper never writes outside the payload's target.
THEOREM MoveWritesTargetOnly == Spec => []TargetOnly
  <1>1. MoveInv => TargetOnly
    <2> SUFFICES ASSUME MoveInv, NEW a \in 0 .. MemSize - 1,
                        a \notin Cells(Dest, header.bss_end_addr)
                 PROVE  mem[a] = start[a]
      BY DEF TargetOnly
    <2>1. TypeOK /\ Pointers /\ Progress
      BY DEF MoveInv
    <2>2. /\ MemSize \in Nat /\ ptrd \in Nat
          /\ Dest \in Nat /\ Src \in Nat /\ End \in Nat
          /\ header.bss_end_addr \in Nat
          /\ Dest <= End /\ End <= header.bss_end_addr
      BY <2>1, HeaderFacts, MoveFacts
    <2>3. /\ pc = "memmove" => mem[a] = start[a]
          /\ pc = "forward" =>
                mem[a] = IF a \in Cells(Dest, ptrd) THEN Arrived(a) ELSE start[a]
          /\ pc = "backward" =>
                mem[a] = IF a \in Cells(ptrd, End) THEN Arrived(a) ELSE start[a]
          /\ pc \in {"memset", "done"} =>
                mem[a] = IF a \in Cells(Dest, End) THEN Arrived(a)
                         ELSE IF a \in Cells(End, ptrd) THEN 0
                         ELSE start[a]
      BY <2>1 DEF Progress
    <2>4. /\ pc = "forward" => Dest <= ptrd /\ ptrd <= End
          /\ pc = "backward" => Dest <= ptrd /\ ptrd <= End
          /\ pc = "memset" => End <= ptrd /\ ptrd <= header.bss_end_addr
          /\ pc = "done" => ptrd = header.bss_end_addr
      BY <2>1 DEF Pointers
    <2>5. pc \in {"memmove", "forward", "backward", "memset", "done"}
      BY <2>1 DEF TypeOK
    <2> QED
      BY <2>2, <2>3, <2>4, <2>5 DEF Cells
  <1> QED
    BY <1>1, MoveInvariant, PTL DEF Spec
=============================================================================
