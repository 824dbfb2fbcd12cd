--------------------------- MODULE MistralProofs ---------------------------
(***************************************************************************)
(* Proofs about mistral's exit, for all command lines, files and faults of *)
(* the system calls.                                                       *)
(***************************************************************************)
EXTENDS Mistral, Numbers, SequenceTheorems, TLAPS

\* The output is untouched until it has been opened, after which no part of main
\* exits with failure any more.
Untouched == phase \notin {"write", "success"} => out = Old

\* Every step of the program keeps the output untouched up to the call of open.
LEMMA UntouchedStep == Untouched /\ [Next]_vars => Untouched'
  <1> SUFFICES ASSUME Untouched, [Next]_vars PROVE Untouched'
    OBVIOUS
  <1>1. CASE NextOption
    BY <1>1 DEF NextOption, Untouched, builder
  <1>2. CASE ParseArguments
    BY <1>2 DEF ParseArguments, Untouched, builder
  <1>3. CASE Find
    BY <1>3 DEF Find, Untouched, builder
  <1>4. CASE ParseStep
    BY <1>4 DEF ParseStep, Untouched, builder
  <1>5. CASE ParseFails
    BY <1>5 DEF ParseFails, Untouched, builder
  <1>6. CASE LoaderParsed
    BY <1>6 DEF LoaderParsed, Untouched
  <1>7. CASE PayloadParsed
    BY <1>7 DEF PayloadParsed, Untouched
  <1>8. CASE OpenOutput
    BY <1>8 DEF OpenOutput, Untouched
  <1>9. CASE OpenOutputFails
    BY <1>9 DEF OpenOutputFails, Untouched, builder
  <1>10. CASE WriteBasic(BuildStep) \/ WriteBasic(OpenFails)
    BY <1>10 DEF WriteBasic, Untouched, main
  <1>11. CASE Exit
    BY <1>11 DEF Exit, Untouched
  <1>12. CASE UNCHANGED vars
    BY <1>12 DEF vars, main, builder, Untouched
  <1> QED
    BY <1>1, <1>2, <1>3, <1>4, <1>5, <1>6, <1>7, <1>8, <1>9, <1>10, <1>11,
       <1>12 DEF Next, Advance

\* Whatever the options, the files and the system calls do, an exit with failure
\* leaves the file of the output's name as it was.
THEOREM OutputKeptOnFailure == Spec => []FailureKeepsOutput
  <1>1. Init => Untouched
    BY DEF Init, Untouched
  <1>2. Untouched => FailureKeepsOutput
    BY DEF Untouched, FailureKeepsOutput
  <1> QED
    BY <1>1, <1>2, UntouchedStep, PTL DEF Spec
-----------------------------------------------------------------------------
(***************************************************************************)
(* The copy loop: how far the current step of write_basic has come.        *)
(***************************************************************************)
Objects == Files \union {"mistral", "hkaddr", "hentry", "zero", "junk"}

Bytes == [of : Objects, n : Int]

\* Bytes of the current step that are in the image, and that have been read.
Put ==
    IF copy.state = "idle" THEN 0
    ELSE Plan[step].len - copy.len + IF copy.state = "write" THEN copy.off ELSE 0

Fetched ==
    Plan[step].len - copy.len + CASE copy.state = "read" -> copy.off
                                  [] copy.state = "write" -> copy.l
                                  [] OTHER -> 0

\* Where the n-th step has written.
Reach(n) == IF n < step THEN Plan[n].len ELSE IF n = step THEN Put ELSE 0

Covered(n) == Plan[n].at .. Plan[n].at + Reach(n) - 1

Planned(n, p) == Byte(Plan[n].of, Plan[n].from + p - Plan[n].at)

\* Every byte of the image is that of the last step that has covered it.
ImageSoFar ==
    \A p \in 0 .. Len(out) - 1 :
       \E n \in 1 .. 6 :
          /\ p \in Covered(n)
          /\ \A m \in 1 .. 6 : p \in Covered(m) => m <= n
          /\ out[p + 1] = Planned(n, p)

LengthSoFar == Len(out) = Reach(1) + Reach(2)

Buffers == [0 .. IoBuffer - 1 -> Bytes]

Copies == [state : {"idle", "chunk", "read", "write"}, len : Nat,
           l : 0 .. IoBuffer, off : Nat, buffer : Buffers]

BuilderTypes ==
    /\ step \in 1 .. 7
    /\ out \in Seq(Bytes)
    /\ pos \in [loader : Nat, payload : Nat, image : Nat]
    /\ copy \in Copies

\* The descriptors, and the buffer of fdcpy.
Copying ==
    /\ step \in {1, 2, 4}
    /\ copy.len <= Plan[step].len
    /\ pos.image = Plan[step].at + Put
    /\ pos[Plan[step].of] = Plan[step].from + Fetched
    /\ copy.state \in {"read", "write"} =>
          /\ copy.off <= copy.l /\ copy.l <= copy.len
          /\ \A k \in 0 .. (IF copy.state = "read" THEN copy.off ELSE copy.l) - 1 :
                copy.buffer[k] = Byte(Plan[step].of,
                                      Plan[step].from + Plan[step].len - copy.len + k)

Progress ==
    /\ BuilderTypes /\ LengthSoFar /\ ImageSoFar
    /\ copy.state # "idle" => Copying
    /\ copy.state = "idle" => /\ step = 1 => pos.image = 0
                              /\ step = 2 => pos.image = Plan[1].len

\* Nothing has been written before the output is opened.
Fresh == step = 1 /\ pos = [loader |-> 0, payload |-> 0, image |-> 0] /\ copy = Idle

Undisturbed == ~ failed /\ pair.alias = {} /\ Coherent

BuildInv ==
    /\ phase \notin {"write", "success"} => Fresh
    /\ phase = "write" /\ Undisturbed => Progress
    /\ phase = "success" => step = 1 \/ (Undisturbed => Progress)

-----------------------------------------------------------------------------

\* The plan.
LEMMA PlanFacts ==
    /\ DOMAIN Plan = 1 .. 6
    /\ \A n \in 1 .. 6 : Plan[n].of \in Objects
    /\ Plan[1].of = "loader" /\ Plan[2].of = "payload" /\ Plan[4].of = "payload"
    /\ Plan[1].at = 0 /\ Plan[2].at = Plan[1].len
    /\ Plan[1].len = basic.payload_offset /\ Plan[2].len = basic.payload_length
    /\ \A n \in {3, 5, 6} : Plan[n].from = 0
BY DEF Plan, Objects, Files

LEMMA SamePlan == UNCHANGED pair => Plan' = Plan
BY DEF Plan, basic, payload, loader

LEMMA CoherentPlan ==
    ASSUME Coherent
    PROVE  /\ \A n \in 1 .. 6 :
                 Plan[n].at \in Nat /\ Plan[n].from \in Nat /\ Plan[n].len \in Nat
           /\ \A n \in {1, 2, 4} : Plan[n].from + Plan[n].len <= pair.length[Plan[n].of]
           /\ \A n \in 3 .. 6 : Plan[n].at + Plan[n].len <= Plan[1].len + Plan[2].len
           /\ pair.length["loader"] \in Nat /\ pair.length["payload"] \in Nat
           /\ \A n \in {1, 2, 4} : Plan[n].len % SizeWord = Plan[n].len
  <1>1. /\ \A n \in 1 .. 6 :
              Plan[n].at \in Nat /\ Plan[n].from \in Nat /\ Plan[n].len \in Nat
        /\ \A n \in {1, 2, 4} : Plan[n].from + Plan[n].len <= pair.length[Plan[n].of]
        /\ \A n \in 3 .. 6 : Plan[n].at + Plan[n].len <= Plan[1].len + Plan[2].len
        /\ pair.length["loader"] \in 0 .. SizeWord - 1
        /\ pair.length["payload"] \in 0 .. SizeWord - 1
    BY PlanFacts DEF Coherent, Files
  <1>2. \A k \in 0 .. SizeWord - 1 : k % SizeWord = k
    BY BuilderAssumption
  <1>3. ASSUME NEW n \in {1, 2, 4} PROVE Plan[n].len \in 0 .. SizeWord - 1
    <2>1. pair.length[Plan[n].of] \in 0 .. SizeWord - 1
      BY <1>1, PlanFacts
    <2>2. n \in 1 .. 6
      OBVIOUS
    <2> QED
      BY <1>1, <2>1, <2>2, BuilderAssumption
  <1> QED
    BY <1>1, <1>2, <1>3

\* What one call of write leaves in the image.
LEMMA WrittenBytes ==
    ASSUME out \in Seq(Bytes), NEW bytes \in Seq(Bytes), NEW at \in 0 .. Len(out),
           out' = Written(bytes, at)
    PROVE  /\ out' \in Seq(Bytes)
           /\ Len(out') = IF Len(out) > at + Len(bytes) THEN Len(out)
                          ELSE at + Len(bytes)
           /\ \A p \in 0 .. Len(out') - 1 :
                 /\ at <= p /\ p < at + Len(bytes) => out'[p + 1] = bytes[p - at + 1]
                 /\ p < at \/ at + Len(bytes) <= p
                       => p < Len(out) /\ out'[p + 1] = out[p + 1]
  <1> DEFINE n == Len(bytes)
             size == IF Len(out) > at + n THEN Len(out) ELSE at + n
             byte(k) == IF at < k /\ k <= at + n THEN bytes[k - at]
                        ELSE IF k <= Len(out) THEN out[k] ELSE Byte("zero", 0)
  <1>1. out' = [k \in 1 .. size |-> byte(k)]
    BY DEF Written
  <1>2. n \in Nat /\ Len(out) \in Nat /\ at \in Nat /\ size \in Nat
    BY LenProperties
  <1>3. \A k \in 1 .. size : byte(k) \in Bytes
    <2> SUFFICES ASSUME NEW k \in 1 .. size PROVE byte(k) \in Bytes
      OBVIOUS
    <2>1. CASE at < k /\ k <= at + n
      BY <1>2, <2>1, k - at \in 1 .. n, ElementOfSeq
    <2>2. CASE ~ (at < k /\ k <= at + n)
      BY <1>2, <2>2, ElementOfSeq
    <2> QED
      BY <2>1, <2>2
  <1> HIDE DEF size, byte
  <1>4. out' \in Seq(Bytes) /\ Len(out') = size
    BY <1>1, <1>2, <1>3, IsASeq
  <1>5. ASSUME NEW p \in 0 .. size - 1
        PROVE  /\ at <= p /\ p < at + n => out'[p + 1] = bytes[p - at + 1]
               /\ p < at \/ at + n <= p => p < Len(out) /\ out'[p + 1] = out[p + 1]
    <2>1. p + 1 \in 1 .. size /\ (p + 1) - at = p - at + 1
      BY <1>2, <1>5
    <2>2. out'[p + 1] = byte(p + 1)
      BY <1>1, <2>1
    <2> QED
      BY <1>2, <2>1, <2>2 DEF size, byte
  <1> QED
    BY <1>4, <1>5 DEF size

\* A step that writes nothing.
LEMMA StillSoFar ==
    ASSUME LengthSoFar, ImageSoFar, UNCHANGED <<pair, out>>,
           \A n \in 1 .. 6 : Reach(n)' = Reach(n)
    PROVE  LengthSoFar' /\ ImageSoFar'
  <1>1. Plan' = Plan
    BY SamePlan
  <1>2. \A n \in 1 .. 6 : Covered(n)' = Covered(n)
    BY <1>1 DEF Covered
  <1>3. \A n, p : Planned(n, p)' = Planned(n, p)
    BY <1>1 DEF Planned
  <1> QED
    BY <1>2, <1>3 DEF LengthSoFar, ImageSoFar

LEMMA Shifted ==
    ASSUME NEW p \in Nat, NEW at \in Nat, NEW size \in Nat, at <= p, p < at + size
    PROVE  p - at + 1 \in 1 .. size /\ at + (p - at + 1) - 1 = p
OBVIOUS

\* The bytes that a step has for the image from a place on; what it adds.
Carries(bytes, s, at) ==
    \A k \in 1 .. Len(bytes) : bytes[k] = Planned(s, at + k - 1)

Advances(s, size) ==
    \A n \in 1 .. 6 : Reach(n)' = IF n = s THEN Reach(n) + size ELSE Reach(n)

\* A step that writes the next bytes of the plan's current one.
LEMMA FurtherSoFar ==
    ASSUME Undisturbed, BuilderTypes, LengthSoFar, ImageSoFar, UNCHANGED pair,
           NEW s \in 1 .. 6, s = step, Reach(s) \in Nat,
           NEW bytes \in Seq(Bytes), NEW at \in 0 .. Len(out),
           at = Plan[s].at + Reach(s), out' = Written(bytes, at),
           Carries(bytes, s, at), Advances(s, Len(bytes))
    PROVE  ImageSoFar' /\ out' \in Seq(Bytes)
           /\ Len(out') = IF Len(out) > at + Len(bytes) THEN Len(out)
                          ELSE at + Len(bytes)
  <1> DEFINE start == Plan[s].at
             old   == Reach(s)
             size  == Len(bytes)
  <1>1. /\ Plan' = Plan /\ start \in Nat /\ size \in Nat /\ Len(out) \in Nat
        /\ old \in Nat /\ at \in Nat /\ at = start + old
    <2>1. Plan' = Plan /\ start \in Nat
      BY SamePlan, CoherentPlan DEF Undisturbed
    <2>2. size \in Nat /\ Len(out) \in Nat
      BY LenProperties DEF BuilderTypes
    <2> QED
      BY <2>1, <2>2
  <1>2. /\ out' \in Seq(Bytes)
        /\ Len(out') = IF Len(out) > at + size THEN Len(out) ELSE at + size
        /\ \A p \in 0 .. Len(out') - 1 :
                 /\ at <= p /\ p < at + size => out'[p + 1] = bytes[p - at + 1]
                 /\ p < at \/ at + size <= p
                       => p < Len(out) /\ out'[p + 1] = out[p + 1]
    <2>1. out \in Seq(Bytes)
      BY DEF BuilderTypes
    <2> QED
      BY <2>1, WrittenBytes
  <1>3. \A n, p : Planned(n, p)' = Planned(n, p)
    BY <1>1 DEF Planned
  <1>4. \A n \in 1 .. 6 : n # s => Covered(n)' = Covered(n)
    <2> SUFFICES ASSUME NEW n \in 1 .. 6, n # s PROVE Covered(n)' = Covered(n)
      OBVIOUS
    <2>1. Reach(n)' = Reach(n)
      BY DEF Advances
    <2> QED
      BY <1>1, <2>1 DEF Covered
  <1>5. Covered(s) = start .. start + old - 1 /\ Covered(s)' = start .. start + (old + size) - 1
    <2>1. Reach(s)' = old + size
      BY DEF Advances
    <2> QED
      BY <1>1, <2>1 DEF Covered
  <1>6. \A n \in s + 1 .. 6 : Covered(n) = {} /\ Covered(n)' = {}
    <2> SUFFICES ASSUME NEW n \in s + 1 .. 6 PROVE Covered(n) = {} /\ Covered(n)' = {}
      OBVIOUS
    <2>1. n \in 1 .. 6 /\ n # s /\ ~ n < step /\ n # step
      OBVIOUS
    <2>2. Reach(n) = 0 /\ Plan[n].at \in Nat
      BY <2>1, CoherentPlan DEF Reach, Undisturbed
    <2>3. Covered(n) = {}
      BY <2>2 DEF Covered
    <2> QED
      BY <1>4, <2>1, <2>3
  <1> HIDE DEF start, old, size
  <1>7. ASSUME NEW p \in 0 .. Len(out') - 1
        PROVE  \E n \in 1 .. 6 :
                 /\ p \in Covered(n)'
                 /\ \A m \in 1 .. 6 : p \in Covered(m)' => m <= n
                 /\ out'[p + 1] = Planned(n, p)
    <2>1. p \in Nat
      BY <1>1, <1>2, <1>7, LenProperties
    <2>2. CASE at <= p /\ p < at + size
      <3>1. p \in Covered(s)'
        BY <1>1, <1>5, <2>1, <2>2
      <3>2. \A m \in 1 .. 6 : p \in Covered(m)' => m <= s
        <4> SUFFICES ASSUME NEW m \in 1 .. 6, ~ m <= s PROVE p \notin Covered(m)'
          OBVIOUS
        <4>1. m \in s + 1 .. 6
          OBVIOUS
        <4> QED
          BY <1>6, <4>1
      <3>3. out'[p + 1] = Planned(s, p)
        <4>1. p - at + 1 \in 1 .. size /\ at + (p - at + 1) - 1 = p
          BY <1>1, <2>1, <2>2, Shifted
        <4>2. bytes[p - at + 1] = Planned(s, at + (p - at + 1) - 1)
          BY <4>1 DEF size, Carries
        <4> QED
          BY <1>2, <1>7, <2>2, <4>1, <4>2
      <3> QED
        BY <3>1, <3>2, <3>3
    <2>3. CASE p < at \/ at + size <= p
      <3>1. p \in 0 .. Len(out) - 1 /\ out'[p + 1] = out[p + 1]
        <4>1. p < Len(out) /\ out'[p + 1] = out[p + 1]
          BY <1>2, <1>7, <2>3, Zenon
        <4> QED
          BY <1>1, <2>1, <4>1
      <3>2. PICK n \in 1 .. 6 : /\ p \in Covered(n)
                                /\ \A m \in 1 .. 6 : p \in Covered(m) => m <= n
                                /\ out[p + 1] = Planned(n, p)
        BY <3>1 DEF ImageSoFar
      <3>3. \A m \in 1 .. 6 : p \in Covered(m)' <=> p \in Covered(m)
        <4>1. p \in Covered(s)' <=> p \in Covered(s)
          BY <1>1, <1>5, <2>1, <2>3
        <4> QED
          BY <1>4, <4>1
      <3> QED
        BY <3>1, <3>2, <3>3
    <2> QED
      BY <1>1, <2>1, <2>2, <2>3
  <1>8. ImageSoFar'
    BY <1>3, <1>7 DEF ImageSoFar
  <1> QED
    BY <1>2, <1>8 DEF size

-----------------------------------------------------------------------------
LEMMA SameReach ==
    ASSUME UNCHANGED pair, UNCHANGED step, Put' = Put
    PROVE  \A n \in 1 .. 6 : Reach(n)' = Reach(n)
BY SamePlan DEF Reach

\* What is known while fdcpy runs.
LEMMA CopyFacts ==
    ASSUME Progress, Undisturbed, copy.state # "idle"
    PROVE  /\ step \in {1, 2, 4} /\ Plan[step].of \in {"loader", "payload"}
           /\ Plan[step].at \in Nat /\ Plan[step].from \in Nat /\ Plan[step].len \in Nat
           /\ Plan[step].from + Plan[step].len <= pair.length[Plan[step].of]
           /\ BuilderTypes /\ Copying /\ LengthSoFar /\ ImageSoFar
           /\ copy.len \in Nat /\ copy.len <= Plan[step].len
           /\ copy.l \in Nat /\ copy.off \in Nat
  <1>1. step \in {1, 2, 4} /\ BuilderTypes /\ Copying /\ LengthSoFar /\ ImageSoFar
    BY DEF Progress, Copying
  <1>2. /\ Plan[step].at \in Nat /\ Plan[step].from \in Nat /\ Plan[step].len \in Nat
        /\ Plan[step].from + Plan[step].len <= pair.length[Plan[step].of]
    BY <1>1, CoherentPlan DEF Undisturbed
  <1>3. Plan[step].of \in {"loader", "payload"}
    BY <1>1, PlanFacts
  <1>4. copy.len \in Nat /\ copy.len <= Plan[step].len /\ copy.l \in Nat /\ copy.off \in Nat
    BY <1>1, BuilderAssumption DEF BuilderTypes, Copies, Copying
  <1> QED
    BY <1>1, <1>2, <1>3, <1>4

LEMMA IdleCopy ==
    /\ Idle \in Copies
    /\ Idle.state = "idle"
  <1>1. Junk \in Bytes
    BY DEF Junk, Byte, Bytes, Objects
  <1>2. [k \in 0 .. IoBuffer - 1 |-> Junk] \in Buffers
    BY <1>1 DEF Buffers
  <1> QED
    BY <1>2, BuilderAssumption DEF Idle, Copies

LEMMA BeginCopyStep ==
    ASSUME Undisturbed, Progress, BeginCopy
    PROVE  Progress'
  <1>1. /\ step \in {1, 2, 4} /\ copy.state = "idle"
        /\ UNCHANGED <<pair, step, out>> /\ Plan' = Plan
    BY SamePlan DEF BeginCopy
  <1>2. /\ BuilderTypes /\ Plan[step].of \in {"loader", "payload"}
        /\ Plan[step].at \in Nat /\ Plan[step].from \in Nat /\ Plan[step].len \in Nat
        /\ Plan[1].at = 0 /\ Plan[2].at = Plan[1].len
        /\ Plan[step].len % SizeWord = Plan[step].len
    BY <1>1, PlanFacts, CoherentPlan DEF Progress, Undisturbed
  <1> DEFINE of == Plan[step].of
  <1>3. /\ copy'.state = "chunk" /\ copy'.len = Plan[step].len
        /\ copy' \in Copies
    BY <1>2, IdleCopy DEF BeginCopy, Copies
  <1>4. /\ pos' \in [loader : Nat, payload : Nat, image : Nat]
        /\ pos'[of] = Plan[step].from
        /\ pos'.image = Plan[step].at
    <2>1. /\ pos \in [loader : Nat, payload : Nat, image : Nat]
          /\ pos' = [pos EXCEPT ![of] = Plan[step].from,
                                !.image = IF step = 4 THEN Plan[step].at ELSE @]
      <3>1. /\ \A p : Seek(Plan[step].from, p) = Plan[step].from
            /\ \A p : Seek(Plan[step].at, p) = Plan[step].at
        BY <1>2 DEF Seek
      <3>2. pos' = [pos EXCEPT ![of] = Seek(Plan[step].from, @),
                               !.image = IF step = 4 THEN Seek(Plan[step].at, @) ELSE @]
        BY Zenon DEF BeginCopy
      <3>3. pos \in [loader : Nat, payload : Nat, image : Nat]
        BY <1>2 DEF BuilderTypes
      <3> QED
        BY <3>1, <3>2, <3>3
    <2>2. step # 4 => pos.image = Plan[step].at
      BY <1>1, <1>2 DEF Progress
    <2> QED
      BY <1>2, <2>1, <2>2
  <1>5. Put = 0 /\ Put' = 0 /\ Fetched' = 0
    BY <1>1, <1>2, <1>3 DEF Put, Fetched
  <1>6. \A n \in 1 .. 6 : Reach(n)' = Reach(n)
    BY <1>1, <1>5, SameReach
  <1>7. Copying'
    BY <1>1, <1>2, <1>3, <1>4, <1>5 DEF Copying
  <1> QED
    BY <1>1, <1>2, <1>3, <1>4, <1>6, <1>7, StillSoFar DEF Progress, BuilderTypes

LEMMA NextChunkStep ==
    ASSUME Undisturbed, Progress, NextChunk
    PROVE  Progress'
  <1>1. /\ copy.state = "chunk" /\ copy.len > 0
        /\ copy' = [copy EXCEPT !.state = "read", !.off = 0,
                                !.l = Smallest(IoBuffer, copy.len)]
        /\ UNCHANGED <<pair, step, pos, out>> /\ Plan' = Plan
    BY SamePlan DEF NextChunk
  <1>2. /\ step \in {1, 2, 4}
        /\ BuilderTypes /\ Copying /\ LengthSoFar /\ ImageSoFar
        /\ Plan[step].len \in Nat /\ copy.len \in Nat
    BY <1>1, CopyFacts
  <1>3. /\ copy'.state = "read" /\ copy'.len = copy.len /\ copy'.off = 0
        /\ copy'.l \in 0 .. IoBuffer /\ copy'.l <= copy.len
        /\ copy' \in Copies
    <2>1. Smallest(IoBuffer, copy.len) \in 0 .. IoBuffer
          /\ Smallest(IoBuffer, copy.len) <= copy.len
      BY <1>1, <1>2, BuilderAssumption DEF Smallest
    <2> QED
      BY <1>1, <1>2, <2>1 DEF BuilderTypes, Copies
  <1>4. Put' = Put /\ Fetched' = Fetched
    BY <1>1, <1>2, <1>3 DEF Put, Fetched
  <1>5. \A n \in 1 .. 6 : Reach(n)' = Reach(n)
    BY <1>1, <1>4, SameReach
  <1>6. Copying'
    BY <1>1, <1>2, <1>3, <1>4 DEF Copying
  <1> QED
    BY <1>1, <1>2, <1>3, <1>5, <1>6, StillSoFar DEF Progress, BuilderTypes

LEMMA BufferFullStep ==
    ASSUME Undisturbed, Progress, BufferFull
    PROVE  Progress'
  <1>1. /\ copy.state = "read" /\ copy.off = copy.l
        /\ copy' = [copy EXCEPT !.state = "write", !.off = 0]
        /\ UNCHANGED <<pair, step, pos, out>> /\ Plan' = Plan
    BY SamePlan DEF BufferFull
  <1>2. /\ step \in {1, 2, 4}
        /\ BuilderTypes /\ Copying /\ LengthSoFar /\ ImageSoFar
        /\ Plan[step].len \in Nat /\ copy.len \in Nat /\ copy.l \in Nat
    BY <1>1, CopyFacts
  <1>3. /\ copy'.state = "write" /\ copy'.len = copy.len /\ copy'.off = 0
        /\ copy'.l = copy.l /\ copy'.buffer = copy.buffer /\ copy' \in Copies
    BY <1>1, <1>2 DEF BuilderTypes, Copies
  <1>4. Put' = Put /\ Fetched' = Fetched
    BY <1>1, <1>2, <1>3 DEF Put, Fetched
  <1>5. \A n \in 1 .. 6 : Reach(n)' = Reach(n)
    BY <1>1, <1>4, SameReach
  <1>6. Copying'
    BY <1>1, <1>2, <1>3, <1>4 DEF Copying
  <1> QED
    BY <1>1, <1>2, <1>3, <1>5, <1>6, StillSoFar DEF Progress, BuilderTypes

LEMMA ChunkWrittenStep ==
    ASSUME Undisturbed, Progress, ChunkWritten
    PROVE  Progress'
  <1>1. /\ copy.state = "write" /\ copy.off = copy.l
        /\ copy' = [copy EXCEPT !.state = "chunk", !.len = @ - copy.l]
        /\ UNCHANGED <<pair, step, pos, out>> /\ Plan' = Plan
    BY SamePlan DEF ChunkWritten
  <1>2. /\ step \in {1, 2, 4}
        /\ BuilderTypes /\ Copying /\ LengthSoFar /\ ImageSoFar
        /\ Plan[step].len \in Nat /\ copy.len \in Nat /\ copy.l \in Nat
        /\ copy.len <= Plan[step].len
    BY <1>1, CopyFacts
  <1>3. copy.l <= copy.len
    BY <1>1, <1>2 DEF Copying
  <1>4. /\ copy'.state = "chunk" /\ copy'.len = copy.len - copy.l
        /\ copy'.l = copy.l /\ copy' \in Copies
    <2>1. copy.len - copy.l \in Nat
      BY <1>2, <1>3
    <2> QED
      BY <1>1, <1>2, <2>1 DEF BuilderTypes, Copies
  <1>5. Put' = Put /\ Fetched' = Fetched
    BY <1>1, <1>2, <1>4 DEF Put, Fetched
  <1>6. \A n \in 1 .. 6 : Reach(n)' = Reach(n)
    BY <1>1, <1>5, SameReach
  <1>7. Copying'
    BY <1>1, <1>2, <1>3, <1>4, <1>5 DEF Copying
  <1> QED
    BY <1>1, <1>2, <1>4, <1>6, <1>7, StillSoFar DEF Progress, BuilderTypes

LEMMA EndCopyStep ==
    ASSUME Undisturbed, Progress, EndCopy
    PROVE  Progress'
  <1>1. /\ copy.state = "chunk" /\ copy.len = 0 /\ copy' = Idle
        /\ step' = step + 1
        /\ UNCHANGED <<pair, pos, out>> /\ Plan' = Plan
    BY SamePlan DEF EndCopy
  <1>2. /\ step \in {1, 2, 4}
        /\ BuilderTypes /\ Copying /\ LengthSoFar /\ ImageSoFar
        /\ Plan[step].len \in Nat
    BY <1>1, CopyFacts
  <1>3. Put = Plan[step].len /\ Put' = 0
    BY <1>1, <1>2, IdleCopy DEF Put
  <1>4. \A n \in 1 .. 6 : Reach(n)' = Reach(n)
    BY <1>1, <1>2, <1>3 DEF Reach
  <1>5. step' = 2 => pos.image = Plan[1].len
    <2>1. step = 1 => pos.image = 0 + Plan[1].len
      BY <1>2, <1>3, PlanFacts DEF Copying
    <2> QED
      BY <1>1, <1>2, <2>1
  <1> QED
    BY <1>1, <1>2, <1>4, <1>5, IdleCopy, StillSoFar DEF Progress, BuilderTypes

LEMMA ReadStep ==
    ASSUME Undisturbed, Progress, NEW done \in 1 .. IoBuffer, Read(done)
    PROVE  Progress'
  <1> DEFINE of    == Plan[step].of
             count == Smallest(copy.l - copy.off, Left(of))
  <1>1. /\ copy.state = "read" /\ copy.off < copy.l
        /\ done \in 1 .. count
        /\ copy' = [copy EXCEPT !.off = @ + done,
                        !.buffer = [k \in DOMAIN @ |->
                            IF copy.off <= k /\ k < copy.off + done
                            THEN Ahead(of, k - copy.off) ELSE @[k]]]
        /\ pos' = [pos EXCEPT ![of] = @ + done]
        /\ UNCHANGED <<pair, step, out>> /\ Plan' = Plan
    BY SamePlan DEF Read, Transfer
  <1>2. /\ step \in {1, 2, 4} /\ of \in {"loader", "payload"}
        /\ BuilderTypes /\ Copying /\ LengthSoFar /\ ImageSoFar
        /\ Plan[step].len \in Nat /\ copy.len \in Nat /\ copy.l \in Nat
        /\ copy.off \in Nat
        /\ copy.len <= Plan[step].len /\ Plan[step].from \in Nat
    BY <1>1, CopyFacts
  <1>3. /\ copy.l <= copy.len /\ copy.l <= IoBuffer /\ IoBuffer \in Nat
        /\ pos[of] = Plan[step].from + Plan[step].len - copy.len + copy.off
    <2>1. copy.l <= copy.len /\ pos[of] = Plan[step].from + Fetched
      BY <1>1, <1>2 DEF Copying
    <2>2. Fetched = Plan[step].len - copy.len + copy.off
      BY <1>1 DEF Fetched
    <2>3. copy.l <= IoBuffer /\ IoBuffer \in Nat
      BY <1>2, BuilderAssumption DEF BuilderTypes, Copies
    <2> QED
      BY <1>2, <2>1, <2>2, <2>3
  <1>4. done \in Nat /\ copy.off + done <= copy.l
    <2>1. Left(of) \in Int
      BY <1>2, <1>3, CoherentPlan DEF Left, Undisturbed
    <2>2. count \in Int /\ count <= copy.l - copy.off
      BY <1>2, <2>1 DEF Smallest
    <2> HIDE DEF count
    <2> QED
      BY <1>1, <1>2, <2>2
  <1>5. \A n : Ahead(of, n) = Byte(of, pos[of] + n)
    BY DEF Ahead, Undisturbed
  <1> DEFINE first == Plan[step].from + Plan[step].len - copy.len
             byte(k) == IF copy.off <= k /\ k < copy.off + done
                        THEN Ahead(of, k - copy.off) ELSE copy.buffer[k]
  <1>6. \A k \in 0 .. copy.off - 1 : copy.buffer[k] = Byte(of, first + k)
    BY <1>1, <1>2 DEF Copying
  <1>7. copy.buffer \in Buffers /\ first \in Nat
    <2>1. copy.buffer \in Buffers
      BY <1>2 DEF BuilderTypes, Copies
    <2>2. first \in Nat
      BY <1>2
    <2> QED
      BY <2>1, <2>2
  <1>8. \A k \in 0 .. IoBuffer - 1 : byte(k) \in Bytes
    <2> SUFFICES ASSUME NEW k \in 0 .. IoBuffer - 1 PROVE byte(k) \in Bytes
      OBVIOUS
    <2>1. CASE copy.off <= k /\ k < copy.off + done
      <3>1. byte(k) = Byte(of, pos[of] + (k - copy.off))
        BY <1>5, <2>1
      <3>2. pos[of] + (k - copy.off) \in Int
        BY <1>2, <1>3, <1>7
      <3> QED
        BY <1>2, <3>1, <3>2 DEF Byte, Bytes, Objects, Files
    <2>2. CASE ~ (copy.off <= k /\ k < copy.off + done)
      BY <1>7, <2>2 DEF Buffers
    <2> QED
      BY <2>1, <2>2
  <1>9. \A k \in 0 .. copy.off + done - 1 : byte(k) = Byte(of, first + k)
    <2> SUFFICES ASSUME NEW k \in 0 .. copy.off + done - 1
                 PROVE  byte(k) = Byte(of, first + k)
      OBVIOUS
    <2>1. CASE copy.off <= k
      <3>1. byte(k) = Byte(of, pos[of] + (k - copy.off))
        BY <1>2, <1>4, <1>5, <2>1
      <3>2. pos[of] + (k - copy.off) = first + k
        BY <1>2, <1>3, <1>7
      <3> QED
        BY <3>1, <3>2
    <2>2. CASE ~ copy.off <= k
      <3>1. k \in 0 .. copy.off - 1
        BY <1>2, <1>4, <2>2
      <3> QED
        BY <1>6, <2>2, <3>1
    <2> QED
      BY <2>1, <2>2
  <1>10. copy' = [copy EXCEPT !.off = copy.off + done,
                              !.buffer = [k \in 0 .. IoBuffer - 1 |-> byte(k)]]
    BY <1>1, <1>2, <1>7 DEF BuilderTypes, Copies, Buffers
  <1> HIDE DEF byte, first, of, count
  <1>11. [k \in 0 .. IoBuffer - 1 |-> byte(k)] \in Buffers
    BY <1>8 DEF Buffers
  <1>12. /\ copy'.state = "read" /\ copy'.len = copy.len /\ copy'.l = copy.l
         /\ copy'.off = copy.off + done
         /\ copy'.buffer = [k \in 0 .. IoBuffer - 1 |-> byte(k)]
         /\ copy' \in Copies
    <2>1. copy.off + done \in Nat
      BY <1>2, <1>4
    <2> QED
      BY <1>1, <1>2, <1>10, <1>11, <2>1 DEF BuilderTypes, Copies
  <1>13. \A k \in 0 .. copy'.off - 1 : copy'.buffer[k] = Byte(of, first + k)
    <2> SUFFICES ASSUME NEW k \in 0 .. copy'.off - 1
                 PROVE  copy'.buffer[k] = Byte(of, first + k)
      OBVIOUS
    <2>0. copy'.off = copy.off + done
      BY <1>12
    <2>1. k \in 0 .. copy.off + done - 1
      BY <1>2, <1>4, <2>0
    <2>2. k \in 0 .. IoBuffer - 1
      BY <1>2, <1>3, <1>4, <2>1
    <2>3. copy'.buffer[k] = byte(k)
      BY <1>12, <2>2
    <2> QED
      BY <1>9, <2>1, <2>3
  <1>14. Put' = Put /\ Fetched = Plan[step].len - copy.len + copy.off
         /\ Fetched' = Plan[step].len - copy.len + (copy.off + done)
    BY <1>1, <1>12 DEF Put, Fetched
  <1>15. /\ pos' \in [loader : Nat, payload : Nat, image : Nat]
         /\ pos'.image = pos.image /\ pos'[of] = pos[of] + done
    <2>1. pos \in [loader : Nat, payload : Nat, image : Nat] /\ pos[of] + done \in Nat
      BY <1>2, <1>4 DEF BuilderTypes
    <2> QED
      BY <1>1, <1>2, <2>1
  <1>16. \A n \in 1 .. 6 : Reach(n)' = Reach(n)
    BY <1>1, <1>14, SameReach
  <1>17. Copying'
    <2>1. pos'[of] = Plan[step].from + (Plan[step].len - copy.len + (copy.off + done))
      BY <1>2, <1>3, <1>4, <1>15
    <2>2. /\ step \in {1, 2, 4} /\ copy.len <= Plan[step].len
          /\ pos.image = Plan[step].at + Put
      BY <1>2 DEF Copying
    <2> QED
      BY <1>1, <1>3, <1>4, <1>12, <1>13, <1>14, <1>15, <2>1, <2>2
      DEF Copying, of, first
  <1> QED
    BY <1>1, <1>2, <1>12, <1>15, <1>16, <1>17, StillSoFar DEF Progress, BuilderTypes

LEMMA WriteStep ==
    ASSUME Undisturbed, Progress, NEW done \in 1 .. IoBuffer, Write(done)
    PROVE  Progress'
  <1> DEFINE bytes == [k \in 1 .. done |-> copy.buffer[copy.off + k - 1]]
             at    == pos.image
             of    == Plan[step].of
             first == Plan[step].from + Plan[step].len - copy.len
  <1>1. /\ copy.state = "write" /\ copy.off < copy.l
        /\ done \in 1 .. copy.l - copy.off
        /\ out' = Written(bytes, at)
        /\ pos' = [pos EXCEPT !.image = @ + done]
        /\ copy' = [copy EXCEPT !.off = @ + done]
        /\ UNCHANGED <<pair, step>> /\ Plan' = Plan
    BY SamePlan DEF Write, Transfer
  <1>2. /\ step \in {1, 2, 4} /\ of \in {"loader", "payload"}
        /\ BuilderTypes /\ Copying /\ LengthSoFar /\ ImageSoFar
        /\ Plan[step].at \in Nat /\ Plan[step].len \in Nat
        /\ copy.len \in Nat /\ copy.l \in Nat /\ copy.off \in Nat
        /\ copy.len <= Plan[step].len /\ Plan[step].from \in Nat
    BY <1>1, CopyFacts
  <1>3. /\ copy.l <= copy.len /\ copy.l <= IoBuffer /\ IoBuffer \in Nat
        /\ at = Plan[step].at + Put
        /\ \A k \in 0 .. copy.l - 1 : copy.buffer[k] = Byte(of, first + k)
    BY <1>1, <1>2, BuilderAssumption DEF Copying, BuilderTypes, Copies
  <1>4. done \in Nat /\ done > 0 /\ copy.off + done <= copy.l
    BY <1>1, <1>2
  <1>5. /\ copy'.state = "write" /\ copy'.len = copy.len /\ copy'.l = copy.l
        /\ copy'.off = copy.off + done /\ copy'.buffer = copy.buffer
        /\ copy' \in Copies
    <2>1. copy.off + done \in Nat
      BY <1>2, <1>4
    <2> QED
      BY <1>1, <1>2, <2>1 DEF BuilderTypes, Copies
  <1>6. /\ pos' \in [loader : Nat, payload : Nat, image : Nat]
        /\ pos'.image = at + done /\ pos'[of] = pos[of]
    <2>1. pos \in [loader : Nat, payload : Nat, image : Nat] /\ pos.image + done \in Nat
      BY <1>2, <1>4 DEF BuilderTypes
    <2> QED
      BY <1>1, <1>2, <2>1
  <1>7. /\ Put = Plan[step].len - copy.len + copy.off
        /\ Put' = Plan[step].len - copy.len + (copy.off + done)
        /\ Fetched' = Fetched
    BY <1>1, <1>5 DEF Put, Fetched
  <1>8. Put \in Nat /\ Put' = Put + done /\ Put' <= Plan[step].len
    BY <1>2, <1>3, <1>4, <1>7
  <1>9. Reach(step) = Put /\ Advances(step, done)
    BY <1>1, <1>2, <1>8 DEF Reach, Advances
  <1>10. bytes \in Seq(Bytes) /\ Len(bytes) = done
    <2>1. \A k \in 1 .. done : copy.buffer[copy.off + k - 1] \in Bytes
      <3> SUFFICES ASSUME NEW k \in 1 .. done
                   PROVE  copy.buffer[copy.off + k - 1] \in Bytes
        OBVIOUS
      <3>1. copy.off + k - 1 \in 0 .. IoBuffer - 1
        BY <1>2, <1>3, <1>4
      <3>2. copy.buffer \in Buffers
        BY <1>2 DEF BuilderTypes, Copies
      <3> QED
        BY <3>1, <3>2 DEF Buffers
    <2> QED
      BY <1>4, <2>1, IsASeq
  <1>11. Carries(bytes, step, at)
    <2> SUFFICES ASSUME NEW k \in 1 .. done
                 PROVE  bytes[k] = Planned(step, at + k - 1)
      BY <1>10 DEF Carries
    <2>1. copy.off + k - 1 \in 0 .. copy.l - 1
      BY <1>2, <1>4
    <2>2. bytes[k] = Byte(of, first + (copy.off + k - 1))
      BY <1>3, <2>1
    <2>3. first + (copy.off + k - 1) = Plan[step].from + (at + k - 1) - Plan[step].at
      BY <1>2, <1>3, <1>7
    <2> QED
      BY <2>2, <2>3 DEF Planned
  <1> HIDE DEF bytes
  <1>12. at \in 0 .. Len(out) /\ Len(out) \in Nat
    <2>1. Len(out) = Reach(1) + Reach(2) /\ Len(out) \in Nat /\ at \in Nat
      BY <1>2, LenProperties DEF LengthSoFar, BuilderTypes
    <2>2. CASE step = 1
      <3>1. Reach(1) = Put /\ Reach(2) = 0 /\ at = 0 + Put
        BY <1>3, <2>2, PlanFacts DEF Reach
      <3> QED
        BY <1>8, <2>1, <3>1
    <2>3. CASE step = 2
      <3>1. Reach(1) = Plan[1].len /\ Reach(2) = Put /\ at = Plan[1].len + Put
        BY <1>3, <2>3, PlanFacts DEF Reach
      <3> QED
        BY <2>1, <3>1
    <2>4. CASE step = 4
      <3>1. Reach(1) = Plan[1].len /\ Reach(2) = Plan[2].len
        BY <2>4 DEF Reach
      <3>2. Plan[4].at + Plan[4].len <= Plan[1].len + Plan[2].len
        BY CoherentPlan DEF Undisturbed
      <3>3. Put <= Plan[4].len /\ at = Plan[4].at + Put
        BY <1>2, <1>3, <1>4, <1>8, <2>4
      <3>4. Plan[4].at \in Nat /\ Plan[4].len \in Nat
        BY <1>2, <2>4
      <3> QED
        BY <1>8, <2>1, <3>1, <3>2, <3>3, <3>4
    <2> QED
      BY <1>2, <2>2, <2>3, <2>4
  <1>13. ImageSoFar' /\ out' \in Seq(Bytes)
         /\ Len(out') = IF Len(out) > at + done THEN Len(out) ELSE at + done
    <2>1. Advances(step, Len(bytes)) /\ Reach(step) \in Nat /\ at = Plan[step].at + Reach(step)
      BY <1>3, <1>8, <1>9, <1>10
    <2>2. step \in 1 .. 6
      BY <1>2
    <2> HIDE DEF at
    <2> QED
      BY <1>1, <1>2, <1>10, <1>11, <1>12, <2>1, <2>2, FurtherSoFar
  <1>14. LengthSoFar'
    <2>1. Len(out) = Reach(1) + Reach(2) /\ Reach(1) \in Nat /\ Reach(2) \in Nat
      <3>1. Plan[1].len \in Nat /\ Plan[2].len \in Nat
        BY CoherentPlan DEF Undisturbed
      <3> QED
        BY <1>2, <1>8, <3>1 DEF LengthSoFar, Reach
    <2>2. /\ Reach(1)' = IF step = 1 THEN Reach(1) + done ELSE Reach(1)
          /\ Reach(2)' = IF step = 2 THEN Reach(2) + done ELSE Reach(2)
      BY <1>9 DEF Advances
    <2>3. CASE step = 1
      <3>1. at = Reach(1) /\ Reach(2) = 0
        BY <1>3, <1>8, <1>9, <2>3, PlanFacts DEF Reach
      <3> QED
        BY <1>4, <1>13, <2>1, <2>2, <2>3, <3>1 DEF LengthSoFar
    <2>4. CASE step = 2
      <3>1. at = Reach(1) + Reach(2)
        BY <1>3, <1>9, <2>4, PlanFacts DEF Reach
      <3> QED
        BY <1>4, <1>13, <2>1, <2>2, <2>4, <3>1 DEF LengthSoFar
    <2>5. CASE step = 4
      <3>1. Reach(1) = Plan[1].len /\ Reach(2) = Plan[2].len
        BY <2>5 DEF Reach
      <3>2. Plan[4].at + Plan[4].len <= Plan[1].len + Plan[2].len
        BY CoherentPlan DEF Undisturbed
      <3>3. Put + done <= Plan[4].len /\ at = Plan[4].at + Put
        BY <1>3, <1>8, <2>5
      <3>4. at + done <= Len(out)
        <4>1. Plan[4].at \in Nat /\ Plan[4].len \in Nat
          BY <1>2, <2>5
        <4>2. at + done = Plan[4].at + (Put + done) /\ Put + done \in Nat
          BY <1>4, <1>8, <3>3, <4>1
        <4>3. at + done <= Plan[4].at + Plan[4].len
          BY <3>3, <4>1, <4>2
        <4>4. Len(out) = Plan[1].len + Plan[2].len
          BY <2>1, <3>1
        <4>5. at + done \in Nat /\ Plan[4].at + Plan[4].len \in Nat /\ Len(out) \in Nat
          BY <1>12, <4>1, <4>2
        <4> HIDE DEF at
        <4> QED
          BY <3>2, <4>3, <4>4, <4>5
      <3> QED
        BY <1>4, <1>12, <1>13, <2>1, <2>2, <2>5, <3>4 DEF LengthSoFar
    <2> QED
      BY <1>2, <2>3, <2>4, <2>5
  <1>15. Copying'
    <2>1. /\ step \in {1, 2, 4} /\ copy.len <= Plan[step].len
          /\ pos[of] = Plan[step].from + Fetched
      BY <1>2 DEF Copying
    <2>2. pos'.image = Plan[step].at + Put'
      BY <1>2, <1>3, <1>6, <1>8
    <2> QED
      BY <1>1, <1>3, <1>4, <1>5, <1>6, <1>7, <2>1, <2>2 DEF Copying
  <1> QED
    BY <1>1, <1>2, <1>5, <1>6, <1>13, <1>14, <1>15 DEF Progress, BuilderTypes

LEMMA WriteStructureStep ==
    ASSUME Undisturbed, Undisturbed', Progress,
           NEW done \in Nat, WriteStructure(done)
    PROVE  Progress'
  <1> DEFINE bytes == [k \in 1 .. done |-> Byte(Plan[step].of, k - 1)]
             at    == Plan[step].at
  <1>1. /\ step \in {3, 5, 6} /\ done = Plan[step].len /\ step' = step + 1
        /\ out' = Written(bytes, at)
        /\ pos' = [pos EXCEPT !.image = at + done]
        /\ UNCHANGED <<pair, copy>> /\ Plan' = Plan
    <2>1. step \in {3, 5, 6} /\ step \in 1 .. 6 /\ UNCHANGED pair
      BY DEF WriteStructure
    <2>2. Plan[step].len \in Nat
      BY <2>1, CoherentPlan DEF Undisturbed
    <2>3. done \in 0 .. Plan[step].len /\ ~ (done < Plan[step].len)
      BY Zenon DEF WriteStructure, Undisturbed
    <2>4. done = Plan[step].len
      BY <2>2, <2>3
    <2>5. Seek(Plan[step].at, pos.image) = Plan[step].at
      BY <2>1, CoherentPlan DEF Undisturbed, Seek
    <2> QED
      BY <2>1, <2>4, <2>5, SamePlan DEF WriteStructure
  <1>2. /\ copy.state = "idle" /\ BuilderTypes /\ LengthSoFar /\ ImageSoFar
        /\ Plan[step].at \in Nat /\ Plan[step].from = 0 /\ Plan[step].len \in Nat
        /\ Plan[step].of \in Objects
    <2>1. copy.state = "idle" /\ BuilderTypes /\ LengthSoFar /\ ImageSoFar
      BY <1>1 DEF Progress, Copying
    <2>2. step \in 1 .. 6
      BY <1>1
    <2>3. Plan[step].at \in Nat /\ Plan[step].len \in Nat
      BY <2>2, CoherentPlan DEF Undisturbed
    <2>4. Plan[step].from = 0 /\ Plan[step].of \in Objects
      BY <1>1, <2>2, PlanFacts
    <2> QED
      BY <2>1, <2>3, <2>4
  <1>3. Put = 0 /\ Put' = 0
    BY <1>1, <1>2 DEF Put
  <1>4. Reach(step) = 0 /\ Advances(step, done)
    <2>1. \A n \in 1 .. 6 : Reach(n)' = IF n <= step THEN Plan[n].len ELSE 0
      BY <1>1, <1>3 DEF Reach
    <2>2. \A n \in 1 .. 6 : Reach(n) = IF n < step THEN Plan[n].len ELSE 0
      BY <1>1, <1>3 DEF Reach
    <2> QED
      BY <1>1, <2>1, <2>2 DEF Advances
  <1>5. bytes \in Seq(Bytes) /\ Len(bytes) = done
    <2>1. \A k \in 1 .. done : Byte(Plan[step].of, k - 1) \in Bytes
      BY <1>2 DEF Byte, Bytes
    <2> QED
      BY <2>1, IsASeq
  <1>6. Carries(bytes, step, at)
    <2> SUFFICES ASSUME NEW k \in 1 .. done
                 PROVE  bytes[k] = Planned(step, at + k - 1)
      BY <1>5 DEF Carries
    <2>1. Plan[step].from + (at + k - 1) - Plan[step].at = k - 1
      BY <1>2
    <2> QED
      BY <2>1 DEF Planned
  <1>7. Len(out) = Plan[1].len + Plan[2].len /\ at + done <= Len(out) /\ Len(out) \in Nat
    <2>1. Reach(1) = Plan[1].len /\ Reach(2) = Plan[2].len
      BY <1>1 DEF Reach
    <2>2. step \in 3 .. 6
      BY <1>1
    <2>3. at + done <= Plan[1].len + Plan[2].len
      BY <1>1, <2>2, CoherentPlan DEF Undisturbed
    <2>4. Len(out) \in Nat
      BY <1>2, LenProperties DEF BuilderTypes
    <2> QED
      BY <1>2, <2>1, <2>3, <2>4 DEF LengthSoFar
  <1> HIDE DEF bytes
  <1>8. at \in 0 .. Len(out) /\ at = Plan[step].at + Reach(step)
    BY <1>2, <1>4, <1>7
  <1>9. ImageSoFar' /\ out' \in Seq(Bytes)
        /\ Len(out') = IF Len(out) > at + done THEN Len(out) ELSE at + done
    <2>1. Advances(step, Len(bytes)) /\ Reach(step) \in Nat /\ step \in 1 .. 6
      BY <1>1, <1>4, <1>5
    <2> HIDE DEF at
    <2> QED
      BY <1>1, <1>2, <1>5, <1>6, <1>8, <2>1, FurtherSoFar
  <1>10. LengthSoFar'
    <2>1. Reach(1)' = Plan[1].len /\ Reach(2)' = Plan[2].len
      BY <1>1 DEF Reach
    <2>2. Len(out') = Len(out)
      BY <1>2, <1>7, <1>9
    <2> QED
      BY <1>7, <2>1, <2>2 DEF LengthSoFar
  <1>11. pos' \in [loader : Nat, payload : Nat, image : Nat]
    BY <1>1, <1>2 DEF BuilderTypes
  <1> QED
    BY <1>1, <1>2, <1>9, <1>10, <1>11 DEF Progress, BuilderTypes

LEMMA BuildStepProgress ==
    ASSUME Undisturbed, Undisturbed', Progress, BuildStep
    PROVE  Progress'
  <1>1. CASE ReadEnd
    <2>1. copy.state = "read" /\ copy.off < copy.l /\ Left(Plan[step].of) <= 0
      BY <1>1 DEF ReadEnd
    <2>2. /\ BuilderTypes /\ Copying /\ Plan[step].of \in {"loader", "payload"}
          /\ Plan[step].from \in Nat /\ Plan[step].len \in Nat
          /\ Plan[step].from + Plan[step].len <= pair.length[Plan[step].of]
          /\ copy.len \in Nat /\ copy.len <= Plan[step].len
          /\ copy.l \in Nat /\ copy.off \in Nat
      BY <2>1, CopyFacts
    <2>3. /\ copy.l <= copy.len
          /\ pos[Plan[step].of] = Plan[step].from + (Plan[step].len - copy.len + copy.off)
      BY <2>1, <2>2 DEF Copying, Fetched
    <2>4. /\ Left(Plan[step].of) = pair.length[Plan[step].of] - pos[Plan[step].of]
          /\ pair.length[Plan[step].of] \in Nat
      BY <2>2, CoherentPlan DEF Left, Undisturbed
    <2> QED
      BY <2>1, <2>2, <2>3, <2>4
  <1>2. CASE Interrupted
    <2>1. UNCHANGED <<pair, step, pos, out, copy>> /\ Plan' = Plan
      BY <1>2, SamePlan DEF Interrupted
    <2>2. Put' = Put /\ Fetched' = Fetched
      BY <2>1 DEF Put, Fetched
    <2>3. \A n \in 1 .. 6 : Reach(n)' = Reach(n)
      BY <2>1, <2>2, SameReach
    <2>4. (copy.state # "idle" => Copying)'
      BY <2>1, <2>2 DEF Copying, Progress
    <2> QED
      BY <2>1, <2>3, <2>4, StillSoFar DEF Progress, BuilderTypes
  <1>3. CASE CopyFails
    BY <1>3 DEF CopyFails, Undisturbed
  <1>4. ASSUME NEW done \in 1 .. IoBuffer, Read(done) \/ Write(done)
        PROVE  Progress'
    BY <1>4, ReadStep, WriteStep
  <1>5. ASSUME NEW done \in 0 .. MistralSize + HkaddrSize + HentrySize,
               WriteStructure(done)
        PROVE  Progress'
    <2>1. done \in Nat
      BY BuilderAssumption
    <2> QED
      BY <1>5, <2>1, WriteStructureStep
  <1> QED
    BY <1>1, <1>2, <1>3, <1>4, <1>5, BeginCopyStep, NextChunkStep, BufferFullStep,
       ChunkWrittenStep, EndCopyStep DEF BuildStep

-----------------------------------------------------------------------------
\* The first step of the copy finds an empty image.
LEMMA FreshProgress ==
    ASSUME Fresh, UNCHANGED <<step, pos, copy>>, out' = <<>>
    PROVE  Progress'
  <1>1. copy'.state = "idle" /\ copy' \in Copies
    BY IdleCopy DEF Fresh
  <1>2. Len(out') = 0 /\ out' \in Seq(Bytes)
    OBVIOUS
  <1>3. Put' = 0 /\ step' = 1
    BY <1>1 DEF Put, Fresh
  <1>4. LengthSoFar'
    BY <1>2, <1>3 DEF LengthSoFar, Reach
  <1>5. ImageSoFar'
    BY <1>2 DEF ImageSoFar
  <1> QED
    BY <1>1, <1>2, <1>3, <1>4, <1>5 DEF Progress, BuilderTypes, Fresh

LEMMA UndisturbedSame ==
    ASSUME UNCHANGED <<pair, failed>>
    PROVE  Undisturbed' = Undisturbed
BY SamePlan DEF Undisturbed, Coherent

LEMMA ProgressSame ==
    ASSUME UNCHANGED builder
    PROVE  Progress' = Progress /\ Undisturbed' = Undisturbed /\ Fresh' = Fresh
  <1>1. UNCHANGED <<pair, step, pos, out, copy, failed>> /\ Plan' = Plan
    BY SamePlan DEF builder
  <1>2. Put' = Put /\ Fetched' = Fetched
    BY <1>1 DEF Put, Fetched
  <1>3. /\ BuilderTypes' = BuilderTypes /\ Copying' = Copying
        /\ \A n : Reach(n)' = Reach(n)
    BY <1>1, <1>2 DEF BuilderTypes, Copying, Reach
  <1>4. LengthSoFar' = LengthSoFar /\ ImageSoFar' = ImageSoFar
    BY <1>1, <1>3 DEF LengthSoFar, ImageSoFar, Covered, Planned
  <1> QED
    BY <1>1, <1>3, <1>4, UndisturbedSame DEF Progress, Fresh

\* A failure stays, and nothing else disturbs a copy that has begun.
LEMMA DisturbedStays ==
    ASSUME BuildStep \/ OpenFails, Undisturbed'
    PROVE  Undisturbed
  <1>1. UNCHANGED pair
    BY DEF BuildStep, OpenFails, BeginCopy, NextChunk, ReadEnd, BufferFull, Read,
           Write, Interrupted, CopyFails, ChunkWritten, EndCopy, WriteStructure
  <1>2. ~ failed' => ~ failed
    BY DEF BuildStep, OpenFails, BeginCopy, NextChunk, ReadEnd, BufferFull, Read,
           Write, Interrupted, CopyFails, ChunkWritten, EndCopy, WriteStructure
  <1> QED
    BY <1>1, <1>2, SamePlan DEF Undisturbed, Coherent

LEMMA BuildInvStep ==
    ASSUME BuildInv, [Next]_vars
    PROVE  BuildInv'
  <1>1. CASE UNCHANGED <<builder, phase>>
    BY <1>1, ProgressSame DEF BuildInv, builder
  <1>2. CASE /\ UNCHANGED <<step, pos, copy, failed>>
             /\ phase \notin {"write", "success"} /\ phase' # "write"
    BY <1>2 DEF BuildInv, Fresh
  <1>3. CASE NextOption \/ ParseArguments \/ Find \/ ParseStep \/ ParseFails
                \/ OpenOutputFails
    BY <1>2, <1>3 DEF NextOption, ParseArguments, Find, ParseStep, ParseFails,
                      OpenOutputFails, builder
  <1>4. CASE LoaderParsed \/ PayloadParsed
    BY <1>2, <1>4 DEF LoaderParsed, PayloadParsed
  <1>5. CASE OpenOutput
    BY <1>5, FreshProgress DEF OpenOutput, BuildInv
  <1>6. CASE WriteBasic(BuildStep) \/ WriteBasic(OpenFails)
    <2>1. phase = "write" /\ phase' = phase /\ (BuildStep \/ OpenFails)
      BY <1>6 DEF WriteBasic, main
    <2>2. ASSUME Undisturbed' PROVE Progress'
      <3>1. Undisturbed /\ ~ OpenFails
        BY <2>1, <2>2, DisturbedStays DEF OpenFails, Undisturbed
      <3> QED
        BY <2>1, <2>2, <3>1, BuildStepProgress DEF BuildInv
    <2> QED
      BY <2>1, <2>2 DEF BuildInv
  <1>7. CASE Exit
    <2>1. phase = "write" /\ phase' = "success" /\ UNCHANGED builder
      BY <1>7 DEF Exit
    <2> QED
      BY <2>1, ProgressSame DEF BuildInv
  <1> QED
    BY <1>1, <1>3, <1>4, <1>5, <1>6, <1>7 DEF Next, Advance, vars, main

LEMMA BuildInvInit == Init => BuildInv
BY DEF Init, BuildInv, BuilderInit, Fresh

LEMMA BuildInvExact == BuildInv => ImageExact
  <1> SUFFICES ASSUME BuildInv, Sound
               PROVE  /\ Len(out) = basic.payload_offset + basic.payload_length
                      /\ \A p \in 0 .. Len(out) - 1 :
                            LET last == CHOOSE n \in DOMAIN Plan :
                                   /\ p \in Span(Plan[n])
                                   /\ \A m \in DOMAIN Plan :
                                         p \in Span(Plan[m]) => m <= n
                            IN  out[p + 1] = Byte(Plan[last].of,
                                     Plan[last].from + p - Plan[last].at)
    BY DEF ImageExact
  <1>1. step = 7 /\ Undisturbed /\ DOMAIN Plan = 1 .. 6
    BY PlanFacts DEF Sound, Finished, Undisturbed
  <1>2. Progress
    BY <1>1 DEF BuildInv, Fresh
  <1>3. \A n \in 1 .. 6 : Reach(n) = Plan[n].len
    BY <1>1 DEF Reach
  <1>4. \A n \in 1 .. 6 : Covered(n) = Span(Plan[n])
    BY <1>3 DEF Covered, Span
  <1>5. Len(out) = basic.payload_offset + basic.payload_length
    BY <1>2, <1>3, PlanFacts DEF Progress, LengthSoFar
  <1>6. ASSUME NEW p \in 0 .. Len(out) - 1
        PROVE  LET last == CHOOSE n \in 1 .. 6 :
                                   /\ p \in Span(Plan[n])
                                   /\ \A m \in 1 .. 6 :
                                         p \in Span(Plan[m]) => m <= n
               IN  out[p + 1] = Byte(Plan[last].of,
                                     Plan[last].from + p - Plan[last].at)
    <2> DEFINE Top(n) == /\ p \in Span(Plan[n])
                         /\ \A m \in 1 .. 6 : p \in Span(Plan[m]) => m <= n
               last == CHOOSE n \in 1 .. 6 : Top(n)
    <2>1. PICK n \in 1 .. 6 : Top(n) /\ out[p + 1] = Planned(n, p)
      BY <1>2, <1>4 DEF Progress, ImageSoFar
    <2>2. last \in 1 .. 6 /\ Top(last)
      BY <2>1
    <2>3. last <= n /\ n <= last
      BY <2>1, <2>2
    <2> HIDE DEF last
    <2>4. last = n
      BY <2>1, <2>2, <2>3
    <2>5. out[p + 1] = Byte(Plan[last].of, Plan[last].from + p - Plan[last].at)
      BY <2>1, <2>4 DEF Planned
    <2> QED
      BY <2>5 DEF last
  <1> QED
    BY <1>1, <1>5, <1>6

\* Whatever the schemes, however the system calls cut or interrupt the copies,
\* and whatever the size of the buffer: the image of a call of write_basic in
\* which no call has failed holds at every offset the byte of the last step that
\* covers it, and no other byte.
THEOREM ImageIsExact == Spec => []ImageExact
  <1> QED
    BY BuildInvInit, BuildInvExact, BuildInvStep, PTL DEF Spec

-----------------------------------------------------------------------------
(***************************************************************************)
(* The parsers: where the tags of a file are, and which of them the walk   *)
(* has recorded.                                                           *)
(***************************************************************************)
\* Each tag begins where the one before it ends, up to the next multiple.
LEMMA Offsets ==
    ASSUME NEW file, File(file)
    PROVE  LET Offset(k) == TagOffset(file.tags, HeaderSize, k)
           IN  /\ Offset(1) = HeaderSize
               /\ \A k \in 1 .. Len(file.tags) + 1 : Offset(k) \in Nat
               /\ \A k \in 1 .. Len(file.tags) :
                     Offset(k + 1) = Offset(k) + Padded(file.tags[k].size)
  <1> DEFINE n     == Len(file.tags)
             size  == [j \in DOMAIN file.tags |-> Padded(file.tags[j].size)]
             at    == Sums(HeaderSize, size, n)
  <1>1. n \in Nat /\ DOMAIN file.tags = 1 .. n
    BY LenProperties DEF File
  <1>2. ASSUME NEW j \in 1 .. n PROVE Padded(file.tags[j].size) \in Nat
    <2>1. file.tags[j].size \in Nat /\ Align \in Nat \ {0}
      BY <1>1, InputAssumption DEF File
    <2>2. file.tags[j].size + Align - 1 \in Nat
      BY <2>1
    <2>3. (file.tags[j].size + Align - 1) \div Align \in Nat
      BY <2>1, <2>2, Divided
    <2> QED
      BY <2>1, <2>3 DEF Padded
  <1>3. size \in [1 .. n -> Nat]
    BY <1>1, <1>2
  <1>4. HeaderSize \in Nat
    BY InputAssumption
  <1> HIDE DEF size, n
  <1>5. /\ at \in [1 .. n + 1 -> Nat]
        /\ at[1] = HeaderSize
        /\ \A j \in 1 .. n : at[j + 1] = at[j] + size[j]
    BY <1>1, <1>3, <1>4, RunningSum
  <1>6. \A k : TagOffset(file.tags, HeaderSize, k) = at[k]
    BY DEF TagOffset, Sums, size, n
  <1> HIDE DEF at
  <1>7. \A j \in 1 .. n : size[j] = Padded(file.tags[j].size)
    BY <1>1 DEF size
  <1> QED
    BY <1>1, <1>5, <1>6, <1>7 DEF n

\* The next multiple of a place and a size behind a multiple.
LEMMA NextTag ==
    ASSUME NEW at \in Nat, at % Align = 0, NEW size \in Nat
    PROVE  /\ Padded(size) \in Nat /\ Padded(size) >= size
           /\ Padded(at + size) = at + Padded(size)
           /\ (at + Padded(size)) % Align = 0
           /\ size = 0 => Padded(size) = 0
  <1>1. Align \in Nat \ {0}
    BY InputAssumption
  <1> QED
    BY <1>1, NextMultiple DEF Padded

-----------------------------------------------------------------------------
Offset(k) == TagOffset(input.tags, HeaderSize, k)

Tags == 1 .. Len(input.tags)

\* Whether a tag lies in the part of the header that header_length counts.
Fits(k) == /\ Offset(k) + TagSize <= input.length
           /\ Offset(k) + input.tags[k].size <= input.length

\* n is the last tag of a type in front of the k-th, 0 if there is none.
Latest(n, type, k) ==
    IF n = 0 THEN \A j \in 1 .. k - 1 : input.tags[j].type # type
    ELSE /\ n \in 1 .. k - 1 /\ input.tags[n].type = type
         /\ \A j \in 1 .. k - 1 : input.tags[j].type = type => j <= n

\* The walk stands at the k-th tag, has passed the ones in front of it,
Passed(k) ==
    /\ off = Offset(k) /\ off % Align = 0
    /\ \A j \in 1 .. k - 1 : Fits(j) /\ Offset(j) < off

\* and has recorded the last of either type, or stays where it is for ever.
Noted(k) == Latest(dest.hkaddr, "address", k) /\ Latest(dest.hentry, "entry", k)

Stuck(k) == k \in Tags /\ Fits(k) /\ input.tags[k].size = 0

Walked == \E k \in 1 .. Len(input.tags) + 1 : Passed(k) /\ (Noted(k) \/ Stuck(k))

\* The offsets of a payload's structures go with the tags.
Placed ==
    who = "payload" =>
    /\ dest.hkaddr # 0 => dest.hkaddr_offset = input.header + Offset(dest.hkaddr)
    /\ dest.hentry # 0 => dest.hentry_offset = input.header + Offset(dest.hentry)

Found == /\ Complete(input, who) /\ dest.hkaddr # 0 /\ dest.hentry # 0
         /\ dest.hkaddr = LastOfType(input, "address")
         /\ dest.hentry = LastOfType(input, "entry")
         /\ dest.hkaddr \in OfType(input, "address")
         /\ Placed

ParserTypes ==
    /\ input \in Inputs /\ who \in {"loader", "payload"} /\ off \in Nat
    /\ pc \in {"open", "mistral", "header", "walk", "parsed", "failed", "wild"}
    /\ dest \in [mistral_offset : Int, header_offset : Int, hkaddr : Nat, hentry : Nat,
                 load_offset : Int, hkaddr_offset : Int, hentry_offset : Int]

ParserInv ==
    /\ ParserTypes
    /\ pc = "mistral" => who = "loader"
    /\ pc \in {"open", "mistral", "header"} =>
          off = HeaderSize /\ dest.hkaddr = 0 /\ dest.hentry = 0
    /\ pc \in {"header", "walk"} /\ who = "loader" => input.mistral # -1
    /\ pc = "walk" => input.header # -1 /\ Placed /\ Walked
    /\ pc = "parsed" => Found

\* The file that is parsed, and the offsets of its tags.
LEMMA FileFacts ==
    ASSUME input \in Inputs
    PROVE  /\ Len(input.tags) \in Nat /\ DOMAIN input.tags = Tags
           /\ input.mistral \in Int /\ input.header \in Int /\ input.length \in Nat
           /\ Offset(1) = HeaderSize /\ HeaderSize \in Nat /\ HeaderSize % Align = 0
           /\ TagSize \in Nat \ {0}
           /\ \A k \in 1 .. Len(input.tags) + 1 : Offset(k) \in Nat
           /\ \A k \in Tags :
                 /\ input.tags[k].size \in Nat
                 /\ input.tags[k].type = "address" => input.tags[k].shift \in Int
                 /\ Offset(k + 1) = Offset(k) + Padded(input.tags[k].size)
           /\ \/ input.length < Offset(Len(input.tags) + 1) + TagSize
              \/ Len(input.tags) > 0 /\ input.tags[Len(input.tags)].size = 0
  <1>1. File(input)
    BY InputAssumption
  <1>2. Len(input.tags) \in Nat /\ DOMAIN input.tags = Tags
    BY <1>1, LenProperties DEF File, Tags
  <1>3. /\ input.mistral \in Int /\ input.header \in Int /\ input.length \in Nat
        /\ \A k \in Tags :
              /\ input.tags[k].size \in Nat
              /\ input.tags[k].type = "address" => input.tags[k].shift \in Int
    BY <1>1, <1>2 DEF File
  <1>4. \/ input.length < Offset(Len(input.tags) + 1) + TagSize
        \/ Len(input.tags) > 0 /\ input.tags[Len(input.tags)].size = 0
    BY <1>1 DEF File, Offset
  <1>5. /\ Offset(1) = HeaderSize
        /\ \A k \in 1 .. Len(input.tags) + 1 : Offset(k) \in Nat
        /\ \A k \in Tags : Offset(k + 1) = Offset(k) + Padded(input.tags[k].size)
    BY <1>1, Offsets DEF Offset, Tags
  <1>6. HeaderSize \in Nat /\ HeaderSize % Align = 0 /\ TagSize \in Nat \ {0}
    BY InputAssumption
  <1> QED
    BY <1>2, <1>3, <1>4, <1>5, <1>6

\* The tag that the walk reads is the one it stands at.
LEMMA HereIs ==
    ASSUME input \in Inputs, NEW k \in Tags, Passed(k)
    PROVE  Here = k /\ (Inside <=> Fits(k))
  <1>1. Len(input.tags) \in Nat /\ DOMAIN input.tags = Tags
    BY FileFacts
  <1> DEFINE At(n) == /\ Offset(n) = off
                      /\ \A j \in Tags : Offset(j) = off => n <= j
  <1>2. At(k)
    <2> SUFFICES ASSUME NEW j \in Tags, Offset(j) = off, ~ k <= j PROVE FALSE
      BY DEF Passed
    <2>1. j \in 1 .. k - 1
      BY <1>1 DEF Tags
    <2>2. Offset(j) < off /\ off \in Nat
      BY <2>1, FileFacts DEF Passed, Tags
    <2> QED
      BY <2>2
  <1>3. ASSUME NEW n \in Tags, At(n) PROVE n = k
    <2>1. n <= k /\ k <= n
      BY <1>2, <1>3 DEF Passed
    <2> QED
      BY <1>1, <2>1 DEF Tags
  <1>4. Here = CHOOSE n \in Tags : At(n)
    BY <1>1 DEF Here, TagNumber, Offset
  <1> HIDE DEF At
  <1>5. Here = k
    BY <1>2, <1>3, <1>4
  <1> QED
    BY <1>5 DEF Inside, Fits, Passed

\* Where the walk ends: it has passed all tags that lie whole in the header.
LEMMA WalkOver ==
    ASSUME input \in Inputs, Walked, ~ Inside
    PROVE  \E k \in 1 .. Len(input.tags) + 1 :
              Noted(k) /\ Whole(input) = 1 .. k - 1
  <1>1. PICK k \in 1 .. Len(input.tags) + 1 : Passed(k) /\ (Noted(k) \/ Stuck(k))
    BY DEF Walked
  <1>2. Len(input.tags) \in Nat /\ DOMAIN input.tags = Tags
    BY FileFacts
  <1>3. k \in Tags => ~ Fits(k)
    BY <1>1, HereIs
  <1>4. Noted(k)
    BY <1>1, <1>3 DEF Stuck
  <1>5. Whole(input) = {j \in Tags : \A i \in 1 .. j : Fits(i)}
    BY <1>2 DEF Whole, Fits, Offset
  <1>6. ASSUME NEW j \in 1 .. k - 1 PROVE j \in Whole(input)
    <2>1. j \in Tags /\ \A i \in 1 .. j : i \in 1 .. k - 1
      BY <1>2 DEF Tags
    <2> QED
      BY <1>1, <1>5, <2>1 DEF Passed
  <1>7. ASSUME NEW j \in Whole(input) PROVE j \in 1 .. k - 1
    <2>1. j \in Tags /\ \A i \in 1 .. j : Fits(i)
      BY <1>5
    <2>2. ~ k \in 1 .. j
      <3> SUFFICES ASSUME k \in 1 .. j PROVE FALSE
        OBVIOUS
      <3>1. k \in Tags
        BY <1>2, <2>1 DEF Tags
      <3> QED
        BY <1>3, <2>1, <3>1
    <2> QED
      BY <1>2, <2>1, <2>2 DEF Tags
  <1> QED
    BY <1>4, <1>6, <1>7

\* Of a type, it has recorded the last one.
LEMMA LastRecorded ==
    ASSUME input \in Inputs, NEW k \in 1 .. Len(input.tags) + 1,
           Whole(input) = 1 .. k - 1,
           NEW n \in Nat, NEW type, Latest(n, type, k)
    PROVE  /\ n = 0 <=> OfType(input, type) = {}
           /\ n # 0 => n = LastOfType(input, type) /\ n \in OfType(input, type)
  <1> DEFINE S == {j \in 1 .. k - 1 : input.tags[j].type = type}
  <1>1. OfType(input, type) = S
    BY DEF OfType
  <1>2. Len(input.tags) \in Nat
    BY FileFacts
  <1>3. n = 0 => S = {}
    BY DEF Latest
  <1>4. ASSUME n # 0 PROVE n \in S /\ \A j \in S : j <= n
    BY <1>4 DEF Latest
  <1>5. ASSUME n # 0 PROVE n = CHOOSE m \in S : \A j \in S : j <= m
    <2> DEFINE Top(m) == \A j \in S : j <= m
    <2>1. n \in S /\ Top(n)
      BY <1>4, <1>5
    <2>2. ASSUME NEW m \in S, Top(m) PROVE m = n
      <3>1. m <= n /\ n <= m /\ m \in Int
        BY <1>2, <2>1, <2>2
      <3> QED
        BY <3>1
    <2> HIDE DEF S, Top
    <2>3. n = CHOOSE m \in S : Top(m)
      BY <2>1, <2>2
    <2> QED
      BY <2>3 DEF Top
  <1> QED
    BY <1>1, <1>3, <1>4, <1>5 DEF LastOfType

LEMMA LatestNext ==
    ASSUME Len(input.tags) \in Nat, NEW k \in Tags, NEW type, NEW n \in Nat,
           Latest(n, type, k),
           NEW m, m = IF input.tags[k].type = type THEN k ELSE n
    PROVE  Latest(m, type, k + 1)
  <1>1. k \in Nat /\ k # 0 /\ (k + 1) - 1 = k
    BY DEF Tags
  <1>2. \A j \in 1 .. k : j = k \/ j \in 1 .. k - 1
    BY <1>1
  <1>3. CASE input.tags[k].type = type
    BY <1>1, <1>3 DEF Latest
  <1>4. CASE input.tags[k].type # type /\ n = 0
    BY <1>1, <1>2, <1>4 DEF Latest
  <1>5. CASE input.tags[k].type # type /\ n # 0
    <2>1. n \in 1 .. k /\ input.tags[n].type = type
      BY <1>1, <1>5 DEF Latest
    <2>2. \A j \in 1 .. k : input.tags[j].type = type => j <= n
      BY <1>2, <1>5 DEF Latest
    <2> QED
      BY <1>1, <1>5, <2>1, <2>2 DEF Latest
  <1> QED
    BY <1>3, <1>4, <1>5

\* The walk reads behind the last tag only where the header has ended.
LEMMA InsideTags ==
    ASSUME input \in Inputs, NEW k \in 1 .. Len(input.tags) + 1, Passed(k),
           Inside
    PROVE  k \in Tags
  <1> DEFINE n == Len(input.tags)
  <1>1. n \in Nat
    BY FileFacts
  <1> SUFFICES ASSUME k = n + 1 PROVE FALSE
    BY <1>1 DEF Tags
  <1>2. off = Offset(n + 1) /\ off + TagSize <= input.length
    BY DEF Passed, Inside
  <1>3. n > 0 /\ input.tags[n].size = 0
    <2>1. input.length < off + TagSize \/ (n > 0 /\ input.tags[n].size = 0)
      BY <1>2, FileFacts
    <2>2. input.length \in Nat /\ off \in Nat /\ TagSize \in Nat
      BY <1>1, <1>2, FileFacts
    <2> QED
      BY <1>2, <2>1, <2>2
  <1>4. n \in Tags /\ n \in 1 .. k - 1
    BY <1>1, <1>3 DEF Tags
  <1>5. Offset(n) < off
    BY <1>4 DEF Passed
  <1>6. Offset(n) \in Nat /\ Offset(n + 1) = Offset(n) + Padded(0)
    BY <1>1, <1>3, <1>4, FileFacts
  <1>7. Padded(0) = 0
    <2>1. HeaderSize \in Nat /\ HeaderSize % Align = 0
      BY FileFacts
    <2> QED
      BY <2>1, NextTag
  <1> QED
    BY <1>2, <1>5, <1>6, <1>7

\* One turn of the walk.
LEMMA WalkTagStep ==
    ASSUME ParserInv, WalkTag
    PROVE  ParserInv'
  <1>1. PICK k \in 1 .. Len(input.tags) + 1 : Passed(k) /\ (Noted(k) \/ Stuck(k))
    BY DEF WalkTag, ParserInv, Walked
  <1>2. input \in Inputs /\ Inside /\ pc = "walk"
    BY DEF WalkTag, ParserInv, ParserTypes
  <1>3. k \in Tags
    BY <1>1, <1>2, InsideTags
  <1>4. Here = k /\ Fits(k)
    BY <1>1, <1>2, <1>3, HereIs
  <1> DEFINE size == input.tags[k].size
             type == input.tags[k].type
  <1>5. UNCHANGED <<input, who>> /\ pc' = "walk" /\ off' = Padded(off + size)
    BY <1>4 DEF WalkTag, Size, Go
  <1>6. /\ k \in Nat \ {0} /\ Len(input.tags) \in Nat /\ size \in Nat
        /\ off = Offset(k) /\ off \in Nat /\ off % Align = 0
        /\ Offset(k + 1) = off + Padded(size)
    <2>1. Len(input.tags) \in Nat
      BY <1>2, FileFacts
    <2>2. size \in Nat /\ Offset(k + 1) = Offset(k) + Padded(size)
      BY <1>2, <1>3, FileFacts
    <2>3. Offset(k) \in Nat
      BY <1>1, <1>2, FileFacts
    <2>4. k \in Nat \ {0}
      BY <1>3, <2>1 DEF Tags
    <2> QED
      BY <1>1, <2>1, <2>2, <2>3, <2>4 DEF Passed
  <1>7. /\ off' = off + Padded(size) /\ off' % Align = 0 /\ off' \in Nat
        /\ Padded(size) \in Nat /\ Padded(size) >= size
        /\ size = 0 => Padded(size) = 0
    <2>1. /\ Padded(size) \in Nat /\ Padded(size) >= size
          /\ Padded(off + size) = off + Padded(size)
          /\ (off + Padded(size)) % Align = 0
          /\ size = 0 => Padded(size) = 0
      BY <1>6, NextTag
    <2> QED
      BY <1>5, <1>6, <2>1
  <1>8. /\ \A j : Offset(j)' = Offset(j)
        /\ \A j : Fits(j)' = Fits(j)
        /\ \A n, t, j : Latest(n, t, j)' = Latest(n, t, j)
        /\ Tags' = Tags
    BY <1>5 DEF Offset, Fits, Latest, Tags
  <1>9. /\ dest'.hkaddr = IF type = "address" THEN k ELSE dest.hkaddr
        /\ dest'.hentry = IF type = "entry" THEN k ELSE dest.hentry
        /\ dest' \in [mistral_offset : Int, header_offset : Int, hkaddr : Nat,
                      hentry : Nat, load_offset : Int, hkaddr_offset : Int,
                      hentry_offset : Int]
        /\ Placed'
    <2> DEFINE at == IF who = "payload" THEN input.header + off ELSE -1
    <2>1. dest' = CASE type = "address" -> [dest EXCEPT !.hkaddr = k, !.hkaddr_offset = at]
                    [] type = "entry" -> [dest EXCEPT !.hentry = k, !.hentry_offset = at]
                    [] OTHER -> dest
      BY <1>4 DEF WalkTag, Recorded, Unset
    <2>2. at \in Int /\ (who = "payload" => at = input.header + Offset(k))
      BY <1>2, <1>6, FileFacts
    <2>3. dest \in [mistral_offset : Int, header_offset : Int, hkaddr : Nat,
                    hentry : Nat, load_offset : Int, hkaddr_offset : Int,
                    hentry_offset : Int] /\ Placed
      BY <1>2 DEF ParserInv, ParserTypes
    <2> HIDE DEF at, type
    <2>4. CASE type = "address"
      <3>1. dest' = [dest EXCEPT !.hkaddr = k, !.hkaddr_offset = at]
        BY <2>1, <2>4
      <3> QED
        BY <1>5, <1>6, <1>8, <2>2, <2>3, <2>4, <3>1 DEF Placed
    <2>5. CASE type = "entry"
      <3>1. dest' = [dest EXCEPT !.hentry = k, !.hentry_offset = at]
        BY <2>1, <2>5
      <3> QED
        BY <1>5, <1>6, <1>8, <2>2, <2>3, <2>5, <3>1 DEF Placed
    <2>6. CASE type # "address" /\ type # "entry"
      <3>1. dest' = dest
        BY <2>1, <2>6
      <3> QED
        BY <1>5, <1>8, <2>3, <2>6, <3>1 DEF Placed
    <2> QED
      BY <2>4, <2>5, <2>6
  <1>10. Walked'
    <2>1. CASE size = 0
      <3>1. off' = off
        BY <1>6, <1>7, <2>1
      <3>2. Passed(k)' /\ Stuck(k)'
        <4>1. Passed(k)'
          BY <1>1, <1>7, <1>8, <3>1 DEF Passed
        <4>2. Stuck(k)'
          BY <1>3, <1>4, <1>5, <1>8, <2>1 DEF Stuck
        <4> QED
          BY <4>1, <4>2
      <3>3. k \in 1 .. Len(input'.tags) + 1
        BY <1>5
      <3> QED
        BY <3>2, <3>3 DEF Walked
    <2>2. CASE size # 0
      <3>1. off < off'
        BY <1>6, <1>7, <2>2
      <3>2. ASSUME NEW j \in 1 .. (k + 1) - 1 PROVE Fits(j) /\ Offset(j) < off'
        <4>1. CASE j = k
          BY <1>4, <1>6, <3>1, <4>1
        <4>2. CASE j # k
          <5>1. j \in 1 .. k - 1 /\ j \in 1 .. Len(input.tags) + 1
            BY <1>6, <4>2
          <5>2. Fits(j) /\ Offset(j) < off
            BY <1>1, <5>1 DEF Passed
          <5>3. Offset(j) \in Nat
            BY <1>2, <5>1, FileFacts
          <5> QED
            BY <1>6, <1>7, <3>1, <5>2, <5>3
        <4> QED
          BY <4>1, <4>2
      <3>3. Passed(k + 1)'
        BY <1>6, <1>7, <1>8, <3>2 DEF Passed
      <3>4. Noted(k)
        BY <1>1, <2>2 DEF Stuck
      <3>5. dest.hkaddr \in Nat /\ dest.hentry \in Nat
        BY DEF ParserInv, ParserTypes
      <3>6. Latest(dest'.hkaddr, "address", k + 1)
        BY <1>3, <1>6, <1>9, <3>4, <3>5, LatestNext DEF Noted
      <3>7. Latest(dest'.hentry, "entry", k + 1)
        BY <1>3, <1>6, <1>9, <3>4, <3>5, LatestNext DEF Noted
      <3>8. Noted(k + 1)'
        BY <1>5, <3>6, <3>7 DEF Noted, Latest
      <3>9. k + 1 \in 1 .. Len(input'.tags) + 1
        BY <1>3, <1>5, <1>6 DEF Tags
      <3> QED
        BY <3>3, <3>8, <3>9 DEF Walked
    <2> QED
      BY <2>1, <2>2
  <1>11. ParserTypes'
    BY <1>5, <1>7, <1>9 DEF ParserInv, ParserTypes
  <1> QED
    BY <1>2, <1>5, <1>9, <1>10, <1>11 DEF ParserInv

\* When the walk is over it has what it needs exactly if the file has.
LEMMA WalkDecides ==
    ASSUME ParserInv, pc = "walk", ~ Inside
    PROVE  /\ Complete(input, who) <=> dest.hkaddr # 0 /\ dest.hentry # 0
           /\ dest.hkaddr # 0 /\ dest.hentry # 0 => Found
  <1>1. PICK k \in 1 .. Len(input.tags) + 1 :
                Noted(k) /\ Whole(input) = 1 .. k - 1
    BY WalkOver DEF ParserInv, ParserTypes
  <1>2. input \in Inputs /\ dest.hkaddr \in Nat /\ dest.hentry \in Nat
    BY DEF ParserInv, ParserTypes
  <1>3. /\ dest.hkaddr = 0 <=> OfType(input, "address") = {}
        /\ dest.hkaddr # 0 => /\ dest.hkaddr = LastOfType(input, "address")
                              /\ dest.hkaddr \in OfType(input, "address")
    BY <1>1, <1>2, LastRecorded DEF Noted
  <1>4. /\ dest.hentry = 0 <=> OfType(input, "entry") = {}
        /\ dest.hentry # 0 => dest.hentry = LastOfType(input, "entry")
    BY <1>1, <1>2, LastRecorded DEF Noted
  <1>5. input.header # -1 /\ (who = "loader" => input.mistral # -1) /\ Placed
    BY DEF ParserInv
  <1> QED
    BY <1>3, <1>4, <1>5 DEF Complete, Found

LEMMA EndWalkStep ==
    ASSUME ParserInv, EndWalk
    PROVE  ParserInv'
  <1>1. pc = "walk" /\ ~ Inside /\ UNCHANGED <<input, who, off>>
    BY DEF EndWalk, Go
  <1>2. ParserTypes
    BY DEF ParserInv
  <1>3. CASE dest.hkaddr # 0 /\ dest.hentry # 0
    <2> DEFINE load == input.header + input.tags[dest.hkaddr].shift
    <2>1. pc' = "parsed" /\ dest' = [dest EXCEPT !.load_offset = load]
      BY <1>3 DEF EndWalk, Go
    <2>2. Found
      BY <1>1, <1>3, WalkDecides
    <2>3. load \in Int
      <3>1. dest.hkaddr \in OfType(input, "address")
        <4>1. PICK k \in 1 .. Len(input.tags) + 1 :
                      Noted(k) /\ Whole(input) = 1 .. k - 1
          BY <1>1, WalkOver DEF ParserInv, ParserTypes
        <4> QED
          BY <1>3, <4>1 DEF Noted, Latest, OfType
      <3>2. dest.hkaddr \in Tags /\ input.tags[dest.hkaddr].type = "address"
        BY <1>2, <3>1, FileFacts DEF OfType, Whole, ParserTypes
      <3> QED
        BY <1>2, <3>2, FileFacts DEF ParserTypes
    <2> HIDE DEF load
    <2>4. /\ dest'.hkaddr = dest.hkaddr /\ dest'.hentry = dest.hentry
          /\ dest'.hkaddr_offset = dest.hkaddr_offset
          /\ dest'.hentry_offset = dest.hentry_offset
          /\ dest' \in [mistral_offset : Int, header_offset : Int, hkaddr : Nat,
                        hentry : Nat, load_offset : Int, hkaddr_offset : Int,
                        hentry_offset : Int]
      BY <1>2, <2>1, <2>3 DEF ParserTypes
    <2>5. Found'
      BY <1>1, <2>2, <2>4 DEF Found, Placed, Offset
    <2>6. ParserTypes'
      BY <1>1, <1>2, <2>1, <2>4 DEF ParserTypes
    <2> QED
      BY <2>1, <2>5, <2>6 DEF ParserInv
  <1>4. CASE ~ (dest.hkaddr # 0 /\ dest.hentry # 0)
    <2>1. pc' = "failed" /\ dest' = dest
      BY <1>4 DEF EndWalk, Go
    <2> QED
      BY <1>1, <1>2, <2>1 DEF ParserInv, ParserTypes
  <1> QED
    BY <1>3, <1>4

\* A parser that has just been called.
LEMMA ParserCalled ==
    ASSUME input \in Inputs, who \in {"loader", "payload"}, pc = "open",
           off = HeaderSize, dest = Unread
    PROVE  ParserInv
  <1>1. HeaderSize \in Nat
    BY InputAssumption
  <1> QED
    BY <1>1 DEF ParserInv, ParserTypes, Unread, Unset

\* The walk begins at the first tag.
LEMMA Multiboot2LseekStep ==
    ASSUME ParserInv, Multiboot2Lseek
    PROVE  ParserInv'
  <1>1. /\ pc = "header" /\ pc' = "walk" /\ input.header # -1
        /\ UNCHANGED <<input, who, off>>
        /\ dest' = [dest EXCEPT !.header_offset = input.header]
    BY DEF Multiboot2Lseek, Go
  <1>2. ParserTypes /\ off = HeaderSize /\ dest.hkaddr = 0 /\ dest.hentry = 0
    BY <1>1 DEF ParserInv
  <1>3. /\ Len(input.tags) \in Nat /\ input.header \in Int
        /\ Offset(1) = HeaderSize /\ HeaderSize % Align = 0
    BY <1>2, FileFacts DEF ParserTypes
  <1>4. /\ dest'.hkaddr = 0 /\ dest'.hentry = 0
        /\ dest' \in [mistral_offset : Int, header_offset : Int, hkaddr : Nat,
                      hentry : Nat, load_offset : Int, hkaddr_offset : Int,
                      hentry_offset : Int]
    BY <1>1, <1>2, <1>3 DEF ParserTypes
  <1>5. ParserTypes'
    BY <1>1, <1>2, <1>4 DEF ParserTypes
  <1>6. Passed(1)' /\ Noted(1)'
    BY <1>1, <1>2, <1>3, <1>4 DEF Passed, Noted, Latest, Offset
  <1>7. Walked' /\ Placed'
    <2>1. 1 \in 1 .. Len(input'.tags) + 1
      BY <1>1, <1>3
    <2> QED
      BY <1>4, <1>6, <2>1 DEF Walked, Placed
  <1> QED
    BY <1>1, <1>5, <1>7 DEF ParserInv

\* Every step of a parser keeps its invariant.
LEMMA ParserInvStep ==
    ASSUME ParserInv, ParserNext
    PROVE  ParserInv'
  <1>1. CASE Open
    BY <1>1 DEF Open, Go, ParserInv, ParserTypes
  <1>2. CASE MistralLseek
    <2>1. /\ pc' = "header" /\ input.mistral # -1 /\ pc = "mistral"
          /\ UNCHANGED <<input, who, off>>
          /\ dest' = [dest EXCEPT !.mistral_offset = input.mistral]
      BY <1>2 DEF MistralLseek, Go
    <2>2. ParserTypes /\ input.mistral \in Int
      BY FileFacts DEF ParserInv, ParserTypes
    <2>3. /\ dest'.hkaddr = dest.hkaddr /\ dest'.hentry = dest.hentry
          /\ dest' \in [mistral_offset : Int, header_offset : Int, hkaddr : Nat,
                        hentry : Nat, load_offset : Int, hkaddr_offset : Int,
                        hentry_offset : Int]
      BY <2>1, <2>2 DEF ParserTypes
    <2> QED
      BY <2>1, <2>2, <2>3 DEF ParserInv, ParserTypes
  <1>3. CASE Multiboot2Lseek
    BY <1>3, Multiboot2LseekStep
  <1>4. CASE WalkTag
    BY <1>4, WalkTagStep
  <1>5. CASE EndWalk
    BY <1>5, EndWalkStep
  <1>6. CASE LengthUnset \/ Refuse \/ Fail
    BY <1>6 DEF LengthUnset, Refuse, Fail, Go, ParserInv, ParserTypes
  <1> QED
    BY <1>1, <1>2, <1>3, <1>4, <1>5, <1>6 DEF ParserNext

LEMMA ParserInvStill == ParserInv /\ UNCHANGED parser => ParserInv'
BY DEF parser, ParserInv, ParserTypes, Placed, Walked, Found, Passed, Noted, Stuck,
       Latest, Fits, Offset, Tags

\* For files of any size and any number of tags, of which header_length may cut
\* any part: a parser accepts a file exactly when it is complete, and its scheme
\* then describes the last address and the last entry of the header, where the
\* file has them.
THEOREM SchemeIsRight == ParserSpec => []SchemeRight
  <1>1. ParserInit => ParserInv
    BY ParserCalled DEF ParserInit
  <1>2. ParserInv /\ [ParserNext]_parser => ParserInv'
    BY ParserInvStep, ParserInvStill DEF parser
  <1>3. ParserInv => SchemeRight
    <2>1. ParserInv /\ pc = "parsed" => Found
      BY DEF ParserInv
    <2>2. ParserInv /\ pc = "walk" /\ ~ Inside /\ Complete(input, who)
          => dest.hkaddr # 0 /\ dest.hentry # 0
      BY WalkDecides
    <2>3. Found /\ who = "payload" =>
             /\ dest.hkaddr # 0 => dest.hkaddr_offset = input.header + Offset(dest.hkaddr)
             /\ dest.hentry # 0 => dest.hentry_offset = input.header + Offset(dest.hentry)
      BY DEF Found, Placed
    <2> QED
      BY <2>1, <2>2, <2>3 DEF Found, Offset, SchemeRight
  <1> QED
    BY <1>1, <1>2, <1>3, PTL DEF ParserSpec

-----------------------------------------------------------------------------
(***************************************************************************)
(* The exit of mistral: what the options read so far, the loader that has  *)
(* been found and the parser say about the command line and the files.     *)
(***************************************************************************)
Given(name, r) == \E i \in 1 .. r : machine.options[i].name = name

\* The options that have been read are those in front of the r-th.
Marks(r) ==
    /\ args.output # None <=> Given("o", r)
    /\ args.print_schemes <=> Given("s", r)
    /\ args.vaddr.set     <=> Given("a", r)
    /\ args.path.set      <=> Given("C", r)

OptionsRead(r) ==
    /\ r \in 0 .. Len(machine.options)
    /\ options \in Seq({machine.options[k] : k \in DOMAIN machine.options})
    /\ Len(options) = Len(machine.options) - r
    /\ \A j \in 1 .. Len(options) : options[j] = machine.options[r + j]
    /\ Proper(r) /\ \A k \in 1 .. r : ~ Asks(k)
    /\ Marks(r)

ReadAll ==
    /\ Proper(Len(machine.options)) /\ \A k \in DOMAIN machine.options : ~ Asks(k)
    /\ machine.operand # None

ArgsTypes ==
    /\ args = [print_schemes |-> args.print_schemes, vaddr |-> args.vaddr,
               output |-> args.output, path |-> args.path]
    /\ args.path.set => IsSequence(args.path.dirs)

\* A parser has failed only if it was refused a file or the file lacks something.
Parsing ==
    /\ ParserInv
    /\ pc = "failed" => denied \/ ~ Complete(input, who)

MainInv ==
    /\ machine \in Machines /\ ArgsTypes
    /\ phase \in {"options", "find", "loader", "payload", "open", "write",
                  "success", "failure"}
    /\ phase = "options" => \E r \in Nat : OptionsRead(r)
    /\ phase \in {"find", "loader", "payload"} => ReadAll
    /\ phase \in {"loader", "payload"} => FindLoader # 0 /\ Parsing
    /\ phase = "loader" => who = "loader" /\ input = machine.disk[Path[FindLoader]]
    /\ phase = "payload" =>
          /\ who = "payload" /\ input = machine.disk[machine.operand]
          /\ Complete(machine.disk[Path[FindLoader]], "loader")
    /\ phase \in {"open", "write"} => Works
    /\ ExitRight

\* A command line, and the first of its directories with a loader.
LEMMA MachineFacts ==
    ASSUME machine \in Machines
    PROVE  /\ Len(machine.options) \in Nat
           /\ DOMAIN machine.options = 1 .. Len(machine.options)
           /\ machine.options \in Seq({machine.options[k] : k \in DOMAIN machine.options})
           /\ \A k \in DOMAIN machine.options :
                 /\ machine.options[k].name = "C" => IsSequence(machine.options[k].arg)
                 /\ machine.options[k].name = "o" => machine.options[k].arg # None
           /\ \A name \in DOMAIN machine.disk : machine.disk[name] \in Inputs
           /\ machine.operand # None => machine.operand \in DOMAIN machine.disk
           /\ machine.loaders \subseteq DOMAIN machine.disk
  <1> DEFINE o == machine.options
             n == Len(o)
  <1>1. /\ n \in Nat /\ o = [k \in 1 .. n |-> o[k]]
        /\ \A k \in DOMAIN o :
              /\ o[k].name = "C" => IsSequence(o[k].arg)
              /\ o[k].name = "o" => o[k].arg # None
        /\ machine.operand \in DOMAIN machine.disk \union {None}
        /\ machine.loaders \subseteq DOMAIN machine.disk
    BY MachineAssumption DEF IsSequence
  <1>2. \A name \in DOMAIN machine.disk : machine.disk[name] \in Inputs
    BY MachineAssumption
  <1> HIDE DEF n
  <1>3. DOMAIN o = 1 .. n
    BY <1>1
  <1>4. o \in Seq({o[k] : k \in DOMAIN o})
    BY <1>1, <1>3, IsASeq
  <1> QED
    BY <1>1, <1>2, <1>3, <1>4 DEF n

LEMMA FirstLoader ==
    ASSUME ArgsTypes
    PROVE  IF FindLoader = 0 THEN \A k \in DOMAIN Path : Path[k] \notin machine.loaders
           ELSE /\ FindLoader \in DOMAIN Path /\ Path[FindLoader] \in machine.loaders
                /\ \A j \in 1 .. FindLoader - 1 : Path[j] \notin machine.loaders
  <1>1. Len(Path) \in Nat /\ DOMAIN Path = 1 .. Len(Path)
    <2>1. IsSequence(Path)
      BY MachineAssumption DEF ArgsTypes, Path
    <2> QED
      BY <2>1 DEF IsSequence
  <1> DEFINE I == {i \in 1 .. Len(Path) : Path[i] \in machine.loaders}
             least == CHOOSE i \in I : \A j \in I : i <= j
  <1>2. FindLoader = IF I # {} THEN least ELSE 0
    BY DEF FindLoader, SelectInSeq, Min
  <1>3. CASE I = {}
    BY <1>1, <1>2, <1>3
  <1>4. CASE I # {}
    <2>1. I \in SUBSET Nat
      BY <1>1
    <2>2. \E i \in I : \A j \in I : i <= j
      <3> HIDE DEF I
      <3> QED
        BY <1>4, <2>1, LeastElement
    <2>3. least \in I /\ \A j \in I : least <= j
      BY <2>2
    <2>4. FindLoader = least
      BY <1>2, <1>4
    <2>5. FindLoader \in 1 .. Len(Path) /\ Path[FindLoader] \in machine.loaders
      BY <2>3, <2>4
    <2>6. ASSUME NEW j \in 1 .. FindLoader - 1 PROVE j \notin I
      <3>1. ~ least <= j
        BY <1>1, <2>4, <2>5
      <3> QED
        BY <2>3, <3>1
    <2> QED
      BY <1>1, <2>5, <2>6
  <1> QED
    BY <1>3, <1>4

\* An order of options that is wrong so far is wrong.
LEMMA ProperPrefix ==
    ASSUME NEW k \in Nat, NEW j \in 0 .. k, Proper(k)
    PROVE  Proper(j)
  <1>1. \A i \in 1 .. j : i \in 1 .. k
    OBVIOUS
  <1> QED
    BY <1>1 DEF Proper

\* When all options have been read, mistral works exactly if there is a loader
\* and both files are complete.
LEMMA WorksThen ==
    ASSUME machine \in Machines, ArgsTypes, ReadAll
    PROVE  /\ ~ Informs
           /\ Works <=> /\ FindLoader # 0
                        /\ Complete(machine.disk[Path[FindLoader]], "loader")
                        /\ Complete(machine.disk[machine.operand], "payload")
  <1> DEFINE First(k) == /\ Path[k] \in machine.loaders
                         /\ \A j \in 1 .. k - 1 : Path[j] \notin machine.loaders
  <1>1. ~ Informs
    BY DEF ReadAll, Informs
  <1>2. Works <=> /\ \E k \in DOMAIN Path :
                        First(k) /\ Complete(machine.disk[Path[k]], "loader")
                  /\ Complete(machine.disk[machine.operand], "payload")
    BY DEF ReadAll, Works
  <1>3. FindLoader # 0 => FindLoader \in DOMAIN Path /\ First(FindLoader)
    BY FirstLoader
  <1>4. ASSUME NEW k \in DOMAIN Path, First(k) PROVE FindLoader # 0 /\ k = FindLoader
    <2>1. FindLoader # 0 /\ FindLoader \in DOMAIN Path /\ First(FindLoader)
      BY <1>4, FirstLoader
    <2>2. DOMAIN Path = 1 .. Len(Path) /\ Len(Path) \in Nat
      <3>1. IsSequence(Path)
        BY MachineAssumption DEF ArgsTypes, Path
      <3> QED
        BY <3>1 DEF IsSequence
    <2>3. ~ k < FindLoader
      <3> SUFFICES ASSUME k < FindLoader PROVE FALSE
        OBVIOUS
      <3>1. k \in 1 .. FindLoader - 1
        BY <2>1, <2>2
      <3> QED
        BY <1>4, <2>1, <3>1
    <2>4. ~ FindLoader < k
      <3> SUFFICES ASSUME FindLoader < k PROVE FALSE
        OBVIOUS
      <3>1. FindLoader \in 1 .. k - 1
        BY <2>1, <2>2
      <3> QED
        BY <1>4, <2>1, <3>1
    <2> QED
      BY <2>1, <2>2, <2>3, <2>4
  <1> HIDE DEF First
  <1> QED
    BY <1>1, <1>2, <1>3, <1>4

LEMMA SameMachine ==
    ASSUME UNCHANGED <<machine, args>>
    PROVE  /\ Informs' <=> Informs
           /\ Works' <=> Works
           /\ ReadAll' <=> ReadAll
           /\ ArgsTypes' <=> ArgsTypes
           /\ Path' = Path /\ FindLoader' = FindLoader
  <1>1. Path' = Path
    BY DEF Path
  <1>2. FindLoader' = FindLoader
    BY <1>1 DEF FindLoader, SelectInSeq, Min
  <1>3. /\ \A k : Proper(k)' <=> Proper(k)
        /\ \A k : Asks(k)' <=> Asks(k)
    BY DEF Proper, Asks
  <1>4. (Informs' <=> Informs) /\ (ReadAll' <=> ReadAll)
    BY <1>3 DEF Informs, ReadAll
  <1>5. Works' <=> Works
    BY <1>1, <1>3 DEF Works
  <1>6. ArgsTypes' <=> ArgsTypes
    BY DEF ArgsTypes
  <1> QED
    BY <1>1, <1>2, <1>4, <1>5, <1>6

LEMMA GivenNext ==
    ASSUME NEW r \in Nat, NEW name
    PROVE  Given(name, r + 1) <=> Given(name, r) \/ machine.options[r + 1].name = name
  <1>1. \A i : i \in 1 .. r + 1 <=> i \in 1 .. r \/ i = r + 1
    OBVIOUS
  <1> QED
    BY <1>1 DEF Given

\* What one option does to struct args.
LEMMA EffectMarks ==
    ASSUME machine \in Machines, ArgsTypes, NEW r \in Nat, Marks(r),
           r + 1 \in DOMAIN machine.options,
           args' = Effect(machine.options[r + 1]), machine' = machine
    PROVE  ArgsTypes' /\ Marks(r + 1)'
  <1> DEFINE o == machine.options[r + 1]
  <1>1. /\ o.name = "C" => IsSequence(o.arg)
        /\ o.name = "o" => o.arg # None
    BY MachineFacts
  <1>2. \A name : Given(name, r + 1)' <=> Given(name, r + 1)
    BY DEF Given
  <1>3. \A name : Given(name, r + 1) <=> Given(name, r) \/ o.name = name
    BY GivenNext
  <1> HIDE DEF o
  <1>4. args' = Effect(o)
    BY DEF o
  <1>5. CASE o.name = "o"
    <2>1. args' = [args EXCEPT !.output = o.arg]
      BY <1>4, <1>5 DEF Effect
    <2>2. /\ args'.output = o.arg /\ args'.print_schemes = args.print_schemes
          /\ args'.vaddr = args.vaddr /\ args'.path = args.path
          /\ args' = [print_schemes |-> args'.print_schemes, vaddr |-> args'.vaddr,
                      output |-> args'.output, path |-> args'.path]
      BY <2>1 DEF ArgsTypes
    <2> QED
      BY <1>1, <1>2, <1>3, <1>5, <2>2 DEF ArgsTypes, Marks
  <1>6. CASE o.name = "s"
    <2>1. args' = [args EXCEPT !.print_schemes = TRUE]
      BY <1>4, <1>6 DEF Effect
    <2>2. /\ args'.output = args.output /\ args'.print_schemes = TRUE
          /\ args'.vaddr = args.vaddr /\ args'.path = args.path
          /\ args' = [print_schemes |-> args'.print_schemes, vaddr |-> args'.vaddr,
                      output |-> args'.output, path |-> args'.path]
      BY <2>1 DEF ArgsTypes
    <2> QED
      BY <1>1, <1>2, <1>3, <1>6, <2>2 DEF ArgsTypes, Marks
  <1>7. CASE o.name = "a"
    <2> DEFINE new == [set |-> TRUE, addr |-> o.arg]
    <2>1. args' = [args EXCEPT !.vaddr = new]
      BY <1>4, <1>7 DEF Effect
    <2>2. new.set = TRUE /\ new.addr = o.arg
      OBVIOUS
    <2> HIDE DEF new
    <2>3. /\ args'.output = args.output
          /\ args'.print_schemes = args.print_schemes
          /\ args'.path = args.path /\ args'.vaddr = new
          /\ args' = [print_schemes |-> args'.print_schemes, vaddr |-> args'.vaddr,
                      output |-> args'.output, path |-> args'.path]
      BY <2>1 DEF ArgsTypes
    <2> QED
      BY <1>1, <1>2, <1>3, <1>7, <2>2, <2>3 DEF ArgsTypes, Marks
  <1>8. CASE o.name = "C"
    <2> DEFINE new == [set |-> TRUE, dirs |-> o.arg]
    <2>1. args' = [args EXCEPT !.path = new]
      BY <1>4, <1>8 DEF Effect
    <2>2. new.set = TRUE /\ new.dirs = o.arg
      OBVIOUS
    <2> HIDE DEF new
    <2>3. /\ args'.output = args.output
          /\ args'.print_schemes = args.print_schemes
          /\ args'.vaddr = args.vaddr /\ args'.path = new
          /\ args' = [print_schemes |-> args'.print_schemes, vaddr |-> args'.vaddr,
                      output |-> args'.output, path |-> args'.path]
      BY <2>1 DEF ArgsTypes
    <2> QED
      BY <1>1, <1>2, <1>3, <1>8, <2>2, <2>3 DEF ArgsTypes, Marks
  <1>9. CASE o.name \notin {"o", "s", "a", "C"}
    <2>1. args' = args
      BY <1>4, <1>9 DEF Effect
    <2> QED
      BY <1>2, <1>3, <1>9, <2>1 DEF ArgsTypes, Marks
  <1> QED
    BY <1>5, <1>6, <1>7, <1>8, <1>9

\* An option is refused exactly if it is the first that is not in order.
LEMMA BadMeans ==
    ASSUME NEW r \in Nat, Marks(r), Proper(r)
    PROVE  Proper(r + 1) <=> ~ Bad(machine.options[r + 1])
  <1> DEFINE o == machine.options[r + 1]
  <1>1. Used(o) <=> o.name \in {"o", "s", "a", "C"} /\ Given(o.name, r)
    BY DEF Used, Marks
  <1>2. \A i : i \in 1 .. r + 1 <=> i \in 1 .. r \/ i = r + 1
    OBVIOUS
  <1>3. \A i \in 1 .. r : i < r + 1 /\ ~ r + 1 < i
    OBVIOUS
  <1>4. ~ r + 1 < r + 1
    OBVIOUS
  <1> DEFINE Twice(k) == \A i, j \in 1 .. k :
                            i < j /\ machine.options[i].name = machine.options[j].name
                            => machine.options[i].name \notin {"o", "s", "a", "C"}
             Numeric(k) == \A i \in 1 .. k : machine.options[i].name = "a"
                                            => machine.options[i].arg # Malformed
  <1>5. \A k : Proper(k) <=> Twice(k) /\ Numeric(k)
    BY DEF Proper
  <1>6. Twice(r + 1) <=> ~ Used(o)
    <2>1. Twice(r)
      BY <1>5
    <2>2. Used(o) => ~ Twice(r + 1)
      <3> SUFFICES ASSUME Used(o), Twice(r + 1) PROVE FALSE
        OBVIOUS
      <3>1. PICK i \in 1 .. r : machine.options[i].name = o.name
        BY <1>1 DEF Given
      <3>2. i \in 1 .. r + 1 /\ r + 1 \in 1 .. r + 1 /\ i < r + 1
        BY <1>2, <1>3
      <3> QED
        BY <1>1, <3>1, <3>2
    <2>3. ASSUME ~ Used(o), NEW i \in 1 .. r + 1, NEW j \in 1 .. r + 1, i < j,
                 machine.options[i].name = machine.options[j].name
          PROVE  machine.options[i].name \notin {"o", "s", "a", "C"}
      <3>1. i \in 1 .. r
        BY <2>3
      <3>2. CASE j \in 1 .. r
        BY <2>1, <2>3, <3>1, <3>2
      <3>3. CASE j = r + 1
        BY <1>1, <2>3, <3>1, <3>3 DEF Given
      <3> QED
        BY <1>2, <3>2, <3>3
    <2> QED
      BY <2>2, <2>3
  <1>7. Numeric(r + 1) <=> ~ (o.name = "a" /\ o.arg = Malformed)
    <2>1. Numeric(r)
      BY <1>5
    <2> QED
      BY <1>2, <2>1
  <1> HIDE DEF Twice, Numeric, o
  <1> QED
    BY <1>5, <1>6, <1>7 DEF Bad, o

LEMMA ParsingStep ==
    ASSUME Parsing, ParserNext, denied' = (denied \/ Fail)
    PROVE  Parsing' /\ UNCHANGED <<input, who>>
  <1>1. ParserInv'
    BY ParserInvStep DEF Parsing
  <1>2. UNCHANGED <<input, who>>
    BY DEF ParserNext, Open, MistralLseek, Multiboot2Lseek, LengthUnset,
           WalkTag, EndWalk, Refuse, Fail, Go
  <1>3. ASSUME pc' = "failed" PROVE denied' \/ ~ Complete(input, who)
    <2>1. CASE Open \/ MistralLseek \/ Multiboot2Lseek
               \/ LengthUnset \/ WalkTag
      BY <1>3, <2>1 DEF Open, MistralLseek, Multiboot2Lseek, LengthUnset,
             WalkTag, Go
    <2>2. CASE EndWalk
      <3>1. pc = "walk" /\ ~ Inside /\ ~ (dest.hkaddr # 0 /\ dest.hentry # 0)
        BY <1>3, <2>2 DEF EndWalk, Go
      <3> QED
        BY <3>1, WalkDecides DEF Parsing
    <2>3. CASE Refuse
      BY <2>3 DEF Refuse, NoHeader, Complete, Parsing, ParserInv
    <2>4. CASE Fail
      BY <2>4
    <2> QED
      BY <2>1, <2>2, <2>3, <2>4 DEF ParserNext
  <1> QED
    BY <1>1, <1>2, <1>3 DEF Parsing

LEMMA ParsingStill == Parsing /\ UNCHANGED <<parser, denied>> => Parsing'
BY ParserInvStill DEF Parsing, parser

\* A parser is called for a file of the disk.
LEMMA ParsingBegins ==
    ASSUME machine \in Machines, NEW file \in DOMAIN machine.disk,
           NEW reader \in {"loader", "payload"}, Parse(file, reader)
    PROVE  Parsing' /\ input' = machine.disk[file] /\ who' = reader
  <1>1. machine.disk[file] \in Inputs
    BY MachineFacts
  <1>2. /\ input' = machine.disk[file] /\ who' = reader /\ pc' = "open"
        /\ off' = HeaderSize /\ dest' = Unread
    BY DEF Parse
  <1>3. HeaderSize \in Nat
    BY InputAssumption
  <1> QED
    BY <1>1, <1>2, <1>3 DEF Parsing, ParserInv, ParserTypes, Unread, Unset

\* The options that remain begin with the next one.
LEMMA NextRead ==
    ASSUME machine \in Machines, NEW r \in Nat, OptionsRead(r), options # <<>>
    PROVE  /\ r + 1 \in DOMAIN machine.options /\ r + 1 \in 1 .. Len(machine.options)
           /\ Head(options) = machine.options[r + 1]
           /\ Tail(options) \in Seq({machine.options[k] : k \in DOMAIN machine.options})
           /\ Len(Tail(options)) = Len(machine.options) - (r + 1)
           /\ \A j \in 1 .. Len(Tail(options)) :
                 Tail(options)[j] = machine.options[r + 1 + j]
  <1> DEFINE S == {machine.options[k] : k \in DOMAIN machine.options}
             n == Len(machine.options)
  <1>1. /\ options \in Seq(S) /\ Len(options) = n - r /\ r \in 0 .. n
        /\ \A j \in 1 .. Len(options) : options[j] = machine.options[r + j]
    BY DEF OptionsRead
  <1>2. n \in Nat /\ DOMAIN machine.options = 1 .. n
    BY MachineFacts
  <1> HIDE DEF S, n
  <1>3. Len(options) \in Nat /\ Len(options) # 0
    BY <1>1, EmptySeq, LenProperties
  <1>4. /\ Head(options) = options[1]
        /\ Tail(options) \in Seq(S)
        /\ Len(Tail(options)) = Len(options) - 1
        /\ \A j \in 1 .. Len(options) - 1 : Tail(options)[j] = options[j + 1]
    BY <1>1, HeadTailProperties
  <1>5. ASSUME NEW j \in 1 .. Len(Tail(options))
        PROVE  Tail(options)[j] = machine.options[r + 1 + j]
    <2>1. j \in 1 .. Len(options) - 1 /\ j + 1 \in 1 .. Len(options)
          /\ r + (j + 1) = r + 1 + j
      BY <1>1, <1>3, <1>4
    <2> QED
      BY <1>1, <1>4, <2>1
  <1>6. r + 1 \in 1 .. n /\ Len(Tail(options)) = n - (r + 1) /\ 1 \in 1 .. Len(options)
    BY <1>1, <1>2, <1>3, <1>4
  <1> QED
    BY <1>1, <1>2, <1>4, <1>5, <1>6 DEF S, n

LEMMA NextOptionStep ==
    ASSUME MainInv, NextOption
    PROVE  MainInv'
  <1> DEFINE o == Head(options)
             n == Len(machine.options)
  <1>1. /\ options # <<>> /\ options' = Tail(options) /\ args' = Effect(o)
        /\ phase' = CASE o.name \in {"h", "V"} -> "success"
                      [] o.name \notin {"h", "V"} /\ Bad(o) -> "failure"
                      [] OTHER -> "options"
        /\ machine' = machine
    BY DEF NextOption
  <1>2. machine \in Machines /\ ArgsTypes
    BY DEF MainInv
  <1>3. PICK r \in Nat : OptionsRead(r)
    BY DEF MainInv, NextOption
  <1>4. Proper(r) /\ Marks(r) /\ \A k \in 1 .. r : ~ Asks(k)
    BY <1>3 DEF OptionsRead
  <1>5. /\ r + 1 \in DOMAIN machine.options /\ r + 1 \in 1 .. n
        /\ o = machine.options[r + 1]
        /\ Tail(options) \in Seq({machine.options[k] : k \in DOMAIN machine.options})
        /\ Len(Tail(options)) = n - (r + 1)
        /\ \A j \in 1 .. Len(Tail(options)) :
                 Tail(options)[j] = machine.options[r + 1 + j]
    BY <1>1, <1>2, <1>3, NextRead
  <1>6. n \in Nat /\ DOMAIN machine.options = 1 .. n
    BY <1>2, MachineFacts
  <1> HIDE DEF o, n
  <1>7. ArgsTypes' /\ Marks(r + 1)'
    BY <1>1, <1>2, <1>4, <1>5, EffectMarks
  <1>8. Proper(r + 1) <=> ~ Bad(o)
    BY <1>4, <1>5, BadMeans
  <1>9. Asks(r + 1) <=> o.name \in {"h", "V"}
    BY <1>5 DEF Asks
  <1>10. /\ Informs' <=> Informs
         /\ \A k : Proper(k)' <=> Proper(k)
         /\ \A k : Asks(k)' <=> Asks(k)
    <2>1. /\ \A k : Proper(k)' <=> Proper(k)
          /\ \A k : Asks(k)' <=> Asks(k)
      BY <1>1 DEF Proper, Asks
    <2> QED
      BY <1>1, <2>1 DEF Informs
  <1>11. CASE o.name \in {"h", "V"}
    <2>1. Informs
      <3>1. (r + 1) - 1 = r
        OBVIOUS
      <3> QED
        BY <1>4, <1>5, <1>9, <1>11, <3>1 DEF Informs
    <2>2. phase' = "success"
      BY <1>1, <1>11
    <2> QED
      BY <1>1, <1>2, <1>7, <1>10, <2>1, <2>2 DEF MainInv, ExitRight
  <1>12. CASE o.name \notin {"h", "V"} /\ Bad(o)
    <2>1. phase' = "failure"
      BY <1>1, <1>12
    <2>2. ~ Proper(n)
      BY <1>5, <1>6, <1>8, <1>12, ProperPrefix
    <2>3. ~ Informs
      <3> SUFFICES ASSUME NEW k \in 1 .. n, Asks(k), Proper(k - 1) PROVE FALSE
        BY <1>6 DEF Informs
      <3>1. ~ k \in 1 .. r /\ k # r + 1
        BY <1>4, <1>9, <1>12
      <3>2. k - 1 \in Nat /\ r + 1 \in 0 .. k - 1
        BY <1>6, <3>1
      <3> QED
        BY <1>8, <1>12, <3>2, ProperPrefix
    <2>4. Works' => Proper(n)
      BY <1>1 DEF Works, Proper, n
    <2> QED
      BY <1>1, <1>2, <1>7, <1>10, <2>1, <2>2, <2>3, <2>4 DEF MainInv, ExitRight
  <1>13. CASE o.name \notin {"h", "V"} /\ ~ Bad(o)
    <2>1. phase' = "options"
      BY <1>1, <1>13
    <2>2. \A k \in 1 .. r + 1 : ~ Asks(k)
      <3>1. \A k \in 1 .. r + 1 : k \in 1 .. r \/ k = r + 1
        OBVIOUS
      <3> QED
        BY <1>4, <1>9, <1>13, <3>1
    <2>3. r + 1 \in Nat /\ r + 1 \in 0 .. n
      BY <1>5, <1>6
    <2>4. OptionsRead(r + 1)'
      BY <1>1, <1>5, <1>7, <1>8, <1>10, <1>13, <2>2, <2>3 DEF OptionsRead, n
    <2> QED
      BY <1>1, <1>2, <1>7, <2>1, <2>3, <2>4 DEF MainInv, ExitRight
  <1> QED
    BY <1>11, <1>12, <1>13

LEMMA ParseStepStep ==
    ASSUME MainInv, ParseStep
    PROVE  MainInv'
  <1>1. /\ phase \in {"loader", "payload"} /\ ParserNext
        /\ denied' = (denied \/ Fail)
        /\ UNCHANGED <<machine, args, phase>>
    BY DEF ParseStep
  <1>2. Parsing' /\ UNCHANGED <<input, who>>
    BY <1>1, ParsingStep DEF MainInv
  <1> QED
    BY <1>1, <1>2, SameMachine DEF MainInv, ExitRight

LEMMA FindStep ==
    ASSUME MainInv, Find
    PROVE  MainInv'
  <1>1. phase = "find" /\ UNCHANGED <<machine, args, denied>>
    BY DEF Find
  <1>2. machine \in Machines /\ ArgsTypes /\ ReadAll
    BY <1>1 DEF MainInv
  <1>3. CASE FindLoader = 0
    <2>1. phase' = "failure"
      BY <1>3 DEF Find
    <2>2. ~ Informs /\ ~ Works
      BY <1>2, <1>3, WorksThen
    <2> QED
      BY <1>1, <1>2, <2>1, <2>2, SameMachine DEF MainInv, ExitRight
  <1>4. CASE FindLoader # 0
    <2>1. phase' = "loader" /\ Parse(Path[FindLoader], "loader")
      BY <1>4 DEF Find
    <2>2. Path[FindLoader] \in DOMAIN machine.disk
      BY <1>2, <1>4, FirstLoader, MachineFacts
    <2>3. Parsing' /\ input' = machine.disk[Path[FindLoader]] /\ who' = "loader"
      BY <1>2, <2>1, <2>2, ParsingBegins
    <2> QED
      BY <1>1, <1>2, <1>4, <2>1, <2>3, SameMachine DEF MainInv, ExitRight
  <1> QED
    BY <1>3, <1>4

LEMMA ParseFailsStep ==
    ASSUME MainInv, ParseFails
    PROVE  MainInv'
  <1>1. /\ phase \in {"loader", "payload"} /\ pc = "failed" /\ phase' = "failure"
        /\ UNCHANGED <<machine, args, denied>>
    BY DEF ParseFails
  <1>2. machine \in Machines /\ ArgsTypes /\ ReadAll
    BY <1>1 DEF MainInv
  <1>3. denied \/ ~ Works
    <2>1. denied \/ ~ Complete(input, who)
      BY <1>1 DEF MainInv, Parsing
    <2>2. Works => /\ Complete(machine.disk[Path[FindLoader]], "loader")
                   /\ Complete(machine.disk[machine.operand], "payload")
      BY <1>2, WorksThen
    <2> QED
      BY <1>1, <2>1, <2>2 DEF MainInv
  <1>4. ~ Informs
    BY <1>2, WorksThen
  <1> QED
    BY <1>1, <1>2, <1>3, <1>4, SameMachine DEF MainInv, ExitRight

LEMMA LoaderParsedStep ==
    ASSUME MainInv, LoaderParsed
    PROVE  MainInv'
  <1>1. /\ phase = "loader" /\ pc = "parsed" /\ phase' = "payload"
        /\ Parse(machine.operand, "payload")
        /\ UNCHANGED <<machine, args, denied>>
    BY DEF LoaderParsed
  <1>2. machine \in Machines /\ ArgsTypes /\ ReadAll /\ FindLoader # 0
    BY <1>1 DEF MainInv
  <1>3. machine.operand \in DOMAIN machine.disk
    BY <1>2, MachineFacts DEF ReadAll
  <1>4. Parsing' /\ input' = machine.disk[machine.operand] /\ who' = "payload"
    BY <1>1, <1>2, <1>3, ParsingBegins
  <1>5. Complete(machine.disk[Path[FindLoader]], "loader")
    BY <1>1 DEF MainInv, Parsing, ParserInv, Found
  <1> QED
    BY <1>1, <1>2, <1>4, <1>5, SameMachine DEF MainInv, ExitRight

LEMMA PayloadParsedStep ==
    ASSUME MainInv, PayloadParsed
    PROVE  MainInv'
  <1>1. /\ phase = "payload" /\ pc = "parsed" /\ phase' = "open"
        /\ UNCHANGED <<machine, args, denied>>
    BY DEF PayloadParsed, parser
  <1>2. machine \in Machines /\ ArgsTypes /\ ReadAll /\ FindLoader # 0
    BY <1>1 DEF MainInv
  <1>3. /\ Complete(machine.disk[machine.operand], "payload")
        /\ Complete(machine.disk[Path[FindLoader]], "loader")
    BY <1>1 DEF MainInv, Parsing, ParserInv, Found
  <1>4. Works
    BY <1>2, <1>3, WorksThen
  <1> QED
    BY <1>1, <1>2, <1>4, SameMachine DEF MainInv, ExitRight

LEMMA MainInvStep == MainInv /\ [Next]_vars => MainInv'
  <1> SUFFICES ASSUME MainInv, [Next]_vars PROVE MainInv'
    OBVIOUS
  <1>1. CASE NextOption
    BY <1>1, NextOptionStep
  <1>2. CASE ParseArguments
    <2>1. phase = "options" /\ options = <<>> /\ UNCHANGED <<machine, args, denied>>
      BY <1>2 DEF ParseArguments
    <2>2. machine \in Machines /\ ArgsTypes
      BY DEF MainInv
    <2>3. PICK r \in Nat : OptionsRead(r)
      BY <2>1 DEF MainInv
    <2>4. Proper(Len(machine.options)) /\ \A k \in DOMAIN machine.options : ~ Asks(k)
      <3>1. Len(options) = 0 /\ Len(machine.options) \in Nat
        BY <2>1, <2>2, MachineFacts
      <3>2. r = Len(machine.options)
        BY <2>3, <3>1 DEF OptionsRead
      <3> QED
        BY <2>2, <2>3, <3>2, MachineFacts DEF OptionsRead
    <2>5. CASE machine.operand = None
      <3>1. phase' = "failure" /\ ~ Works /\ ~ Informs
        BY <1>2, <2>4, <2>5 DEF ParseArguments, Works, Informs
      <3> QED
        BY <2>1, <2>2, <3>1, SameMachine DEF MainInv, ExitRight
    <2>6. CASE machine.operand # None
      <3>1. phase' = "find" /\ ReadAll
        BY <1>2, <2>4, <2>6 DEF ParseArguments, ReadAll
      <3> QED
        BY <2>1, <2>2, <3>1, SameMachine DEF MainInv, ExitRight
    <2> QED
      BY <2>5, <2>6
  <1>3. CASE Find
    BY <1>3, FindStep
  <1>4. CASE ParseStep
    BY <1>4, ParseStepStep
  <1>5. CASE ParseFails
    BY <1>5, ParseFailsStep
  <1>6. CASE LoaderParsed
    BY <1>6, LoaderParsedStep
  <1>7. CASE PayloadParsed
    BY <1>7, PayloadParsedStep
  <1>8. CASE OpenOutput
    <2>1. phase = "open" /\ phase' = "write" /\ UNCHANGED <<machine, args>>
      BY <1>8 DEF OpenOutput
    <2> QED
      BY <2>1, SameMachine DEF MainInv, ExitRight
  <1>9. CASE OpenOutputFails
    <2>1. /\ phase = "open" /\ phase' = "failure" /\ denied' = TRUE
          /\ UNCHANGED <<machine, args>>
      BY <1>9 DEF OpenOutputFails
    <2> QED
      BY <2>1, SameMachine DEF MainInv, ExitRight
  <1>10. CASE WriteBasic(BuildStep) \/ WriteBasic(OpenFails)
    <2>1. phase = "write" /\ phase' = "write" /\ UNCHANGED <<machine, args>>
      BY <1>10 DEF WriteBasic, main
    <2> QED
      BY <2>1, SameMachine DEF MainInv, ExitRight
  <1>11. CASE Exit
    <2>1. phase = "write" /\ phase' = "success" /\ UNCHANGED <<machine, args>>
      BY <1>11 DEF Exit
    <2> QED
      BY <2>1, SameMachine DEF MainInv, ExitRight
  <1>12. CASE UNCHANGED vars
    <2>1. /\ UNCHANGED <<parser, denied>> /\ UNCHANGED <<machine, args>>
          /\ UNCHANGED <<options, phase, input, who, pc>>
      BY <1>12 DEF vars, main, parser
    <2>2. Parsing => Parsing'
      BY <2>1, ParsingStill
    <2>3. \A r \in Nat : OptionsRead(r) => OptionsRead(r)'
      BY <2>1 DEF OptionsRead, Marks, Given, Proper, Asks
    <2> QED
      BY <2>1, <2>2, <2>3, SameMachine DEF MainInv, ExitRight
  <1> QED
    BY <1>1, <1>2, <1>3, <1>4, <1>5, <1>6, <1>7, <1>8, <1>9, <1>10, <1>11,
       <1>12 DEF Next, Advance

LEMMA MainInvInit == Init => MainInv
  <1> SUFFICES ASSUME Init PROVE MainInv
    OBVIOUS
  <1>1. machine \in Machines /\ options = machine.options /\ phase = "options"
    BY DEF Init
  <1>2. ArgsTypes /\ Marks(0)
    <2>1. /\ args = [print_schemes |-> FALSE, vaddr |-> [set |-> FALSE, addr |-> 0],
                     output |-> None, path |-> [set |-> FALSE, dirs |-> <<>>]]
      BY DEF Init
    <2>2. \A name : ~ Given(name, 0)
      BY DEF Given
    <2> QED
      BY <2>1, <2>2 DEF ArgsTypes, Marks
  <1>3. Len(machine.options) \in Nat /\ DOMAIN machine.options = 1 .. Len(machine.options)
    BY <1>1, MachineFacts
  <1>4. OptionsRead(0)
    <2>1. options \in Seq({machine.options[k] : k \in DOMAIN machine.options})
      BY <1>1, MachineFacts
    <2>2. Proper(0) /\ \A k \in 1 .. 0 : ~ Asks(k)
      BY DEF Proper
    <2> QED
      BY <1>1, <1>2, <1>3, <2>1, <2>2 DEF OptionsRead
  <1> QED
    BY <1>1, <1>2, <1>4 DEF MainInv, ExitRight

\* For all command lines, paths and files: mistral exits with success only when
\* it has been asked about itself or had all that an image takes, and with
\* failure only when it had not, or was refused a file.
THEOREM ExitIsRight == Spec => []ExitRight
  <1>1. MainInv => ExitRight
    BY DEF MainInv
  <1> QED
    BY <1>1, MainInvInit, MainInvStep, PTL DEF Spec
-----------------------------------------------------------------------------
(***************************************************************************)
(* Where the bootloader finds the payload: the scheme of the loader says   *)
(* truly which byte of its file is loaded at its load address.             *)
(***************************************************************************)
\* The offsets that a parser has recorded.
OffsetsRead ==
    /\ pc \in {"walk", "parsed"} => dest.header_offset = input.header
    /\ pc = "parsed" =>
          dest.load_offset = input.header + input.tags[dest.hkaddr].shift

LoaderRead ==
    /\ loader.header_offset \in Int
    /\ loader.hkaddr \in Hkaddrs
    /\ loader.load_offset = loader.header_offset + loader.hkaddr.load_addr
                                                 - loader.hkaddr.header_addr

LoadInv ==
    /\ phase \in {"loader", "payload"} => OffsetsRead
    /\ phase \in {"options", "find", "loader", "payload", "open"} => DOMAIN pair = Files
    /\ phase \in {"payload", "open", "write"} => LoaderRead
    /\ phase = "success" /\ step # 1 => LoaderRead

LEMMA OffsetsReadStep ==
    ASSUME ParserInv, OffsetsRead, ParserNext
    PROVE  OffsetsRead'
  <1>1. DOMAIN dest = {"mistral_offset", "header_offset", "hkaddr", "hentry",
                       "load_offset", "hkaddr_offset", "hentry_offset"}
    BY DEF ParserInv, ParserTypes
  <1>2. UNCHANGED input
    BY DEF ParserNext, Open, MistralLseek, Multiboot2Lseek, LengthUnset, WalkTag,
           EndWalk, Refuse, Fail, Go
  <1>3. CASE Open \/ MistralLseek \/ LengthUnset \/ Refuse \/ Fail
    <2>1. pc' \notin {"walk", "parsed"}
      BY <1>3 DEF Open, MistralLseek, LengthUnset, Refuse, Fail, Go
    <2> QED
      BY <2>1 DEF OffsetsRead
  <1>4. CASE Multiboot2Lseek
    BY <1>1, <1>2, <1>4 DEF Multiboot2Lseek, OffsetsRead, Go
  <1>5. CASE WalkTag
    <2>1. pc = "walk" /\ pc' = "walk" /\ dest' = Recorded
      BY <1>5 DEF WalkTag, Go
    <2>2. Recorded.header_offset = dest.header_offset
      BY <1>1 DEF Recorded
    <2> QED
      BY <1>2, <2>1, <2>2 DEF OffsetsRead
  <1>6. CASE EndWalk
    <2>1. pc = "walk"
      BY <1>6 DEF EndWalk
    <2>2. CASE dest.hkaddr # 0 /\ dest.hentry # 0
      <3>1. dest' = [dest EXCEPT !.load_offset =
                        input.header + input.tags[dest.hkaddr].shift]
        BY <1>6, <2>2 DEF EndWalk
      <3> QED
        BY <1>1, <1>2, <2>1, <3>1 DEF OffsetsRead
    <2>3. CASE ~ (dest.hkaddr # 0 /\ dest.hentry # 0)
      <3>1. pc' = "failed"
        BY <1>6, <2>3 DEF EndWalk, Go
      <3> QED
        BY <3>1 DEF OffsetsRead
    <2> QED
      BY <2>2, <2>3
  <1> QED
    BY <1>3, <1>4, <1>5, <1>6 DEF ParserNext

\* The scheme of a loader that has been parsed.
LEMMA LoaderSchemeRead ==
    ASSUME MainInv, LoadInv, LoaderParsed
    PROVE  LoaderRead'
  <1>1. phase = "loader" /\ pc = "parsed" /\ pair' = [pair EXCEPT !.loader = Scheme(Path[FindLoader])]
    BY DEF LoaderParsed
  <1> DEFINE scheme == Scheme(Path[FindLoader])
             address == input.tags[dest.hkaddr]
  <1>2. /\ machine \in Machines /\ ArgsTypes /\ FindLoader # 0 /\ ParserInv
        /\ input = machine.disk[Path[FindLoader]] /\ OffsetsRead /\ DOMAIN pair = Files
    BY <1>1 DEF MainInv, Parsing, LoadInv
  <1>3. Found /\ ParserTypes
    BY <1>1, <1>2 DEF ParserInv
  <1>4. dest.hkaddr \in DOMAIN input.tags /\ address.type = "address"
    BY <1>3 DEF Found, OfType, Whole
  <1>5. /\ address.fields \in Hkaddrs
        /\ address.shift = address.fields.load_addr - address.fields.header_addr
    <2>1. Path[FindLoader] \in DOMAIN machine.disk
      BY <1>2, FirstLoader, MachineFacts
    <2> QED
      BY <1>2, <1>4, <2>1, MachineAssumption
  <1>6. /\ scheme.hkaddr = address.fields
        /\ scheme.header_offset = dest.header_offset
        /\ scheme.load_offset = dest.load_offset
    BY DEF Scheme
  <1>7. loader' = scheme
    BY <1>1, <1>2 DEF loader, Files
  <1>8. /\ dest.header_offset = input.header /\ input.header \in Int
        /\ dest.load_offset = input.header + address.shift
    BY <1>1, <1>2, <1>3, FileFacts DEF OffsetsRead, ParserTypes
  <1>9. address.fields.load_addr \in Int /\ address.fields.header_addr \in Int
    BY <1>5, WordAssumption DEF Hkaddrs
  <1> HIDE DEF scheme, address
  <1> QED
    BY <1>5, <1>6, <1>7, <1>8, <1>9 DEF LoaderRead

LEMMA LoadInvStep ==
    ASSUME BuildInv, MainInv, LoadInv, [Next]_vars
    PROVE  LoadInv'
  <1>1. LoaderRead /\ UNCHANGED pair => LoaderRead'
    BY DEF LoaderRead, loader
  <1>2. CASE NextOption
    <2>1. phase = "options" /\ UNCHANGED <<pair, step>> /\ phase' \in {"options", "success", "failure"}
      BY <1>2 DEF NextOption, builder
    <2>2. step = 1
      BY <2>1 DEF BuildInv, Fresh
    <2> QED
      BY <2>1, <2>2 DEF LoadInv
  <1>3. CASE ParseArguments
    <2>1. phase = "options" /\ UNCHANGED <<pair, step>> /\ phase' \in {"find", "failure"}
      BY <1>3 DEF ParseArguments, builder
    <2> QED
      BY <2>1 DEF LoadInv
  <1>4. CASE Find
    <2>1. phase = "find" /\ UNCHANGED <<pair, step>> /\ phase' \in {"loader", "failure"}
      BY <1>4 DEF Find, builder
    <2>2. phase' = "loader" => pc' = "open"
      BY <1>4 DEF Find, Parse
    <2> QED
      BY <2>1, <2>2 DEF LoadInv, OffsetsRead
  <1>5. CASE ParseStep
    <2>1. /\ phase \in {"loader", "payload"} /\ ParserNext
          /\ UNCHANGED <<pair, step, phase>>
      BY <1>5 DEF ParseStep, builder
    <2>2. OffsetsRead'
      BY <2>1, OffsetsReadStep DEF LoadInv, MainInv, Parsing
    <2> QED
      BY <1>1, <2>1, <2>2 DEF LoadInv
  <1>6. CASE ParseFails
    BY <1>6 DEF ParseFails, LoadInv
  <1>7. CASE LoaderParsed
    <2>1. phase = "loader" /\ phase' = "payload" /\ pc' = "open"
      BY <1>7 DEF LoaderParsed, Parse
    <2>2. LoaderRead'
      BY <1>7, LoaderSchemeRead
    <2>3. DOMAIN pair' = DOMAIN pair
      BY <1>7 DEF LoaderParsed
    <2> QED
      BY <2>1, <2>2, <2>3 DEF LoadInv, OffsetsRead
  <1>8. CASE PayloadParsed
    <2>1. phase = "payload" /\ phase' = "open"
      BY <1>8 DEF PayloadParsed
    <2>2. DOMAIN pair' = DOMAIN pair /\ loader' = loader
      BY <1>8 DEF PayloadParsed, loader
    <2> QED
      BY <2>1, <2>2 DEF LoadInv, LoaderRead
  <1>9. CASE OpenOutput
    <2>1. phase = "open" /\ phase' = "write" /\ loader' = loader
      BY <1>9 DEF OpenOutput, loader
    <2> QED
      BY <2>1 DEF LoadInv, LoaderRead
  <1>10. CASE OpenOutputFails
    BY <1>10 DEF OpenOutputFails, LoadInv
  <1>11. CASE WriteBasic(BuildStep) \/ WriteBasic(OpenFails)
    <2>1. phase = "write" /\ phase' = "write"
      BY <1>11 DEF WriteBasic, main
    <2>2. UNCHANGED pair
      BY <1>11 DEF WriteBasic, BuildStep, OpenFails, BeginCopy, NextChunk, ReadEnd,
             BufferFull, Read, Write, Interrupted, CopyFails, ChunkWritten, EndCopy,
             WriteStructure
    <2> QED
      BY <1>1, <2>1, <2>2 DEF LoadInv
  <1>12. CASE Exit
    <2>1. phase = "write" /\ phase' = "success" /\ UNCHANGED pair
      BY <1>12 DEF Exit, builder
    <2> QED
      BY <1>1, <2>1 DEF LoadInv
  <1>13. CASE UNCHANGED vars
    BY <1>1, <1>13 DEF vars, main, parser, builder, LoadInv, OffsetsRead
  <1> QED
    BY <1>2, <1>3, <1>4, <1>5, <1>6, <1>7, <1>8, <1>9, <1>10, <1>11, <1>12,
       <1>13 DEF Next, Advance

\* Aligning a stack that has a page left above it.
LEMMA StackAligned ==
    ASSUME NEW a \in Nat, PageSize \in Nat \ {0}, Word \in Nat \ {0}, a + PageSize <= Word
    PROVE  /\ LoaderStackAlign(a) \in Nat /\ a <= LoaderStackAlign(a)
           /\ LoaderStackAlign(a) % PageSize = 0
  <1> DEFINE r == a % PageSize
  <1>1. /\ r \in 0 .. PageSize - 1 /\ a - r \in Nat
        /\ (a - r + PageSize) % PageSize = 0
    BY Rounded
  <1>2. CASE r = 0
    BY <1>2 DEF LoaderStackAlign
  <1>3. CASE r # 0
    <2>1. LoaderStackAlign(a) = (a - r + PageSize) % Word
      BY <1>3 DEF LoaderStackAlign, Wrap, AlignDown
    <2> HIDE DEF r
    <2>2. a - r + PageSize \in 0 .. Word - 1
      BY <1>1, <1>3
    <2>3. (a - r + PageSize) % Word = a - r + PageSize
      BY <2>2, Small
    <2> QED
      BY <1>1, <2>1, <2>2, <2>3
  <1> QED
    BY <1>2, <1>3

\* For all command lines, files, read and write faults: when nothing has gone
\* wrong and what is written over the loader stays in it, a bootloader that loads
\* the image as its new address tag asks puts every byte of the payload where the
\* mistral header tells the loader, and the stack has a page of its own behind it,
\* inside of what the bootloader clears.
THEOREM PayloadIsFound == Spec => []PayloadFound
  <1>1. Init => BuildInv /\ MainInv /\ LoadInv
    <2>1. Init => LoadInv
      BY DEF Init, LoadInv, Files
    <2> QED
      BY <2>1, BuildInvInit, MainInvInit
  <1>2. BuildInv /\ MainInv /\ LoadInv /\ [Next]_vars
        => BuildInv' /\ MainInv' /\ LoadInv'
    BY BuildInvStep, MainInvStep, LoadInvStep
  <1>3. BuildInv /\ MainInv /\ LoadInv => PayloadFound
    <2> DEFINE layout == InitializeMemoryLayout(payload, loader)
               head   == MistralHeader(payload, loader, pair.vaddr)
               size   == PayloadSizeOf(payload)
               hkaddr == loader.hkaddr
               end    == hkaddr.load_end_addr
    <2> SUFFICES ASSUME BuildInv, MainInv, LoadInv, Sound, Fitting
                 PROVE  /\ \A k \in 0 .. size - 1 :
                              Loaded(head.payload_addr + k)
                                  = Byte("payload", payload.load_offset + k)
                        /\ head.payload_addr + size <= head.stack_addr - PageSize
                        /\ head.stack_addr <= layout.hkaddr.bss_end_addr
                        /\ head.stack_addr % PageSize = 0
      BY DEF PayloadFound
    <2>1. LoaderRead
      <3>1. step = 7
        BY DEF Sound, Finished
      <3>2. phase \in {"write", "success"}
        BY <3>1 DEF BuildInv, Fresh
      <3> QED
        BY <3>1, <3>2 DEF LoadInv
    <2>2. /\ hkaddr \in Hkaddrs /\ size \in Nat
          /\ Word \in Nat \ {0} /\ PageSize \in Nat \ {0}
          /\ end \in Nat /\ end + size + 2 * PageSize <= Word
          /\ hkaddr.load_addr \in Int /\ hkaddr.header_addr \in Int
      <3>1. Word \in Nat \ {0} /\ PageSize \in Nat \ {0}
        BY WordAssumption, BuilderAssumption
      <3>2. /\ hkaddr.load_addr \in 0 .. Word - 1 /\ hkaddr.header_addr \in 0 .. Word - 1
            /\ end \in 0 .. Word - 1 /\ hkaddr \in Hkaddrs
        BY <2>1 DEF LoaderRead, Hkaddrs
      <3>3. size \in Nat
        BY PlanFacts DEF Sound, Coherent, basic, InitializeFileLayout
      <3>4. end + size + 2 * PageSize <= Word
        BY DEF Fitting
      <3> HIDE DEF size, end, hkaddr
      <3> QED
        BY <3>1, <3>2, <3>3, <3>4
    <2>3. /\ head.payload_addr = end
          /\ head.stack_addr = LoaderStackAlign(Wrap(Wrap(end + size) + PageSize))
          /\ layout.hkaddr.bss_end_addr = head.stack_addr
      BY <2>2 DEF MistralHeader, InitializeMemoryLayout, Hkaddrs
    <2>4. /\ Wrap(Wrap(end + size) + PageSize) = end + size + PageSize
          /\ end + size + PageSize \in Nat /\ end + size + PageSize + PageSize <= Word
      <3> HIDE DEF end, size
      <3>1. Wrap(end + size) = end + size
        BY <2>2, Small DEF Wrap
      <3>2. Wrap(end + size + PageSize) = end + size + PageSize
        BY <2>2, Small DEF Wrap
      <3> QED
        BY <2>2, <3>1, <3>2
    <2>5. /\ head.stack_addr \in Nat /\ end + size + PageSize <= head.stack_addr
          /\ head.stack_addr % PageSize = 0
      BY <2>2, <2>3, <2>4, StackAligned
    <2>6. ASSUME NEW k \in 0 .. size - 1
          PROVE  Loaded(end + k) = Byte("payload", payload.load_offset + k)
      <3> DEFINE p == basic.payload_offset + k
      <3>1. /\ basic.payload_offset \in Nat /\ basic.payload_offset = end - hkaddr.load_addr
            /\ basic.payload_length = size
            /\ basic.header_offset = hkaddr.header_addr - hkaddr.load_addr
        <4>1. basic.payload_offset \in Nat
          BY PlanFacts DEF Sound, Coherent
        <4>2. /\ basic.payload_offset = end - hkaddr.load_addr
              /\ basic.payload_length = size
              /\ basic.header_offset = loader.header_offset - loader.load_offset
          BY DEF basic, InitializeFileLayout
        <4>3. loader.header_offset - loader.load_offset
                 = hkaddr.header_addr - hkaddr.load_addr
          <5> DEFINE h == loader.header_offset
          <5>1. h \in Int /\ loader.load_offset = h + hkaddr.load_addr - hkaddr.header_addr
            BY <2>1 DEF LoaderRead
          <5> HIDE DEF h, hkaddr
          <5> QED
            BY <2>2, <5>1 DEF h
        <4> QED
          BY <4>1, <4>2, <4>3
      <3>2. p \in Nat /\ 1 + basic.header_offset + (end + k) - hkaddr.header_addr = p + 1
        <4> HIDE DEF size, end, hkaddr
        <4> QED
          BY <2>2, <3>1
      <3>3. Loaded(end + k) = out[p + 1]
        BY <3>2 DEF Loaded
      <3>4. /\ Len(out) = basic.payload_offset + basic.payload_length
            /\ p \in 0 .. Len(out) - 1
        <4>1. Len(out) = basic.payload_offset + basic.payload_length
          BY BuildInvExact DEF ImageExact
        <4> HIDE DEF size
        <4> QED
          BY <2>2, <3>1, <3>2, <4>1
      <3>5. p \in Span(Plan[2])
        <4>1. Plan[2].at = basic.payload_offset /\ Plan[2].len = size
          BY <3>1, PlanFacts
        <4> HIDE DEF size
        <4> QED
          BY <2>2, <3>1, <3>2, <4>1 DEF Span
      <3>6. ASSUME NEW n \in 3 .. 6 PROVE p \notin Span(Plan[n])
        <4>1. /\ Plan[n].at \in Nat /\ Plan[n].len \in Nat
              /\ Plan[n].at + Plan[n].len <= basic.payload_offset
          BY PlanFacts DEF Fitting, Sound, Coherent
        <4> HIDE DEF size
        <4> QED
          BY <2>2, <3>1, <4>1 DEF Span
      <3>7. out[p + 1] = Byte(Plan[2].of, Plan[2].from + p - Plan[2].at)
        <4> DEFINE Top(n) == /\ p \in Span(Plan[n])
                             /\ \A m \in DOMAIN Plan : p \in Span(Plan[m]) => m <= n
                   last == CHOOSE n \in DOMAIN Plan : Top(n)
        <4>1. DOMAIN Plan = 1 .. 6
          BY PlanFacts
        <4>2. Top(2)
          <5> HIDE DEF p
          <5> QED
            BY <3>5, <3>6, <4>1
        <4>3. ASSUME NEW n \in DOMAIN Plan, Top(n) PROVE n = 2
          <5>1. 2 <= n
            BY <3>5, <4>1, <4>3
          <5>2. n \notin 3 .. 6
            BY <3>6, <4>3
          <5> QED
            BY <4>1, <5>1, <5>2
        <4>4. out[p + 1] = Byte(Plan[last].of, Plan[last].from + p - Plan[last].at)
          BY <3>4, BuildInvExact DEF ImageExact
        <4> HIDE DEF Top, last
        <4>5. last = 2
          BY <4>1, <4>2, <4>3 DEF last
        <4> QED
          BY <4>4, <4>5
      <3>8. /\ Plan[2].of = "payload" /\ Plan[2].at = basic.payload_offset
            /\ Plan[2].from = payload.load_offset /\ Plan[2].from \in Nat
        BY PlanFacts DEF Plan, Sound, Coherent
      <3>9. Plan[2].from + p - Plan[2].at = payload.load_offset + k
        <4> HIDE DEF size
        <4> QED
          BY <2>2, <3>1, <3>8
      <3> QED
        BY <3>3, <3>7, <3>8, <3>9
    <2>7. end + size <= head.stack_addr - PageSize
      <3> HIDE DEF end, size, head
      <3> QED
        BY <2>2, <2>5
    <2>8. head.stack_addr <= layout.hkaddr.bss_end_addr
      <3> HIDE DEF head, layout
      <3> QED
        BY <2>3, <2>5
    <2> HIDE DEF end, size, head, layout, hkaddr
    <2> QED
      BY <2>3, <2>5, <2>6, <2>7, <2>8
  <1> QED
    BY <1>1, <1>2, <1>3, PTL DEF Spec
=============================================================================
