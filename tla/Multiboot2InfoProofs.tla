------------------------- MODULE Multiboot2InfoProofs -------------------------
(***************************************************************************)
(* Proofs about the search of a tag in the information of the bootloader,  *)
(* for lists of tags of any length, wherever they lie in memory.           *)
(***************************************************************************)
EXTENDS Multiboot2Info, Numbers, SequenceTheorems, TLAPS

Offset(k) == TagOffset(tags, InfoSize, k)

Tags == 1 .. Len(tags)

\* A bootloader's information: where it is and what it counts as its size.
Given ==
    /\ addr \in Addrs /\ tags \in Infos
    /\ total \in Nat /\ total <= Offset(Len(tags) + 1)
    /\ Offset(Len(tags) + 1) < total + Align
    /\ addr + total <= Word

\* The search stands at the k-th tag, and has seen no tag of the type before.
Reached(k) ==
    /\ k \in Tags /\ tag = addr + Offset(k)
    /\ \A j \in 1 .. k - 1 : tags[j].type # wanted /\ Offset(j) < Offset(k)

InfoInv ==
    /\ Given
    /\ pc \in {"first", "test", "done"}
    /\ pc # "first" => \/ tag = 0 /\ \A k \in Tags : tags[k].type # wanted
                       \/ \E k \in Tags : Reached(k)
    /\ pc = "done" => Over

\* What an information's place and tags are.
LEMMA GivenFacts ==
    ASSUME addr \in Addrs, tags \in Infos
    PROVE  /\ Word \in Nat \ {0} /\ Align \in Nat \ {0} /\ InfoSize \in Nat \ {0}
           /\ Word % Align = 0
           /\ addr \in 1 .. Word - 1 /\ addr % Align = 0
           /\ Len(tags) \in Nat /\ Len(tags) > 0 /\ DOMAIN tags = Tags
           /\ \A k \in Tags : tags[k].size \in Nat
           /\ tags[Len(tags)].size # 0
  <1>1. /\ Word \in Nat \ {0} /\ Align \in Nat \ {0} /\ InfoSize \in Nat \ {0}
        /\ Word % Align = 0
        /\ addr \in 1 .. Word - 1 /\ addr % Align = 0
    BY InfoAssumption
  <1>2. /\ tags \in Seq({tags[k] : k \in DOMAIN tags})
        /\ \A k \in DOMAIN tags : tags[k].size \in Nat
        /\ Len(tags) > 0 /\ tags[Len(tags)].size > 0
    BY InfoAssumption
  <1>3. Len(tags) \in Nat /\ DOMAIN tags = Tags
    BY <1>2, LenProperties DEF Tags
  <1>4. Len(tags) \in Tags
    BY <1>2, <1>3 DEF Tags
  <1>5. tags[Len(tags)].size # 0
    BY <1>2, <1>3, <1>4
  <1> QED
    BY <1>1, <1>2, <1>3, <1>5

\* Its tags begin at multiples, and before the last word.
LEMMA TagOffsets ==
    ASSUME addr \in Addrs, tags \in Infos
    PROVE  /\ Offset(1) = InfoSize
           /\ \A k \in 1 .. Len(tags) + 1 : Offset(k) \in Nat /\ Offset(k) % Align = 0
           /\ \A k \in Tags : /\ Offset(k + 1) = Offset(k) + Padded(tags[k].size)
                              /\ Offset(k) + Align <= Offset(Len(tags) + 1)
  <1> DEFINE n    == Len(tags)
             size == [j \in DOMAIN tags |-> Padded(tags[j].size)]
             at   == Sums(InfoSize, size, n)
  <1>1. /\ Word \in Nat \ {0} /\ Align \in Nat \ {0} /\ InfoSize \in Nat \ {0}
        /\ Word % Align = 0
        /\ addr \in 1 .. Word - 1 /\ addr % Align = 0
        /\ n \in Nat /\ n > 0 /\ DOMAIN tags = 1 .. n
        /\ \A k \in 1 .. n : tags[k].size \in Nat
        /\ tags[n].size # 0
    BY GivenFacts DEF Tags
  <1>2. InfoSize % Align = 0 /\ 0 % Align = 0
    <2>1. 0 \in 0 .. Align - 1
      BY <1>1
    <2> QED
      BY <1>1, <2>1, Small, InfoAssumption
  <1>3. ASSUME NEW j \in 1 .. n
        PROVE  /\ Padded(tags[j].size) \in Nat
               /\ tags[j].size # 0 => Padded(tags[j].size) >= Align
    BY <1>1, <1>2, NextMultiple DEF Padded
  <1>4. size \in [1 .. n -> Nat]
    BY <1>1, <1>3
  <1>5. \A j \in 1 .. n : size[j] = Padded(tags[j].size)
    BY <1>1
  <1>6. \A k : Offset(k) = at[k]
    BY DEF Offset, TagOffset, Sums
  <1> HIDE DEF size, n
  <1>7. /\ at \in [1 .. n + 1 -> Nat]
        /\ at[1] = InfoSize
        /\ \A j \in 1 .. n : at[j + 1] = at[j] + size[j]
    BY <1>1, <1>4, RunningSum
  <1> HIDE DEF at
  <1>8. \A j \in 1 .. n : at[j] <= at[j + 1]
    <2> SUFFICES ASSUME NEW j \in 1 .. n PROVE at[j] <= at[j + 1]
      OBVIOUS
    <2>1. at[j] \in Nat /\ size[j] \in Nat /\ at[j + 1] = at[j] + size[j]
      BY <1>1, <1>4, <1>7
    <2> QED
      BY <2>1
  <1>9. \A j \in 1 .. n : at[j] % Align = 0 => at[j + 1] % Align = 0
    <2> SUFFICES ASSUME NEW j \in 1 .. n, at[j] % Align = 0 PROVE at[j + 1] % Align = 0
      OBVIOUS
    <2>1. at[j] \in Nat /\ tags[j].size \in Nat
      BY <1>1, <1>7
    <2>2. at[j + 1] = at[j] + Padded(tags[j].size)
      BY <1>5, <1>7
    <2>3. (at[j] + Padded(tags[j].size)) % Align = 0
      BY <1>1, <2>1, NextMultiple DEF Padded
    <2> QED
      BY <2>2, <2>3
  <1>10. \A j \in 1 .. n + 1 : at[j] % Align = 0
    BY <1>1, <1>2, <1>7, <1>9, SumsMultiples
  <1>11. ASSUME NEW j \in 1 .. n PROVE at[j] + Align <= at[n + 1]
    <2>1. at[j] <= at[n]
      <3>1. n - 1 \in Nat /\ (n - 1) + 1 = n
        BY <1>1
      <3> DEFINE front == [k \in 1 .. n |-> at[k]]
      <3>2. front \in [1 .. (n - 1) + 1 -> Nat] /\ \A k \in 1 .. n : front[k] = at[k]
        BY <1>1, <1>7, <3>1
      <3>3. \A k \in 1 .. n - 1 : front[k] <= front[k + 1]
        <4> SUFFICES ASSUME NEW k \in 1 .. n - 1 PROVE front[k] <= front[k + 1]
          OBVIOUS
        <4>1. k \in 1 .. n /\ k + 1 \in 1 .. n
          BY <1>1
        <4> QED
          BY <1>8, <3>2, <4>1
      <3> HIDE DEF front
      <3>4. \A k \in 1 .. (n - 1) + 1 : front[k] <= front[(n - 1) + 1]
        BY <3>1, <3>2, <3>3, SumsGrow
      <3> QED
        BY <1>1, <3>1, <3>2, <3>4
    <2>2. at[n + 1] = at[n] + size[n] /\ size[n] >= Align /\ size[n] \in Nat
      BY <1>1, <1>3, <1>5, <1>7
    <2>3. at[j] \in Nat /\ at[n] \in Nat
      BY <1>1, <1>7
    <2> QED
      BY <1>1, <2>1, <2>2, <2>3
  <1> QED
    BY <1>1, <1>5, <1>6, <1>7, <1>10, <1>11 DEF n, Tags

\* They are counted by its size, and its end is in memory.
LEMMA TagPlaces ==
    ASSUME Given
    PROVE  /\ Offset(1) = InfoSize
           /\ \A k \in 1 .. Len(tags) + 1 : Offset(k) \in Nat /\ Offset(k) % Align = 0
           /\ \A k \in Tags : /\ Offset(k + 1) = Offset(k) + Padded(tags[k].size)
                              /\ Offset(k) < total
           /\ addr + Offset(Len(tags) + 1) <= Word
  <1> DEFINE end == Offset(Len(tags) + 1)
  <1>1. addr \in Addrs /\ tags \in Infos
    BY DEF Given
  <1>2. /\ Word \in Nat \ {0} /\ Align \in Nat \ {0} /\ Word % Align = 0
        /\ addr \in Nat /\ addr % Align = 0 /\ Len(tags) \in Nat
    BY <1>1, GivenFacts
  <1>3. /\ Offset(1) = InfoSize
        /\ \A k \in 1 .. Len(tags) + 1 : Offset(k) \in Nat /\ Offset(k) % Align = 0
        /\ \A k \in Tags : /\ Offset(k + 1) = Offset(k) + Padded(tags[k].size)
                           /\ Offset(k) + Align <= end
    BY <1>1, TagOffsets
  <1>4. end \in Nat /\ end % Align = 0
    BY <1>2, <1>3
  <1>5. total \in Nat /\ end < total + Align /\ addr + total <= Word
    BY DEF Given
  <1> HIDE DEF end
  <1>6. ASSUME NEW k \in Tags PROVE Offset(k) < total
    <2>1. Offset(k) \in Nat /\ Offset(k) + Align <= end
      BY <1>2, <1>3 DEF Tags
    <2> QED
      BY <1>2, <1>4, <1>5, <2>1
  <1>7. addr + end <= Word
    <2>1. addr + end \in Nat /\ (addr + end) % Align = 0
      BY <1>2, <1>4, MultiplesAdd
    <2>2. addr + end < Word + Align
      BY <1>2, <1>4, <1>5
    <2> QED
      BY <1>2, <2>1, <2>2, MultiplesApart
  <1> QED
    BY <1>3, <1>6, <1>7 DEF end

\* The tag that the search reads is the one it has reached.
LEMMA ReadsReached ==
    ASSUME Given, NEW k, Reached(k)
    PROVE  Here = k /\ tag # 0 /\ (Over <=> tags[k].type = wanted)
  <1>1. addr \in Nat \ {0} /\ Len(tags) \in Nat /\ DOMAIN tags = Tags /\ k \in Tags
    BY GivenFacts DEF Given, Reached
  <1>2. Offset(k) \in Nat
    BY <1>1, TagPlaces DEF Tags
  <1>3. tag # 0 /\ tag - addr = Offset(k)
    BY <1>1, <1>2 DEF Reached
  <1> DEFINE At(m) == /\ Offset(m) = Offset(k)
                      /\ \A j \in Tags : Offset(j) = Offset(k) => m <= j
  <1>4. At(k)
    <2> SUFFICES ASSUME NEW j \in Tags, Offset(j) = Offset(k), ~ k <= j PROVE FALSE
      OBVIOUS
    <2>1. j \in 1 .. k - 1
      BY <1>1 DEF Tags
    <2>2. Offset(j) < Offset(k)
      BY <2>1 DEF Reached
    <2> QED
      BY <1>2, <2>2
  <1>5. ASSUME NEW m \in Tags, At(m) PROVE m = k
    <2>1. m <= k /\ k <= m
      BY <1>1, <1>4, <1>5
    <2> QED
      BY <1>1, <2>1 DEF Tags
  <1>6. Here = CHOOSE m \in Tags : At(m)
    BY <1>1, <1>3 DEF Here, TagNumber, Offset
  <1> HIDE DEF At
  <1>7. Here = k
    BY <1>1, <1>4, <1>5, <1>6
  <1> QED
    BY <1>3, <1>7 DEF Over, NULL

\* A pointer to a place in the information, and one that has left it.
LEMMA CheckedPointer ==
    ASSUME Given, NEW at \in Nat, addr + at <= Word,
           NEW ptr, ptr = (addr + at) % Word
    PROVE  CheckRange(ptr) = IF at < total THEN addr + at ELSE 0
  <1>1. /\ Word \in Nat \ {0} /\ addr \in 1 .. Word - 1 /\ total \in Nat
        /\ addr + total <= Word
    BY GivenFacts DEF Given
  <1>2. CASE addr + at < Word
    <2>1. addr + at \in 0 .. Word - 1 /\ at \in 0 .. Word - 1
      BY <1>1, <1>2
    <2>2. ptr = addr + at
      BY <1>1, <2>1, Small
    <2>3. ptr - addr = at
      BY <1>1, <2>2
    <2>4. (ptr - addr) % Word = at
      BY <1>1, <2>1, <2>3, Small
    <2> QED
      BY <1>1, <2>2, <2>4 DEF CheckRange, NULL
  <1>3. CASE addr + at = Word
    <2>1. ptr = 0
      <3>1. (Word * 1 + 0) % Word = 0
        <4>1. 0 \in 0 .. Word - 1
          BY <1>1
        <4> QED
          BY <1>1, <4>1, DividedOnce
      <3>2. Word * 1 + 0 = Word
        BY <1>1
      <3> QED
        BY <1>3, <3>1, <3>2
    <2>2. (ptr - addr) % Word = Word - addr
      BY <1>1, <2>1, Wrapped
    <2>3. ~ at < total /\ Word - addr >= total
      BY <1>1, <1>3
    <2> QED
      BY <2>2, <2>3 DEF CheckRange, NULL
  <1> QED
    BY <1>1, <1>2, <1>3

LEMMA FirstStep ==
    ASSUME InfoInv, First
    PROVE  InfoInv'
  <1>1. /\ pc' = "test" /\ UNCHANGED <<addr, tags, total, wanted>>
        /\ tag' = CheckRange((addr + InfoSize) % Word)
    BY DEF First
  <1>2. Given
    BY DEF InfoInv
  <1>3. Len(tags) \in Nat /\ Len(tags) > 0 /\ 1 \in Tags /\ addr \in Nat
    BY <1>2, GivenFacts DEF Given, Tags
  <1>4. InfoSize \in Nat /\ Offset(1) = InfoSize /\ InfoSize < total
    BY <1>2, <1>3, GivenFacts, TagPlaces DEF Given
  <1>5. addr + InfoSize <= Word
    BY <1>2, <1>3, <1>4, GivenFacts DEF Given
  <1>6. tag' = addr + Offset(1)
    BY <1>1, <1>2, <1>4, <1>5, CheckedPointer
  <1>7. Reached(1)' /\ 1 \in Tags'
    BY <1>1, <1>3, <1>6 DEF Reached, Offset, Tags
  <1>8. Given'
    BY <1>1, <1>2 DEF Given, Offset
  <1> QED
    BY <1>1, <1>7, <1>8 DEF InfoInv

LEMMA NextTagStep ==
    ASSUME InfoInv, NextTag
    PROVE  InfoInv'
  <1>1. /\ pc = "test" /\ ~ Over /\ UNCHANGED <<addr, tags, total, wanted, pc>>
        /\ tag' = CheckRange(
                     Padded((tag + tags[Here].size) % Word) % Word)
    BY DEF NextTag
  <1>2. Given
    BY DEF InfoInv
  <1>3. PICK k \in Tags : Reached(k)
    BY <1>1 DEF InfoInv, Over, NULL
  <1>4. Here = k /\ tags[k].type # wanted
    BY <1>1, <1>2, <1>3, ReadsReached
  <1> DEFINE size == tags[k].size
             n    == Len(tags)
             next == Offset(k + 1)
  <1>5. /\ n \in Nat /\ k \in 1 .. n /\ k + 1 \in 1 .. n + 1 /\ n + 1 \in 1 .. n + 1
        /\ Word \in Nat \ {0} /\ Align \in Nat \ {0} /\ Word % Align = 0
        /\ addr \in 1 .. Word - 1 /\ addr % Align = 0
        /\ size \in Nat
    BY <1>2, <1>3, GivenFacts DEF Given, Tags
  <1>6. /\ tag = addr + Offset(k) /\ Offset(k) \in Nat /\ Offset(k) % Align = 0
        /\ next \in Nat /\ next = Offset(k) + Padded(size)
    BY <1>2, <1>3, <1>5, TagPlaces DEF Reached
  <1>7. addr + next <= Word /\ (next < total <=> k < n)
    <2>1. CASE k = n
      <3>1. addr + next <= Word
        BY <1>2, <2>1, TagPlaces
      <3>2. total <= next /\ total \in Nat
        BY <1>2, <2>1 DEF Given
      <3> QED
        BY <1>5, <1>6, <2>1, <3>1, <3>2
    <2>2. CASE k < n
      <3>1. k + 1 \in Tags
        BY <1>5, <2>2 DEF Tags
      <3>2. next < total /\ total \in Nat /\ addr + total <= Word
        BY <1>2, <3>1, TagPlaces DEF Given
      <3> QED
        BY <1>5, <1>6, <2>2, <3>2
    <2> QED
      BY <1>5, <2>1, <2>2
  <1>8. tag \in Nat /\ tag % Align = 0
    <2>1. addr \in Nat
      BY <1>5
    <2> QED
      BY <1>5, <1>6, <2>1, MultiplesAdd
  <1> HIDE DEF size, n, next
  <1>9. /\ Padded(size) >= size /\ Padded(size) \in Nat
        /\ Padded(tag + size) = tag + Padded(size)
        /\ size = 0 => Padded(size) = 0
        /\ size # 0 => Padded(size) >= Align
    BY <1>5, <1>8, NextMultiple DEF Padded
  <1>10. Padded((tag + size) % Word) % Word = (addr + next) % Word
    <2>1. tag + size \in Nat /\ tag + size <= addr + next
          /\ addr + next = tag + Padded(size)
      BY <1>5, <1>6, <1>8, <1>9
    <2>2. CASE tag + size < Word
      <3>1. (tag + size) % Word = tag + size
        <4>1. tag + size \in 0 .. Word - 1
          BY <1>5, <2>1, <2>2
        <4> QED
          BY <1>5, <4>1, Small
      <3> QED
        BY <1>9, <2>1, <3>1
    <2>3. CASE ~ tag + size < Word
      <3>1. tag + size = Word /\ addr + next = Word
        BY <1>5, <1>6, <1>7, <2>1, <2>3
      <3>2. Word % Word = 0 /\ 0 % Word = 0
        <4>1. 0 \in 0 .. Word - 1 /\ 1 \in Nat /\ 0 \in Nat
          BY <1>5
        <4>2. (Word * 1 + 0) % Word = 0 /\ (Word * 0 + 0) % Word = 0
          BY <1>5, <4>1, DividedOnce
        <4>3. Word * 1 + 0 = Word /\ Word * 0 + 0 = 0
          BY <1>5
        <4> QED
          BY <4>2, <4>3
      <3>3. Padded(0) = 0
        <4>1. 0 \in Nat /\ 0 % Align = 0
          <5>1. 0 \in 0 .. Align - 1
            BY <1>5
          <5> QED
            BY <1>5, <5>1, Small
        <4> QED
          BY <1>5, <4>1, NextMultiple DEF Padded
      <3> QED
        BY <3>1, <3>2, <3>3
    <2> QED
      BY <2>2, <2>3
  <1>11. tag' = IF next < total THEN addr + next ELSE 0
    <2>1. tag' = CheckRange((addr + next) % Word)
      BY <1>1, <1>4, <1>10 DEF size
    <2> QED
      BY <1>2, <1>6, <1>7, <2>1, CheckedPointer
  <1>12. /\ \A j : Offset(j)' = Offset(j)
         /\ Tags' = Tags
         /\ Given'
    BY <1>1, <1>2 DEF Given, Offset, Tags
  <1>13. CASE size = 0
    <2>1. next = Offset(k) /\ k < n
      <3>1. tags[n].size # 0
        BY <1>2, GivenFacts DEF Given, n
      <3>2. k # n
        BY <1>13, <3>1 DEF size
      <3> QED
        BY <1>5, <1>6, <1>9, <1>13, <3>2
    <2>2. tag' = tag
      BY <1>6, <1>7, <1>11, <2>1
    <2>3. Reached(k)'
      BY <1>1, <1>3, <1>12, <2>2 DEF Reached
    <2> QED
      BY <1>1, <1>3, <1>12, <2>3 DEF InfoInv
  <1>14. CASE size # 0 /\ k = n
    <2>1. tag' = 0
      BY <1>5, <1>7, <1>11, <1>14
    <2>2. \A j \in Tags : tags[j].type # wanted
      <3> SUFFICES ASSUME NEW j \in Tags PROVE tags[j].type # wanted
        OBVIOUS
      <3>1. j = k \/ j \in 1 .. k - 1
        BY <1>5, <1>14 DEF Tags, n
      <3> QED
        BY <1>3, <1>4, <3>1 DEF Reached
    <2> QED
      BY <1>1, <1>12, <2>1, <2>2 DEF InfoInv
  <1>15. CASE size # 0 /\ k < n
    <2>1. tag' = addr + next /\ Offset(k) < next
      BY <1>5, <1>6, <1>7, <1>9, <1>11, <1>15
    <2>2. k + 1 \in Tags
      BY <1>5, <1>15 DEF Tags, n
    <2>3. ASSUME NEW j \in 1 .. (k + 1) - 1
          PROVE  tags[j].type # wanted /\ Offset(j) < Offset(k + 1)
      <3>1. CASE j = k
        BY <1>4, <2>1, <3>1 DEF next
      <3>2. CASE j # k
        <4>1. j \in 1 .. k - 1 /\ j \in 1 .. n + 1
          BY <1>5, <3>2
        <4>2. tags[j].type # wanted /\ Offset(j) < Offset(k)
          BY <1>3, <4>1 DEF Reached
        <4>3. Offset(j) \in Nat
          BY <1>2, <4>1, TagPlaces DEF n
        <4> QED
          BY <1>6, <2>1, <4>2, <4>3 DEF next
      <3> QED
        BY <3>1, <3>2
    <2>4. Reached(k + 1)'
      BY <1>1, <1>12, <2>1, <2>2, <2>3 DEF Reached, next
    <2> QED
      BY <1>1, <1>12, <2>2, <2>4 DEF InfoInv
  <1> QED
    BY <1>5, <1>13, <1>14, <1>15

\* For every list of tags that a bootloader passes, anywhere in memory, also at
\* its very end, and with or without its last padding: the search returns the
\* first tag of the type, and NULL only if there is none.
THEOREM FirstOfTypeFound == Spec => []FirstOfType
  <1>1. Init => InfoInv
    <2> SUFFICES ASSUME Init PROVE InfoInv
      OBVIOUS
    <2>1. PICK cut \in Cuts : total = Offset(Len(tags) + 1) - cut
      BY DEF Init, Offset
    <2>2. cut \in 0 .. Align - 1 /\ Align \in Nat
      BY InfoAssumption
    <2>3. Offset(Len(tags) + 1) \in Nat /\ Offset(Len(tags) + 1) >= Align
      <3>1. Len(tags) \in Tags /\ Len(tags) + 1 \in 1 .. Len(tags) + 1
        BY GivenFacts DEF Init, Tags
      <3>2. /\ Offset(Len(tags)) \in Nat /\ Offset(Len(tags) + 1) \in Nat
            /\ Offset(Len(tags)) + Align <= Offset(Len(tags) + 1)
        BY <3>1, TagOffsets DEF Init, Tags
      <3> QED
        BY <2>2, <3>2
    <2> QED
      BY <2>1, <2>2, <2>3 DEF Init, InfoInv, Given
  <1>2. InfoInv /\ [Next]_(vars) => InfoInv'
    <2> SUFFICES ASSUME InfoInv, [Next]_(vars)
                 PROVE  InfoInv'
      OBVIOUS
    <2>1. CASE First
      BY <2>1, FirstStep
    <2>2. CASE NextTag
      BY <2>2, NextTagStep
    <2>3. CASE Return
      BY <2>3 DEF Return, InfoInv, Given, Reached, Offset, Tags, Over,
             Here, NULL
    <2>4. CASE UNCHANGED vars
      BY <2>4 DEF vars, InfoInv, Given, Reached, Offset, Tags, Over,
             Here, NULL
    <2> QED
      BY <2>1, <2>2, <2>3, <2>4 DEF Next
  <1>3. InfoInv => FirstOfType
    <2> SUFFICES ASSUME InfoInv, pc = "done"
                 PROVE  LET found == {k \in Tags : tags[k].type = wanted}
                        IN  IF found = {} THEN tag = 0
                            ELSE tag = addr + Offset(CHOOSE k \in found :
                                                        \A j \in found : k <= j)
      BY GivenFacts DEF Given, InfoInv, FirstOfType, NULL, Offset
    <2> DEFINE found == {k \in Tags : tags[k].type = wanted}
               Least(k) == \A j \in found : k <= j
    <2>1. Given /\ Over
      BY DEF InfoInv
    <2>2. CASE tag = 0 /\ \A k \in Tags : tags[k].type # wanted
      BY <2>2
    <2>3. CASE \E k \in Tags : Reached(k)
      <3>1. PICK k \in Tags : Reached(k)
        BY <2>3
      <3>2. Len(tags) \in Nat
        BY <2>1, GivenFacts DEF Given
      <3>3. k \in found
        BY <2>1, <3>1, ReadsReached
      <3>4. Least(k)
        <4> SUFFICES ASSUME NEW j \in found, ~ k <= j PROVE FALSE
          OBVIOUS
        <4>1. j \in 1 .. k - 1
          BY <3>2 DEF Tags
        <4> QED
          BY <3>1, <4>1 DEF Reached
      <3>5. ASSUME NEW m \in found, Least(m) PROVE m = k
        <4>1. m <= k /\ k <= m /\ m \in Int /\ k \in Int
          BY <3>2, <3>3, <3>4, <3>5 DEF Tags
        <4> QED
          BY <4>1
      <3> HIDE DEF found, Least
      <3>6. k = CHOOSE m \in found : Least(m)
        BY <3>3, <3>4, <3>5
      <3>7. tag = addr + Offset(CHOOSE m \in found : Least(m)) /\ found # {}
        BY <3>1, <3>3, <3>6 DEF Reached
      <3> QED
        BY <3>7 DEF found, Least
    <2> QED
      BY <2>2, <2>3 DEF InfoInv
  <1> QED
    BY <1>1, <1>2, <1>3, PTL DEF Spec
=============================================================================
