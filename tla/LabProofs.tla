----------------------------- MODULE LabProofs ------------------------------
(***************************************************************************)
(* Theorems about three programs of the labs: the cache simulator, which   *)
(* implements LruCache for any number of sets, lines and bytes in a block  *)
(* and traces of any length; btest, whose alarm goes off only for the test *)
(* that does not return; and qtest, which gives back its modes and its     *)
(* memory, tells of every error and keeps its queue and the list of its    *)
(* blocks as queue.h and harness.c say, for any session.                   *)
(***************************************************************************)
EXTENDS Csim, Btest, Qtest, Induction, SequenceTheorems

-----------------------------------------------------------------------------
(***************************************************************************)
(* csim.c: the lines in use hold different blocks and were accessed at     *)
(* different times, so that the search for a tag and that for the earliest *)
(* access each find the line they are meant to find.                       *)
(***************************************************************************)
\* The tags of the trace fit in the int that carries them.
TagsFit == \A address \in Addresses : tag_bits(address) < TagMod

Places == Sets \X Lines
Index(p) == At(p[1], p[2])
Tag(p) == cache[Index(p)].tag

CacheTyped ==
  /\ cache \in [0..S*E-1 -> [valid_bit : {0, 1}, tag : Nat, access_time : Nat]]
  /\ time \in Nat

\* No line was accessed after the last reference, and no two at once.
Timed ==
  /\ \A p \in Valid : Accessed(p) <= time
  /\ \A p, z \in Valid : Accessed(p) = Accessed(z) => p = z

\* No two lines of a set hold the same tag.
TagsDiffer == \A p, z \in Valid : p[1] = z[1] /\ Tag(p) = Tag(z) => p = z

CsimInv == CacheTyped /\ Timed /\ TagsDiffer

-----------------------------------------------------------------------------
(* Addresses, blocks and places *)

LEMMA Sizes == S \in Nat \ {0} /\ E \in Nat \ {0} /\ B \in Nat \ {0}
BY CsimAssumption DEF Accepted

LEMMA Quotient ==
  ASSUME NEW n \in Nat \ {0}, NEW z \in Nat, NEW r \in 0..n-1
  PROVE  (n * z + r) \div n = z /\ (n * z + r) % n = r
<1> DEFINE a == n * z + r
           d == a \div n
           w == a % n
<1>1. a \in Nat
  OBVIOUS
<1>2. a = n * d + w /\ w \in 0..n-1 /\ d \in Nat
  BY <1>1, DivMod
<1>3. a = n * z + r
  OBVIOUS
<1> HIDE DEF a, d, w
<1>4. CASE d < z
  BY <1>2, <1>3, <1>4, Multiples
<1>5. CASE z < d
  BY <1>2, <1>3, <1>5, Multiples
<1>6. CASE d = z
  BY <1>2, <1>3, <1>6
<1>7. d = z /\ w = r
  BY <1>2, <1>4, <1>5, <1>6, <1>3
<1> QED BY <1>7 DEF a, d, w

LEMMA TwoQuotients ==
  ASSUME NEW n \in Nat \ {0}, NEW k \in Nat \ {0}, NEW a \in Nat
  PROVE  a \div (n * k) = (a \div n) \div k
<1> DEFINE z == a \div n
           r == a % n
           t == z \div k
           u == z % k
<1>1. a = n * z + r /\ r \in 0..n-1 /\ z \in Nat
  BY DivMod
<1>2. z = k * t + u /\ u \in 0..k-1 /\ t \in Nat
  BY <1>1, DivMod
<1> HIDE DEF z, r, t, u
<1>3. n * k >= n * u + n
  BY <1>2, Multiples
<1>4. n * u \in Nat /\ n * k \in Nat \ {0}
  <2>1. \A x, y \in Nat : x * y \in Nat /\ (x # 0 /\ y # 0 => x * y # 0)
    OBVIOUS
  <2> QED BY <2>1, <1>2
<1>5. n * u + r \in 0..(n * k)-1
  BY <1>1, <1>3, <1>4
<1>6. n * (k * t + u) = (n * k) * t + n * u
  BY <1>2
<1>7. a = (n * k) * t + (n * u + r)
  BY <1>1, <1>2, <1>4, <1>6
<1>8. a \div (n * k) = t
  BY <1>2, <1>4, <1>5, <1>7, Quotient
<1> QED BY <1>8 DEF z, t

\* The block of an address, put together again from set and tag.
LEMMA BlockOfAddress ==
  ASSUME TagsFit, NEW address \in Addresses
  PROVE  LET set == set_bits(address)
             tag == tag_bits(address) % TagMod
         IN /\ set \in Sets /\ tag \in Nat
            /\ address \div B = tag * S + set
<1> DEFINE z == address \div B
<1>1. address \in Nat /\ TagMod \in Nat \ {0}
  BY CsimAssumption
<1>2. z \in Nat
  BY <1>1, Sizes, DivMod
<1>3. tag_bits(address) = z \div S
  BY <1>1, Sizes, TwoQuotients DEF tag_bits
<1>4. z = S * (z \div S) + (z % S) /\ z % S \in 0..S-1 /\ z \div S \in Nat
  BY <1>2, Sizes, DivMod
<1>5. tag_bits(address) % TagMod = z \div S
  <2>1. tag_bits(address) < TagMod
    BY DEF TagsFit
  <2>2. \A t, n \in Nat : t < n => t % n = t
    OBVIOUS
  <2> QED BY <1>1, <1>3, <1>4, <2>1, <2>2
<1>6. set_bits(address) = z % S
  BY DEF set_bits
<1> HIDE DEF z
<1>7. S * (z \div S) = (z \div S) * S
  BY <1>4, Sizes
<1> QED BY <1>4, <1>5, <1>6, <1>7 DEF Sets, z

LEMMA Indices ==
  ASSUME NEW p \in Places, NEW z \in Places
  PROVE  /\ Index(p) \in 0..S*E-1
         /\ Index(p) = Index(z) => p = z
<1>1. p[1] \in 0..S-1 /\ p[2] \in 0..E-1 /\ z[1] \in 0..S-1 /\ z[2] \in 0..E-1
  BY Sizes DEF Places, Sets, Lines
<1>2. p = <<p[1], p[2]>> /\ z = <<z[1], z[2]>>
  BY DEF Places
<1>3. ASSUME NEW x \in 0..S-1 PROVE E * x + E <= E * S /\ E * x \in Nat
  BY <1>3, Sizes, Multiples
<1>4. E * S = S * E
  BY Sizes
<1>5. Index(p) = E * p[1] + p[2] /\ Index(z) = E * z[1] + z[2]
  BY DEF Index, At
<1>6. Index(p) \in 0..S*E-1
  BY <1>1, <1>3, <1>4, <1>5, Sizes
<1>7. ASSUME Index(p) = Index(z) PROVE p[1] = z[1] /\ p[2] = z[2]
  <2>1. CASE p[1] < z[1]
    BY <1>1, <1>3, <1>5, <1>7, <2>1, Sizes, Multiples
  <2>2. CASE z[1] < p[1]
    BY <1>1, <1>3, <1>5, <1>7, <2>2, Sizes, Multiples
  <2>3. CASE p[1] = z[1]
    <3>1. E * p[1] = E * z[1] /\ E * p[1] \in Nat
      BY <1>1, <1>3, <2>3
    <3> QED BY <1>1, <1>5, <1>7, <2>3, <3>1
  <2> QED BY <1>1, <2>1, <2>2, <2>3
<1> QED BY <1>2, <1>6, <1>7

LEMMA BlockParts ==
  ASSUME CacheTyped, NEW p \in Valid
  PROVE  /\ p \in Places /\ Tag(p) \in Nat /\ Accessed(p) \in Nat /\ BlockIn(p) \in Nat
         /\ BlockIn(p) % S = p[1] /\ BlockIn(p) \div S = Tag(p)
<1>1. p \in Places /\ p[1] \in 0..S-1
  BY Sizes DEF Valid, Places, Sets
<1>2. Tag(p) \in Nat /\ Accessed(p) \in Nat
  BY <1>1, Indices DEF CacheTyped, Tag, Accessed, Index
<1>3. BlockIn(p) = S * Tag(p) + p[1]
  BY <1>1, <1>2, Sizes DEF BlockIn, Tag, Index
<1>4. S * Tag(p) \in Nat
  BY <1>2, Sizes
<1>5. BlockIn(p) \in Nat
  BY <1>1, <1>3, <1>4
<1>6. BlockIn(p) % S = p[1] /\ BlockIn(p) \div S = Tag(p)
  <2>1. (S * Tag(p) + p[1]) \div S = Tag(p) /\ (S * Tag(p) + p[1]) % S = p[1]
    BY <1>1, <1>2, Sizes, Quotient
  <2> QED BY <1>3, <2>1
<1> QED BY <1>1, <1>2, <1>5, <1>6

LEMMA BlocksDiffer ==
  ASSUME CacheTyped, TagsDiffer, NEW p \in Valid, NEW z \in Valid, BlockIn(p) = BlockIn(z)
  PROVE  p = z
BY BlockParts DEF TagsDiffer

-----------------------------------------------------------------------------
(***************************************************************************)
(* Every reference writes one line: the one that holds the block, an empty *)
(* one of its set, or the one of its set accessed earliest.                *)
(***************************************************************************)
Writes(p, tag) == cache' = [cache EXCEPT ![Index(p)] = Filled(tag, time + 1)]

Absent(set, tag) == \A z \in Valid : ~(z[1] = set /\ Tag(z) = tag)

Hit(p, tag) == p \in Valid /\ Tag(p) = tag
Fill(p, tag) == p \in Places \ Valid /\ Absent(p[1], tag)
Replace(p, tag) ==
  /\ p \in Valid /\ Absent(p[1], tag)
  /\ \A z \in Places : z[1] = p[1] => z \in Valid /\ Accessed(p) <= Accessed(z)

LEMMA LeastIn ==
  ASSUME NEW is \in SUBSET Nat, is # {}
  PROVE  First(is) \in is /\ \A j \in is : First(is) <= j
<1>1. \E i \in is : \A j \in is : i <= j
  BY Least
<1> QED BY <1>1 DEF First

\* A line of a set is the second part of a place.
LEMMA InSet ==
  ASSUME NEW set \in Sets, NEW i
  PROVE  i \in {At(set, line) : line \in Lines}
           <=> \E p \in Places : p[1] = set /\ i = Index(p)
<1>1. ASSUME NEW line \in Lines
      PROVE  <<set, line>> \in Places /\ Index(<<set, line>>) = At(set, line)
  BY DEF Places, Index
<1>2. ASSUME NEW p \in Places, p[1] = set PROVE p[2] \in Lines /\ Index(p) = At(set, p[2])
  BY <1>2 DEF Places, Index
<1>3. ASSUME i \in {At(set, line) : line \in Lines}
      PROVE  \E p \in Places : p[1] = set /\ i = Index(p)
  <2>1. PICK line \in Lines : i = At(set, line)
    BY <1>3
  <2> QED BY <1>1, <2>1
<1>4. ASSUME NEW p \in Places, p[1] = set, i = Index(p)
      PROVE  i \in {At(set, line) : line \in Lines}
  BY <1>2, <1>4
<1> QED BY <1>3, <1>4

LEMMA Found ==
  ASSUME NEW set \in Sets, NEW i, NEW tag
  PROVE  /\ i \in Matching(set, tag) <=> \E p \in Valid : p[1] = set /\ Tag(p) = tag /\ i = Index(p)
         /\ i \in Empty(set) <=> \E p \in Places : p[1] = set /\ cache[i].valid_bit = 0 /\ i = Index(p)
<1>1. i \in Matching(set, tag)
        <=> i \in {At(set, line) : line \in Lines} /\ cache[i].valid_bit = 1 /\ cache[i].tag = tag
  BY DEF Matching
<1>2. i \in Empty(set)
        <=> i \in {At(set, line) : line \in Lines} /\ cache[i].valid_bit = 0
  BY DEF Empty
<1>3. \A p : p \in Valid <=> p \in Places /\ cache[Index(p)].valid_bit = 1
  BY DEF Valid, Places, Index
<1>4. \A p : Tag(p) = cache[Index(p)].tag
  BY DEF Tag
<1> QED BY <1>1, <1>2, <1>3, <1>4, InSet

LEMMA HitWrites ==
  ASSUME CsimInv, NEW set \in Sets, NEW tag \in Nat, NEW extra \in Nat,
         if_cache_hit(set, tag, time + 1, extra)
  PROVE  \E p \in Places : p[1] = set /\ Writes(p, tag) /\ Hit(p, tag)
<1> DEFINE i == First(Matching(set, tag))
<1>1. Matching(set, tag) # {} /\ cache' = [cache EXCEPT ![i].access_time = time + 1]
  BY DEF if_cache_hit
<1>2. ASSUME NEW p \in Valid PROVE Index(p) \in Nat /\ p \in Places
  BY Indices, Sizes DEF Valid, Places
<1>3. Matching(set, tag) \subseteq Nat
  BY <1>2, Found
<1>4. i \in Matching(set, tag)
  BY <1>1, <1>3, LeastIn
<1>5. PICK p \in Valid : p[1] = set /\ Tag(p) = tag /\ i = Index(p)
  BY <1>4, Found
<1> HIDE DEF i
<1>6. p \in Places /\ i \in 0..S*E-1 /\ cache[i].tag = tag /\ cache[i].valid_bit = 1
  BY <1>2, <1>5, Indices DEF Tag, Valid, Index
<1>7. [cache[i] EXCEPT !.access_time = time + 1] = Filled(tag, time + 1)
  BY <1>6 DEF Filled, CsimInv, CacheTyped
<1>8. cache' = [cache EXCEPT ![i] = [cache[i] EXCEPT !.access_time = time + 1]]
  BY <1>1
<1>9. Writes(p, tag)
  BY <1>5, <1>7, <1>8 DEF Writes
<1> QED BY <1>5, <1>6, <1>9 DEF Hit

LEMMA FillWrites ==
  ASSUME CsimInv, NEW set \in Sets, NEW tag \in Nat, NEW extra \in Nat,
         if_empty_line(set, tag, time + 1, extra)
  PROVE  \E p \in Places : p[1] = set /\ Writes(p, tag) /\ Fill(p, tag)
<1> DEFINE i == First(Empty(set))
<1>1. /\ Matching(set, tag) = {} /\ Empty(set) # {}
      /\ cache' = [cache EXCEPT ![i] = Filled(tag, time + 1)]
  BY DEF if_empty_line
<1>2. \A p \in Places : Index(p) \in Nat
  BY Indices, Sizes
<1>3. Empty(set) \subseteq Nat
  BY <1>2, Found
<1>4. i \in Empty(set)
  BY <1>1, <1>3, LeastIn
<1>5. PICK p \in Places : p[1] = set /\ cache[i].valid_bit = 0 /\ i = Index(p)
  BY <1>4, Found
<1> HIDE DEF i
<1>6. p \notin Valid
  BY <1>5 DEF Valid, Index
<1>7. Absent(set, tag)
  BY <1>1, Found DEF Absent
<1> QED BY <1>1, <1>5, <1>6, <1>7 DEF Fill, Writes

LEMMA ReplaceWrites ==
  ASSUME CsimInv, NEW set \in Sets, NEW tag \in Nat, NEW extra \in Nat,
         replace(set, tag, time + 1, extra)
  PROVE  \E p \in Places : p[1] = set /\ Writes(p, tag) /\ Replace(p, tag)
<1>1. /\ Matching(set, tag) = {} /\ Empty(set) = {}
  BY DEF replace
<1>2. PICK line \in LRU_line_idx(set, time + 1) :
        cache' = [cache EXCEPT ![At(set, line)] = Filled(tag, time + 1)]
  BY DEF replace
<1>3. ASSUME NEW z \in Places, z[1] = set PROVE z \in Valid
  <2>1. Index(z) \notin Empty(set)
    BY <1>1
  <2>2. cache[Index(z)].valid_bit # 0
    BY <1>3, <2>1, Found
  <2>3. cache[Index(z)].valid_bit \in {0, 1}
    BY Indices DEF CsimInv, CacheTyped
  <2> QED BY <2>2, <2>3 DEF Valid, Places, Index
<1> DEFINE age(l) == cache[At(set, l)].access_time
           earliest == {l \in Lines : age(l) < time + 1 /\ \A k \in Lines : age(l) <= age(k)}
<1>4. ASSUME NEW l \in Lines
      PROVE  /\ <<set, l>> \in Valid /\ Accessed(<<set, l>>) = age(l)
             /\ age(l) \in Nat /\ age(l) < time + 1
  <2>1. <<set, l>> \in Valid
    BY <1>3 DEF Places
  <2>2. Accessed(<<set, l>>) = age(l)
    BY DEF Accessed
  <2>3. Accessed(<<set, l>>) \in Nat /\ Accessed(<<set, l>>) <= time /\ time \in Nat
    BY <2>1, BlockParts DEF CsimInv, Timed, CacheTyped
  <2> QED BY <2>1, <2>2, <2>3
<1>5. earliest # {}
  <2> DEFINE ages == {age(l) : l \in Lines}
  <2>1. 0 \in Lines
    BY Sizes DEF Lines
  <2>2. ages \in SUBSET Nat /\ ages # {}
    BY <1>4, <2>1
  <2>3. PICK a \in ages : \A c \in ages : a <= c
    BY <2>2, Least
  <2>4. PICK l \in Lines : a = age(l)
    BY <2>3
  <2>5. age(l) < time + 1 /\ \A k \in Lines : age(l) <= age(k)
    BY <1>4, <2>3, <2>4
  <2> QED BY <2>5
<1>6. LRU_line_idx(set, time + 1) = {First(earliest)}
  BY <1>5 DEF LRU_line_idx
<1>7. earliest \in SUBSET Nat
  BY DEF Lines
<1>8. line \in earliest
  BY <1>2, <1>5, <1>6, <1>7, LeastIn
<1>9. line \in Lines /\ \A k \in Lines : age(line) <= age(k)
  BY <1>8
<1> DEFINE p == <<set, line>>
<1>10. p \in Places /\ p \in Valid /\ p[1] = set /\ Index(p) = At(set, line)
  BY <1>4, <1>9 DEF Places, Index
<1>11. ASSUME NEW z \in Places, z[1] = set PROVE Accessed(p) <= Accessed(z)
  <2>1. z[2] \in Lines /\ Accessed(z) = age(z[2])
    BY <1>11 DEF Places, Accessed
  <2>2. Accessed(p) = age(line)
    BY DEF Accessed
  <2> QED BY <1>9, <2>1, <2>2
<1>12. Absent(set, tag)
  BY <1>1, Found DEF Absent
<1>13. Writes(p, tag)
  BY <1>2, <1>10 DEF Writes
<1> HIDE DEF p
<1>14. Replace(p, tag)
  BY <1>3, <1>10, <1>11, <1>12 DEF Replace
<1> QED BY <1>10, <1>13, <1>14

-----------------------------------------------------------------------------
(* What a write does to the lines in use and to the invariant. *)

LEMMA Written ==
  ASSUME CsimInv, NEW p \in Places, NEW tag \in Nat, Writes(p, tag), time' = time + 1
  PROVE  /\ Valid' = Valid \cup {p} /\ CacheTyped'
         /\ Tag(p)' = tag /\ Accessed(p)' = time + 1 /\ BlockIn(p)' = tag * S + p[1]
         /\ \A z \in Places : z # p =>
              Tag(z)' = Tag(z) /\ Accessed(z)' = Accessed(z) /\ BlockIn(z)' = BlockIn(z)
<1> DEFINE new == Filled(tag, time + 1)
<1>1. /\ cache \in [0..S*E-1 -> [valid_bit : {0, 1}, tag : Nat, access_time : Nat]]
      /\ time \in Nat
  BY DEF CsimInv, CacheTyped
<1>2. Index(p) \in 0..S*E-1
  BY Indices
<1>3. new \in [valid_bit : {0, 1}, tag : Nat, access_time : Nat]
      /\ new.valid_bit = 1 /\ new.tag = tag /\ new.access_time = time + 1
  BY <1>1 DEF Filled
<1>4. cache' = [cache EXCEPT ![Index(p)] = new]
  BY DEF Writes
<1> HIDE DEF new
<1>5. cache'[Index(p)] = new
  BY <1>1, <1>2, <1>4
<1>6. ASSUME NEW z \in Places, z # p PROVE cache'[Index(z)] = cache[Index(z)]
  <2>1. Index(z) # Index(p) /\ Index(z) \in 0..S*E-1
    BY <1>6, Indices
  <2> QED BY <1>1, <1>4, <2>1
<1>7. CacheTyped'
  BY <1>1, <1>2, <1>3, <1>4 DEF CacheTyped
<1>8. \A z : /\ z \in Valid <=> z \in Places /\ cache[Index(z)].valid_bit = 1
             /\ z \in Valid' <=> z \in Places /\ cache'[Index(z)].valid_bit = 1
  BY DEF Valid, Places, Index
<1>9. Valid' = Valid \cup {p}
  BY <1>3, <1>5, <1>6, <1>8
<1>10. \A z : /\ Tag(z) = cache[Index(z)].tag /\ Tag(z)' = cache'[Index(z)].tag
              /\ Accessed(z) = cache[Index(z)].access_time
              /\ Accessed(z)' = cache'[Index(z)].access_time
              /\ BlockIn(z) = cache[Index(z)].tag * S + z[1]
              /\ BlockIn(z)' = cache'[Index(z)].tag * S + z[1]
  BY DEF Tag, Accessed, BlockIn, Index
<1>11. Tag(p)' = tag /\ Accessed(p)' = time + 1 /\ BlockIn(p)' = tag * S + p[1]
  BY <1>3, <1>5, <1>10
<1>12. \A z \in Places : z # p =>
         Tag(z)' = Tag(z) /\ Accessed(z)' = Accessed(z) /\ BlockIn(z)' = BlockIn(z)
  BY <1>6, <1>10
<1> QED BY <1>7, <1>9, <1>11, <1>12

LEMMA ValidPlaces == Valid \subseteq Places
BY DEF Valid, Places

\* The write puts the time ahead of all others, and a tag where it is, or where
\* no line of the set has it.
LEMMA WriteKeeps ==
  ASSUME CsimInv, NEW p \in Places, NEW tag \in Nat, Writes(p, tag), time' = time + 1,
         Hit(p, tag) \/ Absent(p[1], tag)
  PROVE  CsimInv'
<1>1. /\ Valid' = Valid \cup {p} /\ CacheTyped'
      /\ Tag(p)' = tag /\ Accessed(p)' = time + 1
      /\ \A z \in Places : z # p => Tag(z)' = Tag(z) /\ Accessed(z)' = Accessed(z)
  BY Written
<1>2. time \in Nat /\ \A z \in Valid : Accessed(z) \in Nat /\ z \in Places
  BY BlockParts DEF CsimInv, CacheTyped
<1>3. /\ \A z \in Valid : Accessed(z) <= time
      /\ \A z, r \in Valid : Accessed(z) = Accessed(r) => z = r
      /\ \A z, r \in Valid : z[1] = r[1] /\ Tag(z) = Tag(r) => z = r
  BY DEF CsimInv, Timed, TagsDiffer
<1>4. ASSUME NEW z \in Valid' PROVE (z \in Valid /\ z \in Places) \/ z = p
  BY <1>1, <1>2
<1>5. ASSUME NEW z \in Valid' PROVE Accessed(z)' <= time'
  <2>1. CASE z = p
    BY <1>1, <1>2, <2>1
  <2>2. CASE z # p
    <3>1. z \in Valid /\ z \in Places
      BY <1>4, <2>2
    <3>2. Accessed(z)' = Accessed(z) /\ Accessed(z) <= time /\ Accessed(z) \in Nat
      BY <1>1, <1>2, <1>3, <2>2, <3>1
    <3> QED BY <1>2, <3>2
  <2> QED BY <2>1, <2>2
<1>6. ASSUME NEW z \in Valid', z # p PROVE Accessed(z)' # Accessed(p)'
  <2>1. z \in Valid /\ z \in Places
    BY <1>4, <1>6
  <2>2. Accessed(z)' = Accessed(z) /\ Accessed(z) <= time /\ Accessed(z) \in Nat
    BY <1>1, <1>2, <1>3, <1>6, <2>1
  <2> QED BY <1>1, <1>2, <2>2
<1>7. ASSUME NEW z \in Valid', NEW r \in Valid', Accessed(z)' = Accessed(r)' PROVE z = r
  <2>1. CASE z = p \/ r = p
    BY <1>6, <1>7, <2>1
  <2>2. CASE z # p /\ r # p
    <3>1. z \in Valid /\ z \in Places /\ r \in Valid /\ r \in Places
      BY <1>4, <2>2
    <3> QED BY <1>1, <1>3, <1>7, <2>2, <3>1
  <2> QED BY <2>1, <2>2
<1>8. ASSUME NEW z \in Valid', z # p, z[1] = p[1] PROVE Tag(z)' # Tag(p)'
  <2>1. z \in Valid /\ z \in Places
    BY <1>4, <1>8
  <2>2. Tag(z)' = Tag(z)
    BY <1>1, <1>8, <2>1
  <2>3. CASE Hit(p, tag)
    BY <1>1, <1>3, <1>8, <2>1, <2>2, <2>3 DEF Hit
  <2>4. CASE Absent(p[1], tag)
    BY <1>1, <1>8, <2>1, <2>2, <2>4 DEF Absent
  <2> QED BY <2>3, <2>4
<1>9. ASSUME NEW z \in Valid', NEW r \in Valid', z[1] = r[1], Tag(z)' = Tag(r)' PROVE z = r
  <2>1. CASE z = p \/ r = p
    BY <1>8, <1>9, <2>1
  <2>2. CASE z # p /\ r # p
    <3>1. z \in Valid /\ z \in Places /\ r \in Valid /\ r \in Places
      BY <1>4, <2>2
    <3> QED BY <1>1, <1>3, <1>9, <2>2, <3>1
  <2> QED BY <2>1, <2>2
<1>10. Timed'
  BY <1>5, <1>7 DEF Timed
<1>11. TagsDiffer'
  BY <1>9 DEF TagsDiffer
<1> QED BY <1>1, <1>10, <1>11 DEF CsimInv

-----------------------------------------------------------------------------
(* The abstract cache. *)

BlocksIn(V) == {BlockIn(z) : z \in V}

LEMMA HeldIs == Held = BlocksIn(Valid)
BY DEF Held, BlocksIn

OlderPairs == Older \subseteq Held \X Held
OlderOrders ==
  \A x, y : <<x, y>> \in Older <=>
    \E z, r \in Valid : x = BlockIn(z) /\ y = BlockIn(r) /\ Accessed(z) < Accessed(r)

LEMMA OlderIs == OlderPairs /\ OlderOrders
<1>1. ASSUME NEW r \in Earlier
      PROVE  r[1] \in Valid /\ r[2] \in Valid /\ Accessed(r[1]) < Accessed(r[2])
  BY DEF Earlier
<1>2. Older \subseteq Held \X Held
  BY <1>1 DEF Older, Held
<1>3. ASSUME NEW x, NEW y, <<x, y>> \in Older
      PROVE  \E z, r \in Valid : x = BlockIn(z) /\ y = BlockIn(r) /\ Accessed(z) < Accessed(r)
  <2>1. PICK r \in Earlier : <<x, y>> = <<BlockIn(r[1]), BlockIn(r[2])>>
    BY <1>3 DEF Older
  <2>2. x = BlockIn(r[1]) /\ y = BlockIn(r[2])
    BY <2>1
  <2> QED BY <1>1, <2>2
<1>4. ASSUME NEW z \in Valid, NEW r \in Valid, Accessed(z) < Accessed(r)
      PROVE  <<BlockIn(z), BlockIn(r)>> \in Older
  <2> DEFINE e == <<z, r>>
  <2>1. e \in Earlier /\ e[1] = z /\ e[2] = r
    BY <1>4 DEF Earlier
  <2> HIDE DEF e
  <2> QED BY <2>1 DEF Older
<1> QED BY <1>2, <1>3, <1>4 DEF OlderPairs, OlderOrders

LEMMA PairsEqual ==
  ASSUME NEW X, NEW P, NEW Q, P \subseteq X \X X, Q \subseteq X \X X,
         \A x, y \in X : <<x, y>> \in P <=> <<x, y>> \in Q
  PROVE  P = Q
<1>1. ASSUME NEW e \in X \X X PROVE e \in P <=> e \in Q
  <2>1. PICK x \in X, y \in X : e = <<x, y>>
    OBVIOUS
  <2> QED BY <2>1
<1> QED BY <1>1

\* After a write the blocks of the other lines are held as before, in the order
\* they had, and that of the line is the one used last.
LEMMA WrittenBlocks ==
  ASSUME CsimInv, NEW p \in Places, NEW tag \in Nat, Writes(p, tag), time' = time + 1
  PROVE  LET others == BlocksIn(Valid \ {p})
             block == tag * S + p[1]
         IN /\ Held' = others \cup {block}
            /\ Older' = (Older \cap (others \X others)) \cup (others \X {block})
<1> DEFINE V == Valid \ {p}
           others == BlocksIn(V)
           block == tag * S + p[1]
           Later == (Older \cap (others \X others)) \cup (others \X {block})
<1>1. /\ Valid' = Valid \cup {p} /\ CacheTyped'
      /\ Accessed(p)' = time + 1 /\ BlockIn(p)' = block
      /\ \A z \in Places : z # p => Accessed(z)' = Accessed(z) /\ BlockIn(z)' = BlockIn(z)
  BY Written
<1>2. /\ time \in Nat
      /\ \A z \in Valid : z \in Places /\ Accessed(z) \in Nat /\ Accessed(z) <= time
      /\ \A z, r \in Valid : BlockIn(z) = BlockIn(r) => z = r
  BY BlockParts, BlocksDiffer DEF CsimInv, CacheTyped, Timed
<1>3. \A z \in V : /\ z \in Valid /\ z \in Valid' /\ z # p
                   /\ Accessed(z)' = Accessed(z) /\ BlockIn(z)' = BlockIn(z)
                   /\ Accessed(z) \in Nat /\ Accessed(z) <= time
  BY <1>1, <1>2
<1>4. \A x : x \in others <=> \E z \in V : x = BlockIn(z)
  BY DEF BlocksIn
<1>5. \A x : x \in Held' <=> \E z \in Valid' : x = BlockIn(z)'
  BY DEF Held
<1>6. \A z : z \in Valid' <=> z \in V \/ z = p
  BY <1>1
<1>o. OlderPairs' /\ OlderOrders'
  BY OlderIs, PTL
<1>7. Older' \subseteq Held' \X Held'
  BY <1>o DEF OlderPairs
<1>8. \A x, y : <<x, y>> \in Older' <=>
        \E z, r \in Valid' : x = BlockIn(z)' /\ y = BlockIn(r)' /\ Accessed(z)' < Accessed(r)'
  BY <1>o DEF OlderOrders
<1>9. \A x, y : <<x, y>> \in Older <=>
        \E z, r \in Valid : x = BlockIn(z) /\ y = BlockIn(r) /\ Accessed(z) < Accessed(r)
  BY OlderIs DEF OlderOrders
<1> HIDE DEF V, others, block
<1>10. Held' = others \cup {block}
  <2>1. ASSUME NEW x PROVE x \in Held' <=> x \in others \/ x = block
    BY <1>1, <1>3, <1>4, <1>5, <1>6
  <2> QED BY <2>1
<1>11. Later \subseteq Held' \X Held'
  BY <1>10
<1>12. ASSUME NEW x, NEW y
       PROVE  <<x, y>> \in Later <=> \/ x \in others /\ y \in others /\ <<x, y>> \in Older
                                     \/ x \in others /\ y = block
  OBVIOUS
<1> HIDE DEF Later
<1>13. ASSUME NEW x, NEW y, <<x, y>> \in Older' PROVE <<x, y>> \in Later
  <2>1. PICK z \in Valid', r \in Valid' :
          x = BlockIn(z)' /\ y = BlockIn(r)' /\ Accessed(z)' < Accessed(r)'
    BY <1>8, <1>13
  <2>2. z # p
    <3> SUFFICES ASSUME z = p PROVE FALSE
      OBVIOUS
    <3>1. r # p
      BY <1>1, <1>2, <2>1
    <3>2. r \in V
      BY <1>6, <3>1
    <3>3. Accessed(r)' \in Nat /\ Accessed(r)' <= time
      BY <1>3, <3>2
    <3> QED BY <1>1, <1>2, <2>1, <3>3
  <2>3. z \in V /\ x = BlockIn(z) /\ x \in others /\ Accessed(z)' = Accessed(z)
    BY <1>3, <1>4, <1>6, <2>1, <2>2
  <2>4. CASE r = p
    BY <1>1, <1>12, <2>1, <2>3, <2>4
  <2>5. CASE r # p
    <3>1. r \in V
      BY <1>6, <2>5
    <3>2. y = BlockIn(r) /\ y \in others /\ Accessed(r)' = Accessed(r) /\ r \in Valid /\ z \in Valid
      BY <1>3, <1>4, <2>1, <2>3, <3>1
    <3>3. <<x, y>> \in Older
      BY <1>9, <2>1, <2>3, <3>2
    <3> QED BY <1>12, <2>3, <3>2, <3>3
  <2> QED BY <2>4, <2>5
<1>14. ASSUME NEW x, NEW y, <<x, y>> \in Later PROVE <<x, y>> \in Older'
  <2>1. PICK z \in V : x = BlockIn(z)
    BY <1>4, <1>12, <1>14
  <2>2. z \in Valid /\ z \in Valid' /\ x = BlockIn(z)' /\ Accessed(z)' = Accessed(z)
    BY <1>3, <2>1
  <2>3. CASE y = block
    <3>1. p \in Valid' /\ y = BlockIn(p)'
      BY <1>1, <1>6, <2>3
    <3>2. Accessed(z)' < Accessed(p)'
      BY <1>1, <1>2, <1>3, <2>1, <2>2
    <3> QED BY <1>8, <2>2, <3>1, <3>2
  <2>4. CASE y \in others /\ <<x, y>> \in Older
    <3>1. PICK u \in Valid, r \in Valid :
            x = BlockIn(u) /\ y = BlockIn(r) /\ Accessed(u) < Accessed(r)
      BY <1>9, <2>4
    <3>2. PICK v \in V : y = BlockIn(v)
      BY <1>4, <2>4
    <3>3. u = z /\ r = v
      BY <1>2, <1>3, <2>1, <2>2, <3>1, <3>2
    <3>4. r \in Valid' /\ y = BlockIn(r)' /\ Accessed(r)' = Accessed(r)
      BY <1>3, <3>2, <3>3
    <3>5. Accessed(z)' < Accessed(r)'
      BY <2>2, <3>1, <3>3, <3>4
    <3> QED BY <1>8, <2>2, <3>4, <3>5
  <2> QED BY <1>12, <1>14, <2>3, <2>4
<1>15. \A x, y \in Held' : <<x, y>> \in Older' <=> <<x, y>> \in Later
  BY <1>13, <1>14
<1>16. Older' = Later
  BY <1>7, <1>11, <1>15, PairsEqual
<1> QED BY <1>10, <1>16 DEF V, others, block, Later

LEMMA MatesAre ==
  ASSUME CacheTyped, NEW set \in Sets, NEW x
  PROVE  x \in Lru!Mates(set) <=> \E z \in Valid : z[1] = set /\ x = BlockIn(z)
<1>1. \A z \in Valid : BlockIn(z) % S = z[1]
  BY BlockParts
<1>2. x \in Lru!Mates(set) <=> x \in Held /\ x % S = set
  BY DEF Lru!Mates, Lru!Set
<1>3. x \in Held <=> \E z \in Valid : x = BlockIn(z)
  BY DEF Held
<1> QED BY <1>1, <1>2, <1>3

\* A set has as many blocks as lines in use, and all lines are in use if it has
\* as many as there are.
LEMMA MatesCount ==
  ASSUME CsimInv, NEW set \in Sets
  PROVE  Cardinality(Lru!Mates(set)) = E <=> \A z \in Places : z[1] = set => z \in Valid
<1> DEFINE L == {l \in Lines : <<set, l>> \in Valid}
           M == Lru!Mates(set)
           f == [l \in L |-> BlockIn(<<set, l>>)]
<1>1. CacheTyped /\ TagsDiffer
  BY DEF CsimInv
<1>2. ASSUME NEW z \in Places, z[1] = set PROVE z[2] \in Lines /\ z = <<set, z[2]>>
  BY <1>2 DEF Places
<1>3. IsFiniteSet(Lines) /\ Cardinality(Lines) = E
  <2>1. E - 1 \in Int /\ 0 \in Int /\ ~ (0 > E - 1) /\ (E - 1) - 0 + 1 = E
    BY Sizes
  <2> QED BY <2>1, FS_Interval DEF Lines
<1>4. L \in SUBSET Lines
  OBVIOUS
<1>5. /\ IsFiniteSet(L) /\ Cardinality(L) <= Cardinality(Lines)
      /\ Cardinality(L) = Cardinality(Lines) => L = Lines
  <2>1. /\ IsFiniteSet(L) /\ Cardinality(L) <= Cardinality(Lines)
        /\ Cardinality(Lines) = Cardinality(L) => Lines = L
    BY <1>3, <1>4, FS_Subset
  <2> QED BY <2>1
<1>6. \A l \in L : f[l] \in M
  BY <1>1, MatesAre
<1>7. \A x \in M : \E l \in L : f[l] = x
  <2> SUFFICES ASSUME NEW x \in M PROVE \E l \in L : f[l] = x
    OBVIOUS
  <2>1. PICK z \in Valid : z[1] = set /\ x = BlockIn(z)
    BY <1>1, MatesAre
  <2>2. z[2] \in L /\ z = <<set, z[2]>>
    BY <1>2, <2>1, ValidPlaces
  <2> QED BY <2>1, <2>2
<1>8. \A l, k \in L : f[l] = f[k] => l = k
  <2> SUFFICES ASSUME NEW l \in L, NEW k \in L, f[l] = f[k] PROVE l = k
    OBVIOUS
  <2>1. <<set, l>> = <<set, k>>
    BY <1>1, BlocksDiffer
  <2> QED BY <2>1
<1>9. f \in [L -> M]
  BY <1>6
<1> HIDE DEF M, f
<1>10. f \in Surjection(L, M)
  BY <1>7, <1>9 DEF Surjection
<1>11. f \in Injection(L, M)
  BY <1>8, <1>9 DEF Injection, IsInjective
<1>12. Cardinality(M) = Cardinality(L)
  BY <1>5, <1>10, <1>11, FS_Surjection
<1>13. L = Lines <=> \A z \in Places : z[1] = set => z \in Valid
  <2>1. ASSUME L = Lines, NEW z \in Places, z[1] = set PROVE z \in Valid
    BY <1>2, <2>1
  <2>2. ASSUME \A z \in Places : z[1] = set => z \in Valid, NEW l \in Lines PROVE l \in L
    <3>1. <<set, l>> \in Places /\ <<set, l>>[1] = set
      BY DEF Places
    <3> QED BY <2>2, <3>1
  <2> QED BY <2>1, <2>2
<1> HIDE DEF L
<1>14. Cardinality(M) = E <=> L = Lines
  BY <1>3, <1>5, <1>12
<1> QED BY <1>13, <1>14 DEF M

\* The block of the line accessed earliest is the one used least recently.
LEMMA LeastRecentIs ==
  ASSUME CsimInv, NEW tag, NEW p, Replace(p, tag)
  PROVE  Lru!LeastRecent(p[1]) = BlockIn(p)
<1> DEFINE M == Lru!Mates(p[1])
           Oldest(x) == \A y \in M \ {x} : <<x, y>> \in Older
<1>1. p \in Valid /\ p \in Places /\ p[1] \in Sets
  BY ValidPlaces DEF Replace, Places
<1>2. \A x : x \in M <=> \E z \in Valid : z[1] = p[1] /\ x = BlockIn(z)
  BY <1>1, MatesAre DEF CsimInv
<1>3. \A x, y : <<x, y>> \in Older <=>
        \E z, r \in Valid : x = BlockIn(z) /\ y = BlockIn(r) /\ Accessed(z) < Accessed(r)
  BY OlderIs DEF OlderOrders
<1>4. /\ \A z \in Valid : Accessed(z) \in Nat
      /\ \A z, r \in Valid : BlockIn(z) = BlockIn(r) => z = r
      /\ \A z, r \in Valid : Accessed(z) = Accessed(r) => z = r
  BY BlockParts, BlocksDiffer DEF CsimInv, Timed
<1>5. \A z \in Valid : z[1] = p[1] => Accessed(p) <= Accessed(z)
  BY ValidPlaces DEF Replace
<1> HIDE DEF M
<1>6. BlockIn(p) \in M
  BY <1>1, <1>2
<1>7. Oldest(BlockIn(p))
  <2> SUFFICES ASSUME NEW y \in M \ {BlockIn(p)} PROVE <<BlockIn(p), y>> \in Older
    OBVIOUS
  <2>1. PICK z \in Valid : z[1] = p[1] /\ y = BlockIn(z)
    BY <1>2
  <2>2. Accessed(p) < Accessed(z)
    BY <1>1, <1>4, <1>5, <2>1
  <2> QED BY <1>1, <1>3, <2>1, <2>2
<1>8. ASSUME NEW x \in M, Oldest(x) PROVE x = BlockIn(p)
  <2> SUFFICES ASSUME x # BlockIn(p) PROVE FALSE
    OBVIOUS
  <2>1. <<x, BlockIn(p)>> \in Older
    BY <1>6, <1>8
  <2>2. <<BlockIn(p), x>> \in Older
    BY <1>7
  <2>3. PICK z \in Valid, r \in Valid :
          x = BlockIn(z) /\ BlockIn(p) = BlockIn(r) /\ Accessed(z) < Accessed(r)
    BY <1>3, <2>1
  <2>4. PICK u \in Valid, v \in Valid :
          BlockIn(p) = BlockIn(u) /\ x = BlockIn(v) /\ Accessed(u) < Accessed(v)
    BY <1>3, <2>2
  <2>5. r = p /\ u = p /\ v = z
    BY <1>1, <1>4, <2>3, <2>4
  <2> QED BY <1>1, <1>4, <2>3, <2>4, <2>5
<1>9. Lru!LeastRecent(p[1]) = CHOOSE x \in M : Oldest(x)
  BY DEF Lru!LeastRecent, M
<1> HIDE DEF Oldest
<1> QED BY <1>6, <1>7, <1>8, <1>9

\* What happens to a block in a reference, by what happens to the lines.
LEMMA OthersAre ==
  ASSUME CsimInv, NEW p \in Places, NEW tag \in Nat,
         Hit(p, tag) \/ Fill(p, tag) \/ Replace(p, tag)
  PROVE  LET block == tag * S + p[1]
         IN /\ Lru!Others(block) = BlocksIn(Valid \ {p})
            /\ Lru!Hits(block) <=> Hit(p, tag)
            /\ Lru!Evicts(block) <=> Replace(p, tag)
<1> DEFINE block == tag * S + p[1]
           others == BlocksIn(Valid \ {p})
<1>1. CacheTyped /\ TagsDiffer /\ p[1] \in Sets /\ p[1] \in 0..S-1
  BY Sizes DEF CsimInv, Places, Sets
<1>2. block % S = p[1] /\ block \div S = tag
  <2>1. tag * S = S * tag
    BY Sizes
  <2> QED BY <1>1, <2>1, Sizes, Quotient
<1>3. ASSUME NEW z \in Valid PROVE block = BlockIn(z) <=> z[1] = p[1] /\ Tag(z) = tag
  <2>1. BlockIn(z) % S = z[1] /\ BlockIn(z) \div S = Tag(z)
    BY <1>1, BlockParts
  <2>2. BlockIn(z) = Tag(z) * S + z[1]
    BY DEF BlockIn, Tag, Index
  <2> HIDE DEF block
  <2>3. block = BlockIn(z) => z[1] = p[1] /\ Tag(z) = tag
    BY <1>2, <2>1
  <2>4. z[1] = p[1] /\ Tag(z) = tag => block = BlockIn(z)
    BY <2>2 DEF block
  <2> QED BY <2>3, <2>4
<1> HIDE DEF block
<1>4. Lru!Hits(block) <=> \E z \in Valid : z[1] = p[1] /\ Tag(z) = tag
  BY <1>3 DEF Lru!Hits, Held
<1>5. Hit(p, tag) => Lru!Hits(block)
  BY <1>4 DEF Hit
<1>6. Fill(p, tag) \/ Replace(p, tag) => ~Lru!Hits(block)
  BY <1>4 DEF Fill, Replace, Absent
<1>7. Lru!Evicts(block) <=>
        ~Lru!Hits(block) /\ \A z \in Places : z[1] = p[1] => z \in Valid
  <2>1. Lru!Evicts(block) <=> ~Lru!Hits(block) /\ Cardinality(Lru!Mates(p[1])) = E
    BY <1>2, Zenon DEF Lru!Evicts, Lru!Set, Lru!Cardinality, Cardinality
  <2>2. Cardinality(Lru!Mates(p[1])) = E <=> \A z \in Places : z[1] = p[1] => z \in Valid
    BY <1>1, MatesCount
  <2> QED BY <2>1, <2>2
<1>8. Fill(p, tag) => ~Lru!Evicts(block)
  BY <1>7 DEF Fill
<1>9. Replace(p, tag) => Lru!Evicts(block)
  BY <1>6, <1>7 DEF Replace
<1>10. (Lru!Hits(block) <=> Hit(p, tag)) /\ (Lru!Evicts(block) <=> Replace(p, tag))
  BY <1>5, <1>6, <1>7, <1>8, <1>9
<1>11. Lru!Others(block) =
         Held \ ({block} \cup IF Lru!Evicts(block) THEN {Lru!LeastRecent(p[1])} ELSE {})
  BY <1>2 DEF Lru!Others, Lru!Set
<1>12. \A x : /\ x \in Held <=> \E z \in Valid : x = BlockIn(z)
              /\ x \in others <=> \E z \in Valid : z # p /\ x = BlockIn(z)
  BY DEF Held, BlocksIn
<1>13. \A z, r \in Valid : BlockIn(z) = BlockIn(r) => z = r
  BY <1>1, BlocksDiffer
<1> HIDE DEF others
<1>14. CASE Hit(p, tag)
  <2>1. ~Lru!Evicts(block) /\ p \in Valid /\ block = BlockIn(p)
    BY <1>3, <1>5, <1>7, <1>14 DEF Hit
  <2>2. Lru!Others(block) = Held \ {block}
    BY <1>11, <2>1
  <2>3. \A x : x \in others <=> x \in Held /\ x # block
    BY <1>12, <1>13, <2>1
  <2> QED BY <2>2, <2>3, <1>10 DEF block, others
<1>15. CASE Fill(p, tag)
  <2>1. ~Lru!Evicts(block) /\ p \notin Valid /\ block \notin Held
    BY <1>6, <1>8, <1>15 DEF Fill, Lru!Hits
  <2>2. Lru!Others(block) = Held
    BY <1>11, <2>1
  <2>3. \A x : x \in others <=> x \in Held
    BY <1>12, <2>1
  <2> QED BY <2>2, <2>3, <1>10 DEF block, others
<1>16. CASE Replace(p, tag)
  <2>1. Lru!Evicts(block) /\ p \in Valid /\ block \notin Held
    BY <1>6, <1>9, <1>16 DEF Replace, Lru!Hits
  <2>2. Lru!LeastRecent(p[1]) = BlockIn(p)
    BY <1>16, LeastRecentIs
  <2>3. Lru!Others(block) = Held \ {block, BlockIn(p)}
    BY <1>11, <2>1, <2>2
  <2>4. \A x : x \in others <=> x \in Held /\ x # BlockIn(p) /\ x # block
    BY <1>12, <1>13, <2>1
  <2> QED BY <2>3, <2>4, <1>10 DEF block, others
<1> QED BY <1>14, <1>15, <1>16

-----------------------------------------------------------------------------
CountsTyped == count \in [hit : Nat, miss : Nat, evict : Nat]

\* What a reference adds to the counts.
Counted(hit, evict, extra) ==
  count' = [hit   |-> count.hit + (IF hit THEN 1 ELSE 0) + extra,
            miss  |-> count.miss + IF hit THEN 0 ELSE 1,
            evict |-> count.evict + IF evict THEN 1 ELSE 0]

LEMMA Loads ==
  ASSUME CsimInv, CountsTyped, NEW set \in Sets, NEW tag \in Nat, NEW extra \in Nat,
         load_to_cache(set, tag, time + 1, extra)
  PROVE  \E p \in Places :
           /\ p[1] = set /\ Writes(p, tag)
           /\ Hit(p, tag) \/ Fill(p, tag) \/ Replace(p, tag)
           /\ Counted(Hit(p, tag), Replace(p, tag), extra)
<1>1. \A p : /\ Hit(p, tag) => ~Replace(p, tag)
             /\ Fill(p, tag) => ~Hit(p, tag) /\ ~Replace(p, tag)
  BY DEF Hit, Fill, Replace, Absent
<1>2. /\ count = [hit |-> count.hit, miss |-> count.miss, evict |-> count.evict]
      /\ count.hit \in Nat /\ count.miss \in Nat /\ count.evict \in Nat
  BY DEF CountsTyped
<1>3. CASE if_cache_hit(set, tag, time + 1, extra)
  <2>1. PICK p \in Places : p[1] = set /\ Writes(p, tag) /\ Hit(p, tag)
    BY <1>3, HitWrites
  <2>2. count' = [count EXCEPT !.hit = @ + 1 + extra]
    BY <1>3 DEF if_cache_hit
  <2>3. count' = [hit |-> count.hit + 1 + extra, miss |-> count.miss, evict |-> count.evict]
    BY <1>2, <2>2
  <2>4. count.miss = count.miss + 0 /\ count.evict = count.evict + 0
    BY <1>2
  <2>5. Counted(TRUE, FALSE, extra)
    BY <2>3, <2>4 DEF Counted
  <2>6. (Hit(p, tag) <=> TRUE) /\ (Replace(p, tag) <=> FALSE)
    BY <1>1, <2>1
  <2>7. Counted(Hit(p, tag), Replace(p, tag), extra)
    BY <2>5, <2>6 DEF Counted
  <2> QED BY <2>1, <2>7
<1>4. CASE if_empty_line(set, tag, time + 1, extra)
  <2>1. PICK p \in Places : p[1] = set /\ Writes(p, tag) /\ Fill(p, tag)
    BY <1>4, FillWrites
  <2>2. count' = [count EXCEPT !.miss = @ + 1, !.hit = @ + extra]
    BY <1>4 DEF if_empty_line
  <2>3. count' = [hit |-> count.hit + extra, miss |-> count.miss + 1, evict |-> count.evict]
    BY <1>2, <2>2
  <2>4. count.hit + extra = count.hit + 0 + extra /\ count.evict = count.evict + 0
    BY <1>2
  <2>5. Counted(FALSE, FALSE, extra)
    BY <2>3, <2>4 DEF Counted
  <2>6. (Hit(p, tag) <=> FALSE) /\ (Replace(p, tag) <=> FALSE)
    BY <1>1, <2>1
  <2>7. Counted(Hit(p, tag), Replace(p, tag), extra)
    BY <2>5, <2>6 DEF Counted
  <2> QED BY <2>1, <2>7
<1>5. CASE replace(set, tag, time + 1, extra)
  <2>1. PICK p \in Places : p[1] = set /\ Writes(p, tag) /\ Replace(p, tag)
    BY <1>5, ReplaceWrites
  <2>2. count' = [count EXCEPT !.miss = @ + 1, !.evict = @ + 1, !.hit = @ + extra]
    BY <1>5 DEF replace
  <2>3. count' = [hit |-> count.hit + extra, miss |-> count.miss + 1, evict |-> count.evict + 1]
    BY <1>2, <2>2
  <2>4. count.hit + extra = count.hit + 0 + extra
    BY <1>2
  <2>5. Counted(FALSE, TRUE, extra)
    BY <2>3, <2>4 DEF Counted
  <2>6. (Hit(p, tag) <=> FALSE) /\ (Replace(p, tag) <=> TRUE)
    BY <1>1, <2>1
  <2>7. Counted(Hit(p, tag), Replace(p, tag), extra)
    BY <2>5, <2>6 DEF Counted
  <2> QED BY <2>1, <2>7
<1> QED BY <1>3, <1>4, <1>5 DEF load_to_cache

LEMMA CsimInit ==
  ASSUME Init
  PROVE  CsimInv /\ CountsTyped /\ Lru!Init
<1>1. PICK g \in Garbage :
        cache = [i \in 0..S*E-1 |-> [valid_bit |-> 0, tag |-> g, access_time |-> g]]
  BY DEF Init, init_cache
<1>2. g \in Nat
  BY CsimAssumption DEF Garbage
<1>3. CacheTyped
  BY <1>1, <1>2 DEF Init, CacheTyped
<1>4. Valid = {}
  <2>1. ASSUME NEW p \in Places PROVE cache[Index(p)].valid_bit = 0
    BY <1>1, Indices
  <2> QED BY <2>1 DEF Valid, Places, Index
<1>5. CsimInv
  BY <1>3, <1>4 DEF CsimInv, Timed, TagsDiffer
<1>6. Held = {} /\ Older = {}
  BY <1>4, OlderIs DEF Held, OlderPairs
<1> QED BY <1>5, <1>6 DEF Init, Lru!Init, CountsTyped

LEMMA CsimStep ==
  ASSUME TagsFit, CsimInv, CountsTyped, [Next]_vars
  PROVE  CsimInv' /\ CountsTyped' /\ [Lru!Next]_<<read, Held, Older, count>>
<1>1. CASE UNCHANGED vars
  BY <1>1 DEF vars, CsimInv, CacheTyped, Timed, TagsDiffer, Valid, Tag, Accessed, Index, BlockIn,
              Held, Older, Earlier, CountsTyped
<1>2. ASSUME NEW op \in Operations, NEW address \in Addresses, Simulate(op, address)
      PROVE  CsimInv' /\ CountsTyped' /\ Lru!Next
  <2> DEFINE set == set_bits(address)
             tag == tag_bits(address) % TagMod
             extra == IF op = "M" THEN 1 ELSE 0
             line == [op |-> op, address |-> address]
             block == tag * S + set
  <2>1. set \in Sets /\ tag \in Nat /\ Lru!Block(address) = block
    BY BlockOfAddress DEF Lru!Block
  <2>2. /\ extra \in Nat /\ time' = time + 1 /\ read' = line
        /\ load_to_cache(set, tag, time + 1, extra)
    BY <1>2 DEF Simulate
  <2>3. line.op = op /\ line.address = address /\ line \in Lru!Line
    BY DEF Lru!Line, Operations
  <2>4. extra = IF line.op = "M" THEN 1 ELSE 0
    OBVIOUS
  <2> HIDE DEF set, tag, extra, line
  <2>5. PICK p \in Places :
          /\ p[1] = set /\ Writes(p, tag)
          /\ Hit(p, tag) \/ Fill(p, tag) \/ Replace(p, tag)
          /\ Counted(Hit(p, tag), Replace(p, tag), extra)
    BY <2>1, <2>2, Loads
  <2>6. CountsTyped'
    BY <2>2, <2>5 DEF CountsTyped, Counted
  <2>7. CsimInv'
    BY <2>1, <2>2, <2>5, WriteKeeps DEF Fill, Replace
  <2>8. /\ Held' = BlocksIn(Valid \ {p}) \cup {block}
        /\ Older' = (Older \cap (BlocksIn(Valid \ {p}) \X BlocksIn(Valid \ {p})))
                      \cup (BlocksIn(Valid \ {p}) \X {block})
    BY <2>1, <2>2, <2>5, WrittenBlocks
  <2>9. /\ Lru!Others(block) = BlocksIn(Valid \ {p})
        /\ Lru!Hits(block) <=> Hit(p, tag)
        /\ Lru!Evicts(block) <=> Replace(p, tag)
    BY <2>1, <2>5, OthersAre
  <2> HIDE DEF block
  <2>10. Counted(Lru!Hits(block), Lru!Evicts(block), IF line.op = "M" THEN 1 ELSE 0)
    BY <2>4, <2>5, <2>9 DEF Counted
  <2>11. Lru!Reference(line)
    BY <2>1, <2>2, <2>3, <2>8, <2>9, <2>10 DEF Lru!Reference, Counted
  <2> QED BY <2>3, <2>6, <2>7, <2>11 DEF Lru!Next
<1> QED BY <1>1, <1>2 DEF Next

\* csim.c hits, misses and evicts as an LRU cache does with the blocks of the
\* addresses, for any number of sets and lines, whatever the lines hold before
\* they are used, as long as the tags fit in the int that carries them.
THEOREM CsimIsLru ==
  ASSUME TagsFit
  PROVE  Spec => ImplementsLru
<1>1. CsimInv /\ CountsTyped /\ [Next]_vars
        => CsimInv' /\ CountsTyped' /\ [Lru!Next]_<<read, Held, Older, count>>
  BY CsimStep
<1> QED BY <1>1, CsimInit, PTL DEF Spec, ImplementsLru, Lru!Spec

-----------------------------------------------------------------------------
(***************************************************************************)
(* btest.c: the alarm of a test is replaced when the next one is set, and  *)
(* is not cancelled otherwise.  Every puzzle sets it but those -f skips,   *)
(* and at most two are left then: -f names one of the float puzzles.       *)
(***************************************************************************)
LEMMA TestSet ==
  /\ Len(test_set) = 13
  /\ test_set[11].name = "float_twice" /\ test_set[12].name = "float_i2f"
  /\ test_set[13].name = "float_f2i"
  /\ \A t \in 1..13 : test_set[t].name \in FloatPuzzles => t >= 11
<1>1. Len(test_set) = 13
  BY DEF test_set
<1>2. /\ test_set[1].name = "bitXor" /\ test_set[2].name = "tmin"
      /\ test_set[3].name = "isTmax" /\ test_set[4].name = "allOddBits"
      /\ test_set[5].name = "negate" /\ test_set[6].name = "isAsciiDigit"
      /\ test_set[7].name = "conditional" /\ test_set[8].name = "isLessOrEqual"
      /\ test_set[9].name = "logicalNeg" /\ test_set[10].name = "howManyBits"
  BY DEF test_set, Puzzle
<1>3. /\ test_set[11].name = "float_twice" /\ test_set[12].name = "float_i2f"
      /\ test_set[13].name = "float_f2i"
  BY DEF test_set, Puzzle
<1>4. ASSUME NEW t \in 1..10 PROVE test_set[t].name \notin FloatPuzzles
  <2>1. t = 1 \/ t = 2 \/ t = 3 \/ t = 4 \/ t = 5 \/ t = 6 \/ t = 7 \/ t = 8 \/ t = 9 \/ t = 10
    OBVIOUS
  <2> QED BY <1>2, <2>1 DEF FloatPuzzles
<1>5. \A t \in 1..13 : t \in 1..10 \/ t >= 11
  OBVIOUS
<1> QED BY <1>1, <1>3, <1>4, <1>5

Named == test_fname \in {None, test_set[test].name}

\* What is left of an alarm that has been set: all but the ticks since then.
Due(ticks) == alarm > 0 => alarm + spent + ticks >= timeout_limit

\* None of the puzzles from this one on is the one that -f names.
Passed == \A t \in test..13 : test_set[t].name # test_fname

TestsTyped ==
  /\ phase \in {"options", "start", "gen", "arm", "run", "next", "done", "exit"}
  /\ test \in 1..14 /\ (phase \in {"gen", "arm", "run", "next"} => test <= 13 /\ Named)
  /\ test_fname \in {None} \cup FloatPuzzles
  /\ alarm \in Nat /\ spent \in 0..Slowness

Alarms ==
  /\ phase = "options" => alarm = 0
  /\ phase = "start" /\ test_fname = None => Due(0)
  /\ phase = "start" /\ test_fname # None /\ alarm > 0 =>
       /\ test >= 12 /\ Passed
       /\ test = 12 => Due(0)
       /\ test = 13 => Due(Slowness)
  /\ phase \in {"gen", "arm"} => Due(Slowness) /\ (alarm > 0 => test_fname = None)
  /\ phase = "run" => alarm > 0 /\ (~Loops => Due(0))
  /\ phase = "next" => Due(0)

LateLoops == \A t \in late : fault.kind = "loops" /\ test_set[t].name = fault.name

TestsInv == TestsTyped /\ Alarms /\ LateLoops

LEMMA TestsInit == TestInit => TestsInv
BY BtestAssumption DEF TestInit, TestsInv, TestsTyped, Alarms, LateLoops

LEMMA OptionsStep == TestsInv /\ Options => TestsInv'
BY BtestAssumption DEF Options, TestsInv, TestsTyped, Alarms, LateLoops, Due, command

LEMMA BeginStep == TestsInv /\ Begin => TestsInv'
<1> SUFFICES ASSUME TestsInv, Begin PROVE TestsInv'
  OBVIOUS
<1> USE DEF TestsInv, TestsTyped, Alarms, LateLoops
<1>1. /\ phase = "start" /\ spent' = 0
      /\ UNCHANGED <<test_fname, fault, late, alarm>>
  BY DEF Begin, command
<1>2. Slowness \in Nat /\ timeout_limit \in Nat
  BY BtestAssumption
<1>3. CASE test > 13
  BY <1>1, <1>2, <1>3, TestSet DEF Begin
<1>4. CASE test <= 13 /\ Named
  <2>1. phase' = "gen" /\ test' = test
    BY <1>4, TestSet DEF Begin, Named
  <2>2. alarm > 0 => test_fname = None
    BY <1>1, <1>4 DEF Passed, Named
  <2>3. Due(Slowness)'
    BY <1>1, <1>2, <2>2 DEF Due
  <2>4. Named'
    BY <1>1, <1>4, <2>1 DEF Named
  <2> QED BY <1>1, <1>2, <1>4, <2>1, <2>2, <2>3, <2>4
<1>5. CASE test <= 13 /\ ~Named
  <2>1. phase' = "start" /\ test' = test + 1 /\ test_fname # None
    BY <1>1, <1>5, TestSet DEF Begin, Named
  <2>2. ASSUME alarm' > 0
        PROVE  /\ test' >= 12 /\ Passed'
               /\ test' = 12 => Due(0)'
               /\ test' = 13 => Due(Slowness)'
    BY <1>1, <1>2, <2>1, <2>2 DEF Passed, Due
  <2> QED BY <1>1, <1>2, <1>5, <2>1, <2>2
<1> QED BY <1>3, <1>4, <1>5

LEMMA GenerateStep == TestsInv /\ Generate => TestsInv'
BY DEF Generate, TestsInv, TestsTyped, Alarms, LateLoops, Due, command, Named, score

LEMMA ArmStep == TestsInv /\ Arm => TestsInv'
BY BtestAssumption DEF Arm, TestsInv, TestsTyped, Alarms, LateLoops, Due, command, Named, Loops, score

LEMMA TryStep == TestsInv /\ Try => TestsInv'
BY DEF Try, TestsInv, TestsTyped, Alarms, LateLoops, Due, command, Named, Loops, score

LEMMA ScoreStep == TestsInv /\ Score => TestsInv'
<1> SUFFICES ASSUME TestsInv, Score PROVE TestsInv'
  OBVIOUS
<1> USE DEF TestsInv, TestsTyped, Alarms, LateLoops
<1>1. /\ phase = "next" /\ phase' = "start" /\ test' = test + 1
      /\ UNCHANGED <<test_fname, fault, late, alarm, spent>>
  BY DEF Score, command
<1>2. Due(0) /\ Due(0)' /\ Slowness \in Nat /\ timeout_limit \in Nat
  BY <1>1, BtestAssumption DEF Due
<1>3. Due(Slowness)'
  BY <1>1, <1>2 DEF Due
<1>4. ASSUME test_fname # None PROVE test >= 11 /\ Passed'
  <2>1. test_fname = test_set[test].name /\ test_fname \in FloatPuzzles /\ test \in 1..13
    BY <1>1, <1>4 DEF Named
  <2>2. test \in 11..13
    BY <2>1, TestSet
  <2>3. \A t \in test + 1..13 : test_set[t].name # test_set[test].name
    BY <2>2, TestSet
  <2> QED BY <1>1, <2>1, <2>2, <2>3 DEF Passed
<1> QED BY <1>1, <1>2, <1>3, <1>4

\* Outside a test that does not return a second leaves what is left and spent
\* together the same, and there is more than one second left.
LEMMA SecondStep == TestsInv /\ Second => TestsInv'
<1> SUFFICES ASSUME TestsInv, Second PROVE TestsInv'
  OBVIOUS
<1> USE DEF TestsInv, TestsTyped, Alarms, LateLoops
<1>1. /\ alarm > 0 /\ phase \in {"start", "gen", "arm", "run", "next"} /\ test <= 13
      /\ (Loops /\ phase = "run") \/ spent < Slowness
      /\ alarm' = alarm - 1 /\ spent' = Min({spent + 1, Slowness})
      /\ UNCHANGED <<test, test_fname, fault>>
  BY TestSet DEF Second, command
<1>2. Slowness \in Nat /\ timeout_limit \in Nat /\ timeout_limit > 2 * Slowness
  BY BtestAssumption
<1>3. /\ Min({spent + 1, Slowness}) \in {spent + 1, Slowness}
      /\ Min({spent + 1, Slowness}) <= spent + 1 /\ Min({spent + 1, Slowness}) <= Slowness
  <2>1. {spent + 1, Slowness} \in SUBSET Nat /\ {spent + 1, Slowness} # {}
    BY <1>2
  <2> QED BY <2>1, MinNat
<1>4. CASE Loops /\ phase = "run"
  <2>1. CASE alarm > 1
    <3>1. UNCHANGED <<phase, terrors, late>>
      BY <1>1, <2>1 DEF Second
    <3>2. Loops' /\ Named'
      BY <1>1, <1>4 DEF Loops, Named
    <3> QED BY <1>1, <1>2, <1>3, <1>4, <2>1, <3>1, <3>2
  <2>2. CASE alarm = 1
    <3>1. phase' = "next" /\ late' = late \cup {test}
      BY <1>1, <1>4, <2>2 DEF Second
    <3>2. Named' /\ alarm' = 0 /\ Due(0)'
      BY <1>1, <1>4, <2>2 DEF Named, Due
    <3>3. LateLoops'
      BY <1>1, <1>4, <3>1 DEF Loops
    <3> QED BY <1>1, <1>2, <1>3, <1>4, <3>1, <3>2, <3>3
  <2> QED BY <1>1, <2>1, <2>2
<1>5. CASE ~(Loops /\ phase = "run")
  <2>1. spent < Slowness /\ spent' = spent + 1
    BY <1>1, <1>2, <1>3, <1>5
  <2>2. Due(Slowness)
    <3>1. Due(0) => Due(Slowness)
      BY <1>1, <1>2 DEF Due
    <3>2. phase = "start" /\ test_fname # None => test = 12 \/ test = 13
      BY <1>1
    <3> QED BY <1>1, <1>5, <3>1, <3>2
  <2>3. alarm > 1
    BY <1>1, <1>2, <2>1, <2>2 DEF Due
  <2>4. UNCHANGED <<phase, terrors, late>>
    BY <1>1, <2>3 DEF Second
  <2>5. (Due(0) => Due(0)') /\ (Due(Slowness) => Due(Slowness)')
    BY <1>1, <1>2, <2>1 DEF Due
  <2>6. (Loops' <=> Loops) /\ (Named' <=> Named) /\ (Passed' <=> Passed)
    BY <1>1 DEF Loops, Named, Passed
  <2> QED BY <1>1, <1>2, <2>1, <2>3, <2>4, <2>5, <2>6
<1> QED BY <1>4, <1>5

\* As long as a test that returns takes less than half the limit, only a
\* solution that does not return is timed out, and the handler of the alarm
\* finds the frame it jumps to, for any limit and whichever float puzzle -f names.
THEOREM OnlyLoopsLate == TestSpec => []Blame
<1>1. TestsInv => Blame
  BY DEF TestsInv, TestsTyped, LateLoops, Blame
<1>2. TestsInv /\ [TestNext]_testvars => TestsInv'
  <2>1. TestsInv /\ UNCHANGED testvars => TestsInv'
    BY DEF testvars, TestsInv, TestsTyped, Alarms, LateLoops, Due, Named, Loops, Passed
  <2> QED BY <2>1, OptionsStep, BeginStep, GenerateStep, ArmStep, TryStep, ScoreStep, SecondStep
          DEF TestNext, Work
<1> QED BY <1>1, <1>2, TestsInit, PTL DEF TestSpec

-----------------------------------------------------------------------------
(***************************************************************************)
(* qtest: what a program of writes leaves as it was.                       *)
(***************************************************************************)
Fields == {"blk", "allocated", "allocated_count", "cautious_mode", "noallocate_mode",
           "error", "lost"}

\* n is a memory in the modes of k.
Memory(k) == k = [x \in Fields |-> k[x]]
Keeps(k, n) ==
  /\ Memory(n) /\ n.cautious_mode = k.cautious_mode /\ n.noallocate_mode = k.noallocate_mode

LEMMA RelinkKeeps ==
  ASSUME NEW k, Memory(k), NEW a, NEW field, NEW u
  PROVE  Keeps(k, Relink(k, a, field, u))
BY DEF Memory, Keeps, Relink, Lose, Fields

LEMMA FindKeeps ==
  ASSUME NEW k, Memory(k), NEW a
  PROVE  Keeps(k, find_header(k, a))
BY DEF Memory, Keeps, find_header, Lose, Fields

LEMMA HeaderKeeps ==
  ASSUME NEW k, Memory(k), NEW w
  PROVE  Keeps(k, Header(k, w))
<1>1. Keeps(k, Lose(k))
  BY DEF Memory, Keeps, Lose, Fields
<1>2. ASSUME NEW v PROVE /\ Keeps(k, [k EXCEPT !.blk = v]) /\ Keeps(k, [k EXCEPT !.allocated = v])
                         /\ Keeps(k, [k EXCEPT !.allocated_count = v])
  BY DEF Memory, Keeps, Fields
<1>3. ASSUME NEW a, NEW v PROVE Keeps(k, [k EXCEPT !.blk[a] = v]) /\ Keeps(k, [k EXCEPT !.blk[a].magic = v])
  BY DEF Memory, Keeps, Fields
<1>4. Keeps(k, [k EXCEPT !.allocated_count = @ + w.v])
  BY DEF Memory, Keeps, Fields
<1> QED BY <1>1, <1>2, <1>3, <1>4, RelinkKeeps, FindKeeps, Zenon DEF Header

LEMMA PayloadKeeps ==
  ASSUME NEW k, Memory(k), NEW w
  PROVE  Keeps(k, Payload(k, w))
<1>1. Keeps(k, Lose(k)) /\ Keeps(k, k)
  BY DEF Memory, Keeps, Lose, Fields
<1>2. ASSUME NEW a, NEW v
      PROVE  /\ Keeps(k, [k EXCEPT !.blk[a].data = v]) /\ Keeps(k, [k EXCEPT !.blk[a].data.next = v])
             /\ Keeps(k, [k EXCEPT !.blk[a].data.head = v]) /\ Keeps(k, [k EXCEPT !.blk[a].data.tail = v])
             /\ Keeps(k, [k EXCEPT !.blk[a].data.size = @ + v])
  BY DEF Memory, Keeps, Fields
<1> QED BY <1>1, <1>2, Zenon DEF Payload

LEMMA ExecuteKeeps ==
  ASSUME NEW k, Memory(k), NEW w
  PROVE  Keeps(k, Execute(k, w))
BY HeaderKeeps, PayloadKeeps, Zenon DEF Execute, Keeps

\* The recursion of Run has a solution, for every program.
Runs(run, k, program) ==
  run = [n \in 0..Len(program) |-> IF n = 0 THEN k ELSE Execute(run[n - 1], program[n])]

LEMMA RunExists ==
  ASSUME NEW k, NEW program, Len(program) \in Nat
  PROVE  \E run : Runs(run, k, program)
<1> DEFINE l == Len(program)
           Upto(run, j) == run = [n \in 0..j |-> IF n = 0 THEN k ELSE Execute(run[n - 1], program[n])]
           Good == {j \in Nat : \E run : Upto(run, j)}
<1>1. 0 \in Good
  <2> DEFINE run == [n \in 0..0 |-> k]
  <2>1. Upto(run, 0)
    OBVIOUS
  <2> QED BY <2>1
<1>2. ASSUME NEW j \in Nat, j \in Good PROVE j + 1 \in Good
  <2>1. PICK run : Upto(run, j)
    BY <1>2
  <2>a. \A n \in 0..j : run[n] = IF n = 0 THEN k ELSE Execute(run[n - 1], program[n])
    BY <2>1
  <2> DEFINE next == [n \in 0..j + 1 |-> IF n = j + 1 THEN Execute(run[j], program[j + 1]) ELSE run[n]]
  <2>2. ASSUME NEW n \in 0..j + 1
        PROVE  next[n] = IF n = 0 THEN k ELSE Execute(next[n - 1], program[n])
    <3>1. CASE n = j + 1
      <4>1. n # 0 /\ n - 1 = j /\ j # j + 1 /\ j \in 0..j + 1
        BY <3>1
      <4>2. next[j] = run[j] /\ next[n] = Execute(run[j], program[j + 1])
        BY <3>1, <4>1
      <4> QED BY <3>1, <4>1, <4>2
    <3>2. CASE n # j + 1
      <4>1. n \in 0..j /\ next[n] = run[n]
        BY <3>2
      <4>2. n # 0 => next[n - 1] = run[n - 1]
        BY <4>1
      <4> QED BY <2>a, <4>1, <4>2
    <3> QED BY <3>1, <3>2
  <2>3. DOMAIN next = 0..j + 1 /\ next = [n \in 0..j + 1 |-> next[n]]
    OBVIOUS
  <2> HIDE DEF next
  <2>4. Upto(next, j + 1)
    BY <2>2, <2>3
  <2> QED BY <2>4
<1> HIDE DEF Good
<1>3. l \in Good
  BY <1>1, <1>2, Induct
<1> QED BY <1>3 DEF Good, Runs

LEMMA RunIs ==
  ASSUME NEW k, NEW program, Len(program) \in Nat
  PROVE  \E run : Runs(run, k, program) /\ Run(k, program) = run[Len(program)]
<1> DEFINE run == CHOOSE r : Runs(r, k, program)
<1>1. Runs(run, k, program)
  BY RunExists
<1>2. Run(k, program) = run[Len(program)]
  BY DEF Run, Runs
<1> QED BY <1>1, <1>2

\* No program leaves a mode, or the shape of the memory, changed.
LEMMA RunKeeps ==
  ASSUME NEW k, Memory(k), NEW program, Len(program) \in Nat
  PROVE  Keeps(k, Run(k, program))
<1>1. PICK run : Runs(run, k, program) /\ Run(k, program) = run[Len(program)]
  BY RunIs
<1> DEFINE l == Len(program)
           Good == {n \in Nat : n <= l => Keeps(k, run[n])}
<1>2. \A n \in 0..l : run[n] = IF n = 0 THEN k ELSE Execute(run[n - 1], program[n])
  BY <1>1 DEF Runs
<1>3. 0 \in Good
  BY <1>2 DEF Keeps
<1>4. ASSUME NEW n \in Nat, n \in Good PROVE n + 1 \in Good
  <2> SUFFICES ASSUME n + 1 <= l PROVE Keeps(k, run[n + 1])
    OBVIOUS
  <2>1. Keeps(k, run[n])
    BY <1>4
  <2>2. run[n + 1] = Execute(run[n], program[n + 1])
    BY <1>2
  <2>3. Keeps(run[n], Execute(run[n], program[n + 1]))
    BY <2>1, ExecuteKeeps DEF Keeps
  <2> QED BY <2>1, <2>2, <2>3 DEF Keeps
<1> HIDE DEF Good
<1>5. l \in Good
  BY <1>3, <1>4, Induct
<1> QED BY <1>1, <1>5 DEF Good

-----------------------------------------------------------------------------
(***************************************************************************)
(* Every routine of the queue is a sequence of writes, in any memory.      *)
(***************************************************************************)
Sequence(p) == Len(p) \in Nat /\ p = [i \in 1..Len(p) |-> p[i]]

LEMMA InSeq ==
  ASSUME NEW Good, NEW p \in Seq(Good)
  PROVE  Sequence(p)
BY DEF Sequence

LEMMA Joined ==
  ASSUME NEW p, Sequence(p), NEW r, Sequence(r)
  PROVE  Sequence(p \o r) /\ Len(p \o r) = Len(p) + Len(r)
<1> DEFINE Good == {p[i] : i \in 1..Len(p)} \cup {r[i] : i \in 1..Len(r)}
<1>1. p \in Seq(Good) /\ r \in Seq(Good)
  BY DEF Sequence
<1> HIDE DEF Good
<1>2. p \o r \in Seq(Good) /\ Len(p \o r) = Len(p) + Len(r)
  BY <1>1
<1>3. Sequence(p \o r)
  BY <1>2, InSeq
<1> QED BY <1>2, <1>3

LEMMA Singles ==
  ASSUME NEW a, NEW u, NEW c
  PROVE  Sequence(<<>>) /\ Sequence(<<a>>) /\ Sequence(<<a, u>>) /\ Sequence(<<a, u, c>>)
BY DEF Sequence

LEMMA Calls ==
  ASSUME NEW a
  PROVE  Sequence(test_malloc(a)) /\ Sequence(test_free(a))
BY DEF Sequence, test_malloc, test_free

LEMMA Prefix ==
  ASSUME NEW p, Sequence(p), NEW n \in 0..Len(p)
  PROVE  Sequence(SubSeq(p, 1, n))
<1> DEFINE Good == {p[i] : i \in 1..Len(p)}
<1>1. p \in Seq(Good)
  BY DEF Sequence
<1> HIDE DEF Good
<1>2. SubSeq(p, 1, n) \in Seq(Good)
  BY <1>1
<1> QED BY <1>2, InSeq

LEMMA WalkSequence ==
  ASSUME NEW a, NEW T, NEW next
  PROVE  Sequence(Walk(a, T, next))
<1> DEFINE c == Cardinality(Addrs)
           F == CHOOSE from : from = [n \in 0..c |-> IF n = 0 THEN a
                                      ELSE IF from[n - 1] \in T THEN next[from[n - 1]] ELSE NULL]
           Length(n) == /\ n < c => F[n] \notin T
                        /\ \A i \in 0..n-1 : F[i] \in T
           l == CHOOSE n \in 0..c : Length(n)
<1>1. c \in Nat
  BY HarnessAssumption, FS_CardinalityType
<1>2. Walk(a, T, next) = [n \in 1..l |-> F[n - 1]]
  BY DEF Walk
<1> HIDE DEF F
<1>3. \E n \in 0..c : Length(n)
  <2> DEFINE N == {n \in 0..c : n < c => F[n] \notin T}
  <2>1. N \in SUBSET Nat /\ c \in N
    BY <1>1
  <2> HIDE DEF c
  <2>2. PICK n \in N : \A i \in N : n <= i
    BY <2>1, Least
  <2>3. n \in 0..c /\ (n < c => F[n] \notin T)
    BY <2>2
  <2>4. ASSUME NEW i \in 0..n-1 PROVE F[i] \in T
    BY <1>1, <2>2, <2>3, <2>4
  <2> QED BY <2>3, <2>4
<1>4. l \in 0..c
  BY <1>3
<1> HIDE DEF l, c
<1>5. l \in Nat
  BY <1>1, <1>4
<1> QED BY <1>2, <1>5 DEF Sequence

LEMMA ChainSequence == ASSUME NEW k, NEW a PROVE Sequence(Chain(k, a))
BY WalkSequence DEF Chain

\* FlattenSeq joins one sequence after the other.
LEMMA FlattenedBy ==
  ASSUME NEW ps, Len(ps) \in Nat \ {0}, \A i \in 1..Len(ps) : Sequence(ps[i])
  PROVE  \E f : /\ FlattenSeq(ps) = f[Len(ps)]
                /\ \A i \in 1..Len(ps) : Sequence(f[i])
                /\ \A i \in 1..Len(ps) : f[i] = IF i = 1 THEN ps[i] ELSE f[i - 1] \o ps[i]
<1> DEFINE l == Len(ps)
           Cat(p, r) == p \o r
           Upto(f, j) == f = [i \in 1..j |-> IF i = 1 THEN ps[i] ELSE Cat(f[i - 1], ps[i])]
           Good == {j \in Nat : \E f : Upto(f, j)}
<1> DEFINE F == CHOOSE f : Upto(f, l)
<1>0. FlattenSeq(ps) = F[l]
  BY DEF FlattenSeq
<1>a. \A p, r : Sequence(p) /\ Sequence(r) => Sequence(Cat(p, r))
  BY Joined
<1> HIDE DEF Cat
<1>1. 0 \in Good
  <2>1. Upto([i \in 1..0 |-> 0], 0)
    OBVIOUS
  <2> QED BY <2>1
<1>2. ASSUME NEW j \in Nat, j \in Good PROVE j + 1 \in Good
  <2>1. PICK f : Upto(f, j)
    BY <1>2
  <2>2. \A i \in 1..j : f[i] = IF i = 1 THEN ps[i] ELSE Cat(f[i - 1], ps[i])
    BY <2>1
  <2> DEFINE last == IF j = 0 THEN ps[1] ELSE Cat(f[j], ps[j + 1])
             next == [i \in 1..j + 1 |-> IF i = j + 1 THEN last ELSE f[i]]
  <2>3. ASSUME NEW i \in 1..j + 1
        PROVE  next[i] = IF i = 1 THEN ps[i] ELSE Cat(next[i - 1], ps[i])
    <3>1. CASE i = j + 1
      <4>1. CASE j = 0
        BY <3>1, <4>1
      <4>2. CASE j # 0
        <5>1. i # 1 /\ i - 1 = j /\ j # j + 1 /\ j \in 1..j + 1
          BY <3>1, <4>2
        <5>2. next[j] = f[j] /\ next[i] = Cat(f[j], ps[j + 1])
          BY <3>1, <4>2, <5>1
        <5> QED BY <3>1, <5>1, <5>2
      <4> QED BY <4>1, <4>2
    <3>2. CASE i # j + 1
      <4>1. i \in 1..j /\ next[i] = f[i]
        BY <3>2
      <4>2. i # 1 => next[i - 1] = f[i - 1]
        BY <4>1
      <4> QED BY <2>2, <4>1, <4>2
    <3> QED BY <3>1, <3>2
  <2>4. next = [i \in 1..j + 1 |-> next[i]]
    OBVIOUS
  <2> HIDE DEF next
  <2>5. Upto(next, j + 1)
    BY <2>3, <2>4
  <2> QED BY <2>5
<1>3. Upto(F, l)
  <2> HIDE DEF Good
  <2>1. l \in Good
    BY <1>1, <1>2, Induct
  <2> QED BY <2>1 DEF Good
<1>5. \A i \in 1..l : F[i] = IF i = 1 THEN ps[i] ELSE Cat(F[i - 1], ps[i])
  BY <1>3
<1> HIDE DEF Good, F
<1> DEFINE T == {i \in Nat : i + 1 <= l => Sequence(F[i + 1])}
<1>6. 0 \in T
  BY <1>5
<1>7. ASSUME NEW i \in Nat, i \in T PROVE i + 1 \in T
  <2> SUFFICES ASSUME i + 2 <= l PROVE Sequence(F[i + 2])
    OBVIOUS
  <2>1. Sequence(F[i + 1]) /\ Sequence(ps[i + 2])
    BY <1>7
  <2>2. F[i + 2] = Cat(F[i + 1], ps[i + 2])
    <3>1. i + 2 \in 1..l /\ i + 2 # 1 /\ (i + 2) - 1 = i + 1
      OBVIOUS
    <3> QED BY <1>5, <3>1
  <2> QED BY <1>a, <2>1, <2>2
<1> HIDE DEF T, F
<1>8. \A i \in Nat : i \in T
  <2> SUFFICES ASSUME NEW i \in Nat PROVE i \in T
    OBVIOUS
  <2> QED BY <1>6, <1>7, Induct
<1>9. ASSUME NEW i \in 1..l PROVE Sequence(F[i])
  <2>1. i - 1 \in Nat /\ (i - 1) + 1 = i /\ i <= l
    OBVIOUS
  <2>2. i - 1 \in T
    BY <1>8, <2>1
  <2> HIDE DEF l
  <2> QED BY <2>1, <2>2 DEF T
<1>10. \A i \in 1..l : F[i] = IF i = 1 THEN ps[i] ELSE F[i - 1] \o ps[i]
  BY <1>5 DEF Cat
<1> QED BY <1>0, <1>9, <1>10

\* What FlattenSeq makes of sequences is one.
LEMMA Flattened ==
  ASSUME NEW ps, Len(ps) \in Nat, \A i \in 1..Len(ps) : Sequence(ps[i]), ps = <<>> \/ Len(ps) # 0
  PROVE  Sequence(FlattenSeq(ps))
<1>1. CASE Len(ps) = 0
  BY <1>1, Singles DEF FlattenSeq
<1>2. CASE Len(ps) # 0
  <2>1. Len(ps) \in 1..Len(ps)
    BY <1>2
  <2> QED BY <1>2, <2>1, FlattenedBy
<1> QED BY <1>1, <1>2

LEMMA Frees ==
  ASSUME NEW k, NEW a
  PROVE  Sequence(q_free(k, a))
<1>1. CASE a = NULL
  BY <1>1, Singles DEF q_free
<1>2. CASE a # NULL
  <2> DEFINE chain == Chain(k, Data(k, a).head)
             Both(i) == test_free(Data(k, chain[i]).value) \o test_free(chain[i])
             ps == [i \in DOMAIN chain |-> Both(i)]
             stray == Stray(k, Data(k, a).head)
  <2>1. q_free(k, a) = FlattenSeq(ps) \o stray \o test_free(a)
    BY <1>2 DEF q_free
  <2>2. Sequence(chain)
    BY ChainSequence
  <2>3. \A i : Sequence(Both(i))
    BY Calls, Joined
  <2>4. Sequence(stray)
    BY Singles DEF Stray
  <2> HIDE DEF chain, Both, stray
  <2>5. DOMAIN chain = 1..Len(chain) /\ Len(chain) \in Nat
    BY <2>2 DEF Sequence
  <2>6. Len(ps) = Len(chain) /\ (\A i \in 1..Len(ps) : ps[i] = Both(i)) /\ (Len(chain) = 0 => ps = <<>>)
    BY <2>5
  <2> HIDE DEF ps
  <2>7. Sequence(FlattenSeq(ps))
    BY <2>3, <2>5, <2>6, Flattened
  <2> QED BY <2>1, <2>4, <2>7, Calls, Joined
<1> QED BY <1>1, <1>2

LEMMA News ==
  ASSUME NEW a
  PROVE  Sequence(q_new(a))
BY Singles, Calls, Joined DEF q_new

LEMMA Insertions ==
  ASSUME NEW k, NEW e, NEW str, NEW a, NEW u
  PROVE  Sequence(q_insert_head(k, e, str, a, u)) /\ Sequence(q_insert_tail(k, e, str, a, u))
<1>1. ASSUME NEW linked, Sequence(linked) PROVE Sequence(Inserted(e, a, u, linked))
  BY <1>1, Singles, Calls, Joined DEF Inserted
<1>2. ASSUME NEW next PROVE Sequence(Allocate(a, u, str, next))
  BY Singles, Calls, Joined DEF Allocate
<1>3. Sequence(q_insert_head(k, e, str, a, u))
  <2> DEFINE d == Data(k, e)
             A == Allocate(a, u, str, d.head)
             last == IF d.tail = NULL THEN <<Store("tail", e, a)>> ELSE <<>>
             linked == A \o <<Store("head", e, a)>> \o last \o <<Store("size", e, 1)>>
  <2>1. Sequence(A) /\ Sequence(last) /\ Sequence(<<Store("head", e, a)>>) /\ Sequence(<<Store("size", e, 1)>>)
    BY <1>2, Singles
  <2>2. q_insert_head(k, e, str, a, u) = Inserted(e, a, u, linked)
    BY DEF q_insert_head
  <2> HIDE DEF A, last
  <2>3. Sequence(linked)
    BY <2>1, Joined
  <2> QED BY <1>1, <2>2, <2>3
<1>4. Sequence(q_insert_tail(k, e, str, a, u))
  <2> DEFINE d == Data(k, e)
             A == Allocate(a, u, str, NULL)
             rest == <<IF d.tail # NULL THEN Store("link", d.tail, a) ELSE Store("head", e, a),
                       Store("tail", e, a), Store("size", e, 1)>>
             linked == A \o rest
  <2>1. Sequence(A) /\ Sequence(rest)
    BY <1>2, Singles
  <2>2. q_insert_tail(k, e, str, a, u) = Inserted(e, a, u, linked)
    BY DEF q_insert_tail
  <2> HIDE DEF A, rest
  <2>3. Sequence(linked)
    BY <2>1, Joined
  <2> QED BY <1>1, <2>2, <2>3
<1> QED BY <1>3, <1>4

\* The way back of a reversal is a sequence, too.
LEMMA ReturnedSequence == ASSUME NEW k, NEW a PROVE Sequence(Returned(k, a))
<1> DEFINE chain == Chain(k, a)
           again == {i \in DOMAIN chain : chain[i] = After(k, a)}
           step(i, j) == Store("link", chain[i + 1 - j], IF j = 1 THEN Last(chain) ELSE chain[i + 2 - j])
           back(i) == [j \in 1..i |-> step(i, j)]
           l == CHOOSE i \in again : TRUE
<1>1. CASE again = {}
  <2>1. Returned(k, a) = Stray(k, a)
    BY <1>1 DEF Returned
  <2> QED BY <2>1, Singles DEF Stray
<1>2. CASE again # {}
  <2>1. Returned(k, a) = back(l)
    BY <1>2 DEF Returned
  <2>2. l \in DOMAIN chain
    <3>1. l \in again
      BY <1>2
    <3> QED BY <3>1
  <2>3. l \in Nat
    <3>1. Sequence(chain)
      BY ChainSequence
    <3> HIDE DEF chain, l
    <3>2. DOMAIN chain = 1..Len(chain) /\ Len(chain) \in Nat
      BY <3>1 DEF Sequence
    <3> QED BY <2>2, <3>2
  <2> HIDE DEF l, step
  <2>4. Sequence(back(l))
    BY <2>3 DEF Sequence
  <2> QED BY <2>1, <2>4
<1> QED BY <1>1, <1>2

LEMMA Removals ==
  ASSUME NEW k, NEW e
  PROVE  Sequence(q_remove_head(k, e)) /\ Sequence(q_reverse(k, e))
<1>1. Sequence(q_remove_head(k, e))
  BY Singles, Calls, Joined DEF q_remove_head
<1>2. Sequence(q_reverse(k, e))
  <2> DEFINE d == Data(k, e)
             chain == Chain(k, d.head)
             links == [i \in DOMAIN chain |-> Store("link", chain[i], IF i = 1 THEN NULL ELSE chain[i - 1])]
             turn == Returned(k, d.head)
             ends == <<Store("head", e, d.tail), Store("tail", e, d.head)>>
  <2>1. Sequence(turn) /\ Sequence(ends)
    BY Singles, ReturnedSequence
  <2>2. Sequence(chain)
    BY ChainSequence
  <2>3. q_reverse(k, e) = IF ~Removable(k, e) THEN <<>> ELSE links \o turn \o ends
    BY DEF q_reverse
  <2> HIDE DEF chain, turn, ends
  <2>4. DOMAIN chain = 1..Len(chain) /\ Len(chain) \in Nat
    BY <2>2 DEF Sequence
  <2>5. Sequence(links)
    BY <2>4 DEF Sequence
  <2> HIDE DEF links
  <2> QED BY <2>1, <2>3, <2>5, Joined, Singles
<1> QED BY <1>1, <1>2

-----------------------------------------------------------------------------
(***************************************************************************)
(* The modes of the harness between two commands.                          *)
(***************************************************************************)
Modes(k) == Memory(k) /\ k.cautious_mode = TRUE /\ k.noallocate_mode = FALSE

LEMMA KeepsModes ==
  ASSUME NEW k, NEW n, Modes(k), Keeps(k, n)
  PROVE  Modes(n)
BY DEF Modes, Keeps

LEMMA Marks ==
  ASSUME NEW k, Memory(k)
  PROVE  Keeps(k, k) /\ Keeps(k, Clear(k)) /\ Keeps(k, Lose(k)) /\ Keeps(k, [k EXCEPT !.error = TRUE])
BY DEF Memory, Keeps, Clear, Lose, Fields

LEMMA OutcomesKeep ==
  ASSUME NEW k, Memory(k), NEW program, Sequence(program), NEW loops,
         NEW o \in Outcomes(k, program, loops)
  PROVE  Keeps(k, o.m)
<1> DEFINE full == [m |-> Run(k, program), done |-> TRUE]
           part(n) == [m |-> [Run(k, SubSeq(program, 1, n)) EXCEPT !.error = TRUE], done |-> FALSE]
<1>1. o = full \/ \E n \in 0..Len(program) : o = part(n)
  BY DEF Outcomes
<1>2. Keeps(k, full.m)
  BY RunKeeps DEF Sequence
<1>3. ASSUME NEW n \in 0..Len(program) PROVE Keeps(k, part(n).m)
  <2> DEFINE r == Run(k, SubSeq(program, 1, n))
  <2>1. Keeps(k, r)
    BY Prefix, RunKeeps DEF Sequence
  <2> HIDE DEF r
  <2>2. Keeps(k, [r EXCEPT !.error = TRUE])
    BY <2>1, Marks DEF Keeps
  <2> QED BY <2>2 DEF r
<1> QED BY <1>1, <1>2, <1>3

LEMMA ReleasedModes ==
  ASSUME NEW k, Modes(k), NEW o \in Released(k)
  PROVE  Modes(o.m)
<1> DEFINE n == [k EXCEPT !.cautious_mode = qcnt <= BIG_QUEUE]
<1>1. Memory(n) /\ n.noallocate_mode = FALSE
  BY DEF Modes, Memory, Fields
<1>2. PICK r \in Outcomes(n, q_free(k, q), Cyclic(k, q)) : o = [r EXCEPT !.m.cautious_mode = TRUE]
  BY DEF Released
<1> HIDE DEF n
<1>3. Keeps(n, r.m)
  BY <1>1, Frees, OutcomesKeep
<1>4. DOMAIN r = {"m", "done"}
  BY <1>2 DEF Outcomes
<1>5. o.m = [r.m EXCEPT !.cautious_mode = TRUE]
  BY <1>2, <1>4
<1> QED BY <1>1, <1>3, <1>5 DEF Modes, Keeps, Memory, Fields

LEMMA ShownKeeps ==
  ASSUME NEW k, Memory(k), NEW e, NEW total
  PROVE  Keeps(k, Shown(k, e, total)) /\ Keeps(k, show_queue(k, e, total))
BY Marks DEF Shown, show_queue

LEMMA MarkModes ==
  ASSUME NEW k, Modes(k), NEW e, NEW total
  PROVE  Modes(Clear(k)) /\ Modes(Shown(k, e, total)) /\ Modes(show_queue(k, e, total))
BY Marks, ShownKeeps, KeepsModes DEF Modes

\* Each command.
LEMMA ReturnModes ==
  ASSUME NEW c, NEW k, NEW ok, NEW bad, Modes(k), Return(c, k, ok, bad)
  PROVE  Modes(m)'
BY DEF Return, Settle

LEMMA do_freeModes == ASSUME Modes(m), NEW c, do_free(c) PROVE Modes(m)'
<1>1. PICK o \in Released(Clear(m)) : Return(c, Left(o), Freed(o) /\ ~o.m.error, Asked(o.m.error))
  BY DEF do_free
<1>2. Modes(Clear(m))
  BY Marks, KeepsModes DEF Modes
<1>3. Modes(o.m)
  BY <1>2, ReleasedModes
<1>4. Modes(Left(o))
  BY <1>3, Marks, KeepsModes DEF Left, Modes
<1> QED BY <1>1, <1>4, ReturnModes

LEMMA do_newModes == ASSUME Modes(m), NEW c, do_new(c) PROVE Modes(m)'
<1>1. PICK o \in IF q = NULL THEN {[m |-> m, done |-> TRUE]} ELSE Released(Clear(m)), a \in Offered({}) :
        \E n \in Outcomes(Clear(o.m), q_new(a), FALSE) :
          Return(c, Clear(n.m), (q = NULL \/ (Freed(o) /\ ~o.m.error)) /\ ~n.m.error,
                 Asked(o.m.error \/ n.m.error))
  BY DEF do_new
<1>2. PICK n \in Outcomes(Clear(o.m), q_new(a), FALSE) :
        Return(c, Clear(n.m), (q = NULL \/ (Freed(o) /\ ~o.m.error)) /\ ~n.m.error,
               Asked(o.m.error \/ n.m.error))
  BY <1>1
<1>3. Modes(Clear(m))
  BY Marks, KeepsModes DEF Modes
<1>4. Modes(o.m)
  BY <1>3, ReleasedModes
<1>5. Modes(Clear(o.m))
  BY <1>4, Marks, KeepsModes DEF Modes
<1>6. Modes(n.m)
  BY <1>5, News, OutcomesKeep, KeepsModes DEF Modes
<1>7. Modes(Clear(n.m))
  BY <1>6, Marks, KeepsModes DEF Modes
<1> QED BY <1>2, <1>7, ReturnModes

LEMMA InsertModes == ASSUME Modes(m), NEW c, Insert(c) PROVE Modes(m)'
<1> DEFINE program(a, u) == IF c.name = "ih" THEN q_insert_head(m, q, c.s, a, u)
                                             ELSE q_insert_tail(m, q, c.s, a, u)
<1>a. PICK a, u, o : o \in Outcomes(m, program(a, u), FALSE) /\ Turn(c, a, u, o)
  BY DEF Insert
<1>1. \/ Settle(o.m)
      \/ \E k, y, z : Return(c, show_queue(Clear(o.m), q, k), y, z)
  BY <1>a, Zenon DEF Turn
<1>2. Sequence(program(a, u))
  BY Insertions
<1>3. Modes(o.m)
  <2> HIDE DEF program
  <2> QED BY <1>a, <1>2, OutcomesKeep, KeepsModes DEF Modes
<1>4. Modes(Clear(o.m))
  BY <1>3, Marks, KeepsModes DEF Modes
<1>5. ASSUME NEW k PROVE Modes(show_queue(Clear(o.m), q, k))
  <2> DEFINE e == Clear(o.m)
  <2> HIDE DEF e
  <2>1. Modes(e)
    BY <1>4 DEF e
  <2>2. Modes(show_queue(e, q, k))
    BY <2>1, ShownKeeps, KeepsModes DEF Modes
  <2> QED BY <2>2 DEF e
<1>6. CASE Settle(o.m)
  BY <1>3, <1>6 DEF Settle
<1>7. CASE \E k, y, z : Return(c, show_queue(Clear(o.m), q, k), y, z)
  <2>1. PICK k, y, z : Return(c, show_queue(Clear(o.m), q, k), y, z)
    BY <1>7
  <2>2. Modes(show_queue(Clear(o.m), q, k))
    BY <1>5
  <2> QED BY <2>1, <2>2, ReturnModes
<1> QED BY <1>1, <1>6, <1>7

LEMMA do_remove_headModes == ASSUME Modes(m), NEW c, do_remove_head(c) PROVE Modes(m)'
<1>1. PICK o \in Outcomes(Clear(m), q_remove_head(m, q), FALSE) :
        \E k, ok, bad : /\ k = show_queue(o.m, q, qcnt') \/ k = Clear(show_queue(o.m, q, qcnt'))
                        /\ Return(c, k, ok, bad)
  BY DEF do_remove_head
<1>2. Modes(Clear(m))
  BY Marks, KeepsModes DEF Modes
<1>3. Modes(o.m)
  BY <1>2, Removals, OutcomesKeep, KeepsModes DEF Modes
<1> DEFINE k == o.m
           n == show_queue(k, q, qcnt')
<1> HIDE DEF k
<1>4. Modes(n)
  BY <1>3, MarkModes DEF k
<1> HIDE DEF n
<1>5. Modes(Clear(n))
  BY <1>4, MarkModes
<1> QED BY <1>1, <1>4, <1>5, ReturnModes DEF k, n

LEMMA do_reverseModes == ASSUME Modes(m), NEW c, do_reverse(c) PROVE Modes(m)'
<1> DEFINE start == [Clear(m) EXCEPT !.noallocate_mode = TRUE]
           back(o) == [o.m EXCEPT !.noallocate_mode = FALSE]
<1>1. PICK o \in Outcomes(start, q_reverse(m, q), FALSE) :
        \E ok, bad : Return(c, Clear(show_queue(back(o), q, qcnt)), ok, bad)
  BY DEF do_reverse
<1>2. Memory(start) /\ start.cautious_mode = TRUE
  BY DEF Modes, Memory, Clear, Fields
<1> HIDE DEF start
<1>3. Keeps(start, o.m)
  BY <1>2, Removals, OutcomesKeep
<1>4. Modes(back(o))
  BY <1>2, <1>3 DEF Modes, Keeps, Memory, Fields
<1> HIDE DEF back
<1>5. Modes(show_queue(back(o), q, qcnt))
  BY <1>4, ShownKeeps, KeepsModes DEF Modes
<1>6. Modes(Clear(show_queue(back(o), q, qcnt)))
  BY <1>5, Marks, KeepsModes DEF Modes
<1> QED BY <1>1, <1>6, ReturnModes

LEMMA do_sizeModes == ASSUME Modes(m), NEW c, do_size(c) PROVE Modes(m)'
<1>1. \E ok, bad : Return(c, show_queue(Clear(m), q, qcnt), ok, bad)
  BY DEF do_size
<1>2. Modes(Clear(m))
  BY Marks, KeepsModes DEF Modes
<1>3. Modes(show_queue(Clear(m), q, qcnt))
  BY <1>2, ShownKeeps, KeepsModes DEF Modes
<1> QED BY <1>1, <1>3, ReturnModes

LEMMA do_showModes == ASSUME Modes(m), NEW c, do_show(c) PROVE Modes(m)'
<1>1. \E ok, bad : Return(c, Shown(m, q, qcnt), ok, bad)
  BY DEF do_show
<1>2. Modes(Shown(m, q, qcnt))
  BY ShownKeeps, KeepsModes DEF Modes
<1> QED BY <1>1, <1>2, ReturnModes

LEMMA do_quit_cmdModes == ASSUME Modes(m), NEW c, do_quit_cmd(c) PROVE Modes(m)'
<1>1. PICK o \in Released(m) : Settle(o.m)
  BY DEF do_quit_cmd
<1> QED BY <1>1, ReleasedModes DEF Settle

LEMMA ModesStep == Modes(m) /\ [QtestNext]_qtestVars => Modes(m)'
<1> SUFFICES ASSUME Modes(m), [QtestNext]_qtestVars PROVE Modes(m)'
  OBVIOUS
<1>1. CASE ReadLine
  <2>1. PICK c : \/ Interpret(c) \/ (\E n : InterpretOwn(c, n)) \/ StartInsert(c) \/ do_quit_cmd(c)
    BY <1>1 DEF ReadLine
  <2>2. CASE Interpret(c)
    BY <2>2, do_freeModes, do_newModes, do_remove_headModes, do_reverseModes, do_sizeModes,
       do_showModes DEF Interpret
  <2>3. CASE \E n : InterpretOwn(c, n)
    BY <2>3 DEF InterpretOwn
  <2>4. CASE StartInsert(c)
    <3>1. m' = Clear(m)
      BY <2>4 DEF StartInsert
    <3> QED BY <3>1, Marks, KeepsModes DEF Modes
  <2> QED BY <2>1, <2>2, <2>3, <2>4, do_quit_cmdModes
<1>2. CASE NextInsert
  BY <1>2, InsertModes DEF NextInsert
<1>3. CASE Finish
  <2>1. m' = m \/ \E o \in Released(m) : m' = o.m
    BY <1>3 DEF Finish
  <2> QED BY <2>1, ReleasedModes
<1>4. CASE EndOfFile \/ UNCHANGED qtestVars
  BY <1>4 DEF EndOfFile, qtestVars
<1> QED BY <1>1, <1>2, <1>3, <1>4 DEF QtestNext

LEMMA ModesInit == QtestInit => Modes(m)
<1>1. QtestInit => m = NoMemory
  BY DEF QtestInit
<1> DEFINE none == [a \in Addrs |-> Free]
<1> HIDE DEF none
<1>2. NoMemory = [blk |-> none, allocated |-> NULL, allocated_count |-> 0,
                  cautious_mode |-> TRUE, noallocate_mode |-> FALSE,
                  error |-> FALSE, lost |-> FALSE]
  BY DEF NoMemory, none
<1>3. Modes(NoMemory)
  BY <1>2 DEF Modes, Memory, Fields
<1> QED BY <1>1, <1>3

\* Wherever a time limit leaves a routine, the command that called it brings the
\* harness back to its modes: cautious, and with allocation allowed
\* (qtest.c:120-124 and 347-351, harness.c:218).
THEOREM ModesRestored == QtestSpec => []Restored
<1>1. QtestInit => Modes(m)
  BY ModesInit
<1>2. Modes(m) => Restored
  BY DEF Modes, Restored
<1> QED BY <1>1, <1>2, ModesStep, PTL DEF QtestSpec

-----------------------------------------------------------------------------
(***************************************************************************)
(* The errors of qtest, and what its exit status says of them.             *)
(***************************************************************************)
Told ==
  /\ err_cnt \in Nat
  /\ "asked" \in faulty => err_cnt > 0
  /\ status = "exit0" => "asked" \notin faulty
  /\ status = "running" /\ m.error => "asked" \in faulty \/ quit_flag

LEMMA Cleared == ASSUME NEW k, Memory(k) PROVE Clear(k).error = FALSE
BY DEF Memory, Fields, Clear

\* show_queue may take an error, but reports none of its own.
LEMMA ShowTakes ==
  ASSUME NEW k, Memory(k), NEW e, NEW total
  PROVE  /\ Shown(k, e, total).error => k.error
         /\ show_queue(k, e, total).error => k.error
         /\ Memory(show_queue(k, e, total))
<1>1. Clear(k).error = FALSE /\ Lose(k).error = k.error
  BY Cleared DEF Memory, Fields, Lose
<1>2. Shown(k, e, total) \in {k, Clear(k), Lose(k)}
  BY DEF Shown
<1>3. Memory(Clear(k)) /\ Memory(Lose(k))
  BY DEF Memory, Fields, Clear, Lose
<1>4. show_queue(k, e, total) \in {k, Shown(k, e, total)}
  BY DEF show_queue
<1> QED BY <1>1, <1>2, <1>3, <1>4

LEMMA FateIs ==
  ASSUME NEW before, NEW after
  PROVE  "asked" \in Fate(before, after) <=> before.error /\ after.error
BY DEF Fate, Asked

\* A command that ends with n more errors.
LEMMA MoreErrors ==
  ASSUME Told, NEW n \in Nat, err_cnt' = err_cnt + n,
         "asked" \in faulty' => "asked" \in faulty \/ n > 0,
         status' \in {"undefined", "running"},
         status' = "running" /\ m'.error => "asked" \in faulty' \/ quit_flag'
  PROVE  Told'
BY DEF Told

LEMMA RunNothing == ASSUME NEW k PROVE Run(k, <<>>) = k
<1>1. PICK run : Runs(run, k, <<>>) /\ Run(k, <<>>) = run[Len(<<>>)]
  BY RunIs
<1>2. Len(<<>>) = 0
  OBVIOUS
<1>3. run[0] = k
  BY <1>1, <1>2 DEF Runs
<1> QED BY <1>1, <1>2, <1>3

LEMMA do_sizeTold == ASSUME Told, Modes(m), NEW c, do_size(c) PROVE Told'
<1>1. PICK o \in Outcomes(Clear(m), <<>>, FALSE) :
        Return(c, show_queue(Clear(m), q, qcnt), o.done /\ q_size(m, q) = qcnt, Asked(o.m.error))
  BY DEF do_size
<1>2. o.done => o.m = Run(Clear(m), <<>>)
  BY DEF Outcomes
<1>3. Clear(m).error = FALSE /\ Memory(Clear(m))
  BY Cleared, MarkModes DEF Modes
<1>4. o.done => ~o.m.error
  BY <1>2, <1>3, RunNothing
<1>5. ~show_queue(Clear(m), q, qcnt).error
  BY <1>3, ShowTakes
<1> DEFINE n == IF o.done /\ q_size(m, q) = qcnt THEN 0 ELSE IF c.timed THEN 2 ELSE 1
<1>6. /\ err_cnt' = err_cnt + n /\ faulty' = faulty \cup Asked(o.m.error)
      /\ m' = show_queue(Clear(m), q, qcnt) /\ status' \in {"undefined", "running"}
  BY <1>1 DEF Return, record_error, Settle
<1>7. n \in Nat /\ ("asked" \in Asked(o.m.error) => n > 0)
  BY <1>4 DEF Asked
<1> HIDE DEF n
<1>8. "asked" \in faulty' => "asked" \in faulty \/ n > 0
  BY <1>6, <1>7
<1> QED BY <1>5, <1>6, <1>7, <1>8, MoreErrors

LEMMA do_reverseTold == ASSUME Told, Modes(m), NEW c, do_reverse(c) PROVE Told'
<1> DEFINE start == [Clear(m) EXCEPT !.noallocate_mode = TRUE]
           back(o) == [o.m EXCEPT !.noallocate_mode = FALSE]
           end(o) == show_queue(back(o), q, qcnt)
<1>1. PICK o \in Outcomes(start, q_reverse(m, q), FALSE) :
        Return(c, Clear(end(o)), ~end(o).error, Fate(o.m, end(o)))
  BY DEF do_reverse
<1>2. Memory(start)
  BY DEF Modes, Memory, Clear, Fields
<1> HIDE DEF start
<1>3. Memory(o.m)
  BY <1>2, Removals, OutcomesKeep DEF Keeps
<1>4. Memory(back(o))
  BY <1>3 DEF Memory, Fields
<1> HIDE DEF back
<1>5. Clear(end(o)).error = FALSE
  BY <1>4, ShowTakes, Cleared
<1> HIDE DEF end
<1> DEFINE n == IF ~end(o).error THEN 0 ELSE IF c.timed THEN 2 ELSE 1
<1>6. /\ err_cnt' = err_cnt + n /\ faulty' = faulty \cup Fate(o.m, end(o)) /\ m' = Clear(end(o))
      /\ status' \in {"undefined", "running"}
  BY <1>1 DEF Return, record_error, Settle
<1>7. n \in Nat /\ ("asked" \in Fate(o.m, end(o)) => n > 0)
  BY FateIs
<1> HIDE DEF n
<1>8. "asked" \in faulty' => "asked" \in faulty \/ n > 0
  BY <1>6, <1>7
<1> QED BY <1>5, <1>6, <1>7, <1>8, MoreErrors

LEMMA do_newTold ==
  ASSUME Told, status = "running", ~quit_flag, Modes(m), NEW c, do_new(c)
  PROVE  Told'
<1>1. PICK o \in IF q = NULL THEN {[m |-> m, done |-> TRUE]} ELSE Released(Clear(m)), a \in Offered({}) :
        \E n \in Outcomes(Clear(o.m), q_new(a), FALSE) :
          Return(c, Clear(n.m), (q = NULL \/ (Freed(o) /\ ~o.m.error)) /\ ~n.m.error,
                 Asked(o.m.error \/ n.m.error))
  BY DEF do_new
<1>2. PICK n \in Outcomes(Clear(o.m), q_new(a), FALSE) :
        Return(c, Clear(n.m), (q = NULL \/ (Freed(o) /\ ~o.m.error)) /\ ~n.m.error,
               Asked(o.m.error \/ n.m.error))
  BY <1>1
<1>3. Modes(Clear(m)) /\ Modes(m)
  BY MarkModes
<1>4. Modes(o.m) /\ (q = NULL => o.m = m)
  BY <1>1, <1>3, ReleasedModes
<1>5. Modes(Clear(o.m))
  BY <1>4, Marks, KeepsModes DEF Modes
<1>6. Memory(n.m)
  BY <1>5, News, OutcomesKeep DEF Modes, Keeps
<1>7. Clear(n.m).error = FALSE
  BY <1>6, Cleared
<1> DEFINE l == IF (q = NULL \/ (Freed(o) /\ ~o.m.error)) /\ ~n.m.error THEN 0
                ELSE IF c.timed THEN 2 ELSE 1
<1>8. /\ err_cnt' = err_cnt + l /\ faulty' = faulty \cup Asked(o.m.error \/ n.m.error)
      /\ m' = Clear(n.m) /\ status' \in {"undefined", "running"}
  BY <1>2 DEF Return, record_error, Settle
<1>9. l \in Nat /\ (o.m.error \/ n.m.error => "asked" \in faulty \/ l > 0)
  BY <1>4 DEF Told
<1> HIDE DEF l
<1>10. "asked" \in faulty' => "asked" \in faulty \/ l > 0
  BY <1>8, <1>9 DEF Asked
<1> QED BY <1>7, <1>8, <1>9, <1>10, MoreErrors

LEMMA do_freeTold == ASSUME Told, Modes(m), NEW c, do_free(c) PROVE Told'
<1>1. PICK o \in Released(Clear(m)) :
        Return(c, Left(o), Freed(o) /\ ~o.m.error, Asked(o.m.error))
  BY DEF do_free
<1>2. Modes(Clear(m))
  BY MarkModes
<1>3. Memory(o.m)
  BY <1>2, ReleasedModes DEF Modes
<1>4. Left(o).error => o.m.error
  BY <1>3, Cleared DEF Left
<1> DEFINE n == IF Freed(o) /\ ~o.m.error THEN 0 ELSE IF c.timed THEN 2 ELSE 1
<1>5. /\ err_cnt' = err_cnt + n /\ faulty' = faulty \cup Asked(o.m.error) /\ m' = Left(o)
      /\ status' \in {"undefined", "running"}
  BY <1>1 DEF Return, record_error, Settle
<1>6. n \in Nat /\ (o.m.error => n > 0)
  OBVIOUS
<1> HIDE DEF n
<1>7. ("asked" \in faulty' => "asked" \in faulty \/ n > 0) /\ (o.m.error => "asked" \in faulty')
  BY <1>5, <1>6 DEF Asked
<1> QED BY <1>4, <1>5, <1>6, <1>7, MoreErrors

LEMMA do_remove_headTold == ASSUME Told, Modes(m), NEW c, do_remove_head(c) PROVE Told'
<1> DEFINE end(o) == show_queue(o.m, q, qcnt')
<1>1. PICK o \in Outcomes(Clear(m), q_remove_head(m, q), FALSE) :
        \E ok, k : /\ Return(c, k, ok /\ ~end(o).error, Fate(o.m, end(o)))
                   /\ k = Clear(end(o)) \/ k = end(o)
  BY DEF do_remove_head
<1>2. Memory(Clear(m))
  BY MarkModes DEF Modes
<1>3. Memory(o.m)
  BY <1>2, Removals, OutcomesKeep DEF Keeps
<1>4. (end(o).error => o.m.error) /\ Clear(end(o)).error = FALSE
  BY <1>3, ShowTakes, Cleared
<1>5. PICK ok, k : /\ Return(c, k, ok /\ ~end(o).error, Fate(o.m, end(o)))
                   /\ k = Clear(end(o)) \/ k = end(o)
  BY <1>1
<1> HIDE DEF end
<1> DEFINE l == IF ok /\ ~end(o).error THEN 0 ELSE IF c.timed THEN 2 ELSE 1
<1>6. l \in Nat /\ (end(o).error => l > 0)
  OBVIOUS
<1>7. /\ m' = k /\ err_cnt' = err_cnt + l /\ faulty' = faulty \cup Fate(o.m, end(o))
      /\ status' \in {"undefined", "running"}
  BY <1>5 DEF Return, record_error, Settle
<1> HIDE DEF l
<1>8. "asked" \in faulty' => "asked" \in faulty \/ l > 0
  BY <1>6, <1>7, FateIs
<1>9. m'.error => end(o).error
  BY <1>4, <1>5, <1>7
<1>10. m'.error => "asked" \in faulty'
  BY <1>4, <1>7, <1>9, FateIs
<1> QED BY <1>6, <1>7, <1>8, <1>10, MoreErrors

LEMMA do_showTold ==
  ASSUME Told, status = "running", ~quit_flag, Modes(m), NEW c, do_show(c)
  PROVE  Told'
<1>1. PICK l \in Nat : /\ m' = Shown(m, q, qcnt) /\ err_cnt' = err_cnt + l /\ faulty' = faulty \cup {}
                       /\ status' \in {"undefined", "running"}
  BY DEF do_show, Return, record_error, Settle
<1>2. m'.error => m.error
  BY <1>1, ShowTakes DEF Modes
<1>3. m.error => "asked" \in faulty
  BY DEF Told
<1> QED BY <1>1, <1>2, <1>3, MoreErrors

LEMMA InsertTold ==
  ASSUME Told, status = "running", Modes(m), NEW c, Insert(c)
  PROVE  Told'
<1> DEFINE program(a, u) == IF c.name = "ih" THEN q_insert_head(m, q, c.s, a, u)
                                             ELSE q_insert_tail(m, q, c.s, a, u)
<1>1. PICK a, u, o : o \in Outcomes(m, program(a, u), FALSE) /\ Turn(c, a, u, o)
  BY DEF Insert
<1>2. Sequence(program(a, u))
  BY Insertions
<1>3. Memory(o.m)
  <2> HIDE DEF program
  <2> QED BY <1>1, <1>2, OutcomesKeep DEF Keeps, Modes
<1>4. Memory(Clear(o.m)) /\ Clear(o.m).error = FALSE
  BY <1>3, Cleared DEF Memory, Fields, Clear
<1>5. \A total : ~show_queue(Clear(o.m), q, total).error
  BY <1>4, ShowTakes
<1>6. PICK ok, flaw, total :
        /\ ok => ~o.m.error /\ ~flaw
        /\ \/ Settle(o.m) /\ ok /\ UNCHANGED <<err_cnt, quit_flag, faulty>>
           \/ Return(c, show_queue(Clear(o.m), q, total), ok, Asked(o.m.error \/ flaw))
  BY <1>1 DEF Turn
<1>7. CASE Settle(o.m) /\ ok /\ UNCHANGED <<err_cnt, quit_flag, faulty>>
  BY <1>6, <1>7 DEF Told, Settle
<1>8. CASE Return(c, show_queue(Clear(o.m), q, total), ok, Asked(o.m.error \/ flaw))
  <2> DEFINE n == IF ok THEN 0 ELSE IF c.timed THEN 2 ELSE 1
             end == show_queue(Clear(o.m), q, total)
  <2>1. /\ err_cnt' = err_cnt + n /\ faulty' = faulty \cup Asked(o.m.error \/ flaw) /\ m' = end
        /\ status' \in {"undefined", "running"}
    BY <1>8 DEF Return, record_error, Settle
  <2>2. n \in Nat /\ (o.m.error \/ flaw => n > 0) /\ ~end.error
    BY <1>5, <1>6
  <2> HIDE DEF n, end
  <2>3. "asked" \in faulty' => "asked" \in faulty \/ n > 0
    BY <2>1, <2>2 DEF Asked
  <2> QED BY <2>1, <2>2, <2>3, MoreErrors
<1> QED BY <1>6, <1>7, <1>8

\* What queue_quit meets is no error that a command asks for.
LEMMA UnaskedIs == ASSUME NEW o PROVE Unasked(o) \subseteq {"quit"}
BY DEF Unasked

LEMMA ToldStep == Told /\ Modes(m) /\ [QtestNext]_qtestVars => Told'
<1> SUFFICES ASSUME Told, Modes(m), [QtestNext]_qtestVars PROVE Told'
  OBVIOUS
<1>1. CASE ReadLine
  <2>1. PICK c : \/ Interpret(c) \/ (\E n : InterpretOwn(c, n)) \/ StartInsert(c) \/ do_quit_cmd(c)
    BY <1>1 DEF ReadLine
  <2>2. status = "running" /\ ~quit_flag
    BY <1>1 DEF ReadLine, cmd_done
  <2>3. CASE Interpret(c)
    BY <2>2, <2>3, do_freeTold, do_newTold, do_remove_headTold, do_reverseTold, do_sizeTold,
       do_showTold DEF Interpret
  <2>4. CASE \E n : InterpretOwn(c, n)
    <3>1. PICK n : InterpretOwn(c, n)
      BY <2>4
    <3>2. UNCHANGED <<m, status, faulty>> /\ \E ok : record_error(c, ok)
      BY <3>1 DEF InterpretOwn, do_option_cmd, do_source_cmd
    <3>3. PICK l \in Nat : err_cnt' = err_cnt + l /\ (quit_flag => quit_flag')
      BY <3>2 DEF record_error
    <3> QED BY <3>2, <3>3 DEF Told
  <2>5. CASE StartInsert(c)
    <3>1. /\ m' = Clear(m) /\ UNCHANGED <<err_cnt, status, faulty>>
      BY <2>5 DEF StartInsert
    <3>2. Clear(m).error = FALSE
      BY Cleared DEF Modes
    <3> QED BY <3>1, <3>2 DEF Told
  <2>6. CASE do_quit_cmd(c)
    <3>1. PICK l \in Nat : /\ err_cnt' = err_cnt + l /\ \E o : faulty' = faulty \cup Unasked(o)
                           /\ quit_flag' = TRUE /\ status' \in {"undefined", "running"}
      BY <2>6 DEF do_quit_cmd, Settle
    <3>2. "asked" \in faulty' <=> "asked" \in faulty
      BY <3>1, UnaskedIs
    <3> QED BY <3>1, <3>2 DEF Told
  <2> QED BY <2>1, <2>3, <2>4, <2>5, <2>6
<1>2. CASE NextInsert
  BY <1>2, InsertTold DEF NextInsert
<1>3. CASE Finish
  <2>1. /\ err_cnt' = err_cnt /\ status' \in {"undefined", "exit0", "exit1"}
        /\ status' = "exit0" => err_cnt = 0
    BY <1>3 DEF Finish
  <2>2. faulty' = faulty \/ \E o : faulty' = faulty \cup Unasked(o)
    BY <1>3 DEF Finish
  <2>3. "asked" \in faulty' <=> "asked" \in faulty
    BY <2>2, UnaskedIs
  <2> QED BY <2>1, <2>3 DEF Told
<1>4. CASE EndOfFile \/ UNCHANGED qtestVars
  BY <1>4 DEF EndOfFile, qtestVars, console, Told
<1> QED BY <1>1, <1>2, <1>3, <1>4 DEF QtestNext

LEMMA ToldInit == QtestInit => Told
<1> SUFFICES ASSUME QtestInit PROVE Told
  OBVIOUS
<1>1. m.error = FALSE
  BY DEF QtestInit, NoMemory
<1> QED BY <1>1 DEF QtestInit, Told

\* An error that is still reported when its command asks for it makes qtest exit
\* with 1, whichever command it was, at whatever verbosity, and whatever came
\* after it (console.c:593).  What never is asked for, see Fate, is told nobody.
THEOREM ErrorsTold == QtestSpec => []ErrorsCounted
<1>1. QtestInit => Told
  BY ToldInit
<1>2. Told => ErrorsCounted
  BY DEF Told, ErrorsCounted
<1>3. QtestInit => Modes(m)
  BY ModesInit
<1> QED BY <1>1, <1>2, <1>3, ToldStep, ModesStep, PTL DEF QtestSpec

-----------------------------------------------------------------------------
\* Nobody sets a level at which show_queue looks at the elements.
Quiet ==
  /\ Levels \subseteq 0..2
  /\ \A c \in Commands : c.s = "verbose" => c.n \in 0..2

Silent ==
  /\ DOMAIN params = {"malloc", "fail", "error", "verbose"} /\ params.verbose \in 0..2
  /\ faulty \subseteq {"asked", "quit"}

LEMMA SilentShow == ASSUME Silent, NEW k, NEW e, NEW total PROVE show_queue(k, e, total) = k
BY DEF Silent, show_queue

\* A command that takes no error away.
LEMMA KeptFate == ASSUME NEW k, NEW l, l.error = k.error PROVE Fate(k, l) \subseteq {"asked"}
BY DEF Fate, Asked

LEMMA SilentFates ==
  ASSUME Silent, Modes(m), QtestNext
  PROVE  faulty' \subseteq {"asked", "quit"}
<1>1. ASSUME NEW c, do_reverse(c) PROVE faulty' \subseteq {"asked", "quit"}
  <2> DEFINE start == [Clear(m) EXCEPT !.noallocate_mode = TRUE]
             back(o) == [o.m EXCEPT !.noallocate_mode = FALSE]
  <2>1. PICK o \in Outcomes(start, q_reverse(m, q), FALSE) :
          faulty' = faulty \cup Fate(o.m, show_queue(back(o), q, qcnt))
    BY <1>1 DEF do_reverse, Return
  <2>2. Memory(start)
    BY DEF Modes, Memory, Clear, Fields
  <2> HIDE DEF start
  <2>3. Memory(o.m)
    BY <2>1, <2>2, Removals, OutcomesKeep DEF Keeps
  <2>4. back(o).error = o.m.error
    BY <2>3 DEF Memory, Fields
  <2> HIDE DEF back
  <2>5. Fate(o.m, back(o)) \subseteq {"asked"} /\ show_queue(back(o), q, qcnt) = back(o)
    BY <2>4, KeptFate, SilentShow
  <2> QED BY <2>1, <2>5 DEF Silent
<1>2. ASSUME NEW c, do_remove_head(c) PROVE faulty' \subseteq {"asked", "quit"}
  <2>1. PICK k, total : faulty' = faulty \cup Fate(k, show_queue(k, q, total))
    BY <1>2 DEF do_remove_head, Return
  <2> QED BY <2>1, SilentShow, KeptFate DEF Silent
<1>3. ASSUME NEW c, do_new(c) \/ do_free(c) \/ do_size(c) \/ do_show(c) PROVE faulty' \subseteq {"asked", "quit"}
  <2>1. \E error : faulty' = faulty \cup Asked(error) \/ faulty' = faulty \cup {}
    BY <1>3 DEF do_new, do_free, do_size, do_show, Return
  <2> QED BY <2>1 DEF Silent, Asked
<1>4. ASSUME NEW c, Insert(c) PROVE faulty' \subseteq {"asked", "quit"}
  <2>1. PICK a, d, o : Turn(c, a, d, o)
    BY <1>4 DEF Insert
  <2>2. \E error : faulty' = faulty \cup Asked(error) \/ faulty' = faulty
    BY <2>1, Zenon DEF Turn, Return
  <2> QED BY <2>2 DEF Silent, Asked
<1>5. ASSUME NEW c, do_quit_cmd(c) \/ Finish PROVE faulty' \subseteq {"asked", "quit"}
  <2>1. faulty' = faulty \/ \E o : faulty' = faulty \cup Unasked(o)
    BY <1>5 DEF do_quit_cmd, Finish
  <2> QED BY <2>1, UnaskedIs DEF Silent
<1>6. ASSUME NEW c, (\E n : InterpretOwn(c, n)) \/ StartInsert(c) \/ EndOfFile
      PROVE  faulty' \subseteq {"asked", "quit"}
  BY <1>6 DEF InterpretOwn, StartInsert, EndOfFile, Silent
<1>7. CASE ReadLine
  <2>1. PICK c : \/ Interpret(c) \/ (\E n : InterpretOwn(c, n)) \/ StartInsert(c) \/ do_quit_cmd(c)
    BY <1>7 DEF ReadLine
  <2> QED BY <1>1, <1>2, <1>3, <1>5, <1>6, <2>1 DEF Interpret
<1>8. CASE NextInsert
  BY <1>4, <1>8 DEF NextInsert
<1> QED BY <1>5, <1>6, <1>7, <1>8 DEF QtestNext

LEMMA SilentStep ==
  ASSUME Quiet
  PROVE  Silent /\ Modes(m) /\ [QtestNext]_qtestVars => Silent'
<1> SUFFICES ASSUME Silent, Modes(m), [QtestNext]_qtestVars PROVE Silent'
  OBVIOUS
<1>1. CASE UNCHANGED params
  BY <1>1, SilentFates DEF Silent, qtestVars
<1>2. CASE QtestNext /\ \E c \in Commands : do_option_cmd(c)
  <2>1. DOMAIN params' = DOMAIN params /\ params'.verbose \in 0..2
    BY <1>2 DEF do_option_cmd, Silent, Quiet
  <2> QED BY <1>2, <2>1, SilentFates DEF Silent
<1>3. UNCHANGED params \/ (QtestNext /\ \E c \in Commands : do_option_cmd(c))
  <2>1. CASE ReadLine
    <3>1. PICK c \in Commands : \/ UNCHANGED params \/ (\E n : InterpretOwn(c, n))
                                \/ StartInsert(c) \/ do_quit_cmd(c)
      BY <2>1 DEF ReadLine
    <3> QED BY <2>1, <3>1 DEF InterpretOwn, StartInsert, do_quit_cmd, do_source_cmd, QtestNext
  <2> QED BY <2>1 DEF QtestNext, NextInsert, EndOfFile, Finish, qtestVars, console
<1> QED BY <1>1, <1>2, <1>3

\* Below level 3 show_queue does not look at the elements and takes no error
\* (qtest.c:402-403); driver.py:121 and 143 start qtest at level 1 or 0.  So only
\* what queue_quit meets can be missing in the exit status then.
THEOREM QuietErrorsTold == Quiet => (QtestSpec => []CommandErrorsTold)
<1> SUFFICES ASSUME Quiet PROVE QtestSpec => []CommandErrorsTold
  OBVIOUS
<1>1. QtestInit => Told
  BY ToldInit
<1>2. QtestInit => Silent
  BY DEF QtestInit, Silent, Quiet
<1>3. QtestInit => Modes(m)
  BY ModesInit
<1>4. Silent /\ Modes(m) /\ [QtestNext]_qtestVars => Silent'
  BY SilentStep
<1>5. Told /\ Silent => CommandErrorsTold
  BY DEF Told, Silent, CommandErrorsTold
<1> QED BY <1>1, <1>2, <1>3, <1>4, <1>5, ToldStep, ModesStep, PTL DEF QtestSpec

-----------------------------------------------------------------------------
(***************************************************************************)
(* What the console has allocated: the commands and options, a buffer for  *)
(* each source, and the words of the line an insertion was read from.      *)
(***************************************************************************)
Shape(c) == DOMAIN c = {"name", "s", "n", "timed"} /\ c.n \in Nat
Words == IF cmd.name = NoWord THEN 0 ELSE argc(cmd)
Arrays == IF cmd.name = NoWord THEN 0 ELSE 1
Outstanding == Account(22 + sources + Words + Arrays, 752 + 8216 * sources + 13 * Words)

Balanced ==
  /\ err_cnt \in Nat /\ sources \in Nat /\ Shape(cmd)
  /\ status = "running" =>
       /\ cmd.name # NoWord => ~quit_flag
       /\ ~quit_flag => account = Outstanding
       /\ quit_flag /\ err_cnt = 0 => account = Account(0, 0)
  /\ GivenBack

LEMMA WordsOfLine == ASSUME NEW c PROVE argc(c) \in Nat
BY DEF argc, Given

LEMMA Initially == init_cmd = Account(22, 752)
<1>1. Len(cmd_list) = 16 /\ Len(param_list) = 6
  BY DEF cmd_list, param_list
<1> QED BY <1>1 DEF init_cmd, add_cmd, add_param, malloc_or_fail, Account, Size

LEMMA SourceAccounts ==
  ASSUME NEW a \in Int, NEW u \in Int
  PROVE  /\ push_file(Account(a, u)) = Account(a + 1, u + 8216)
         /\ pop_file(Account(a, u)) = Account(a - 1, u - 8216)
BY DEF push_file, pop_file, malloc_or_fail, free_block, Account, Size

\* What parse_args allocates, interpret_cmd frees.
LEMMA ParseAccounts ==
  ASSUME NEW a \in Int, NEW u \in Int, NEW l \in Nat
  PROVE  /\ parse_args(Account(a, u), l) = Account(a + 1 + l, u + 13 * l)
         /\ free_args(Account(a, u), l) = Account(a - 1 - l, u - 13 * l)
<1>1. parse_args(Account(a, u), l) = Account(a + 1 + l, u + 13 * l)
  BY DEF parse_args, malloc_or_fail, calloc_or_fail, strsave_or_fail, free_block, Account, Size, LineLength
<1>2. free_args(Account(a, u), l) = Account(a - 1 - l, u - 13 * l)
  BY DEF free_args, free_array, free_string, free_block, Account, Size
<1> QED BY <1>1, <1>2

LEMMA ListAccounts ==
  ASSUME NEW a \in Int, NEW u \in Int, NEW n \in Nat
  PROVE  FreeLists(Account(a, u), n) = Account(a - 22 - n, u - 752 - 8216 * n)
<1>1. Len(cmd_list) = 16 /\ Len(param_list) = 6
  BY DEF cmd_list, param_list
<1> QED BY <1>1 DEF FreeLists, free_block, Account, Size

\* record_error counts, and quits only when something was counted.
LEMMA Counts ==
  ASSUME err_cnt \in Nat, NEW c, NEW ok, record_error(c, ok)
  PROVE  err_cnt' \in Nat /\ (quit_flag' => quit_flag \/ err_cnt' # 0)
<1> DEFINE n == IF ok THEN 0 ELSE IF c.timed THEN 2 ELSE 1
<1>1. n \in {0, 1, 2}
  OBVIOUS
<1>2. err_cnt' = err_cnt + n /\ (quit_flag' => quit_flag \/ n > 0)
  BY DEF record_error
<1> HIDE DEF n
<1> QED BY <1>1, <1>2

LEMMA CommandReturns ==
  ASSUME err_cnt \in Nat, NEW c, Interpret(c)
  PROVE  /\ err_cnt' \in Nat /\ (quit_flag' => quit_flag \/ err_cnt' # 0)
         /\ cmd' = Line(NoWord, NoWord, 0, FALSE) /\ status' \in {"running", "undefined"}
<1>1. \E k, ok, bad : Return(c, k, ok, bad)
  BY DEF Interpret, do_new, do_free, do_remove_head, do_reverse, do_size, do_show
<1>2. PICK k, ok, bad : Return(c, k, ok, bad)
  BY <1>1
<1>3. record_error(c, ok) /\ cmd' = Line(NoWord, NoWord, 0, FALSE) /\ status' \in {"running", "undefined"}
  BY <1>2 DEF Return, Settle
<1> QED BY <1>3, Counts

\* A command that starts and ends within its line, with n sources left after the
\* line was read.
LEMMA WithinLine ==
  ASSUME Balanced, status = "running", cmd.name = NoWord, ~quit_flag, sources # 0,
         NEW n \in Nat, NEW taken, NEW l \in Nat, NEW opened \in {0, 1},
         \/ n = sources - 1 /\ taken = pop_file(account)
         \/ n = sources /\ taken = account,
         sources' = n + opened,
         account' = free_args(IF opened = 1 THEN push_file(parse_args(taken, l))
                                            ELSE parse_args(taken, l), l),
         err_cnt' \in Nat, quit_flag' => err_cnt' # 0,
         Shape(cmd'), cmd'.name = NoWord, status' \in {"running", "undefined"}
  PROVE  Balanced'
<1>1. account = Account(22 + sources, 752 + 8216 * sources)
  BY DEF Balanced, Outstanding, Words, Arrays
<1>2. taken = Account(22 + n, 752 + 8216 * n)
  <2>1. PICK x \in Int, y \in Int : x = 22 + sources /\ y = 752 + 8216 * sources
    BY DEF Balanced
  <2>2. pop_file(account) = Account(x - 1, y - 8216)
    BY <1>1, <2>1, SourceAccounts
  <2>3. x - 1 = 22 + (sources - 1) /\ y - 8216 = 752 + 8216 * (sources - 1)
    BY <2>1 DEF Balanced
  <2> QED BY <1>1, <2>2, <2>3
<1>3. parse_args(taken, l) = Account(22 + n + 1 + l, 752 + 8216 * n + 13 * l)
  <2>1. 22 + n \in Int /\ 752 + 8216 * n \in Int
    OBVIOUS
  <2> QED BY <1>2, <2>1, ParseAccounts
<1>4. push_file(parse_args(taken, l)) = Account(22 + n + 1 + l + 1, 752 + 8216 * n + 13 * l + 8216)
  <2>1. 22 + n + 1 + l \in Int /\ 752 + 8216 * n + 13 * l \in Int
    OBVIOUS
  <2> QED BY <1>3, <2>1, SourceAccounts
<1> DEFINE a == 22 + n + opened + 1 + l
           u == 752 + 8216 * (n + opened) + 13 * l
<1>5. a \in Int /\ u \in Int
  OBVIOUS
<1>6. (IF opened = 1 THEN push_file(parse_args(taken, l)) ELSE parse_args(taken, l)) = Account(a, u)
  BY <1>3, <1>4
<1>7. account' = Account(a - 1 - l, u - 13 * l)
  <2> HIDE DEF a, u
  <2> DEFINE parsed == IF opened = 1 THEN push_file(parse_args(taken, l)) ELSE parse_args(taken, l)
  <2>1. account' = free_args(parsed, l) /\ parsed = Account(a, u)
    BY <1>6
  <2> HIDE DEF parsed
  <2> QED BY <1>5, <2>1, ParseAccounts
<1>8. a - 1 - l = 22 + sources' /\ u - 13 * l = 752 + 8216 * sources'
  OBVIOUS
<1>9. account' = Outstanding'
  BY <1>7, <1>8 DEF Outstanding, Words, Arrays
<1> QED BY <1>9 DEF Balanced, GivenBack

LEMMA BalancedStep == Balanced /\ [QtestNext]_qtestVars => Balanced'
<1> SUFFICES ASSUME Balanced, [QtestNext]_qtestVars PROVE Balanced'
  OBVIOUS
<1>1. CASE ReadLine
  <2>1. /\ status = "running" /\ cmd.name = NoWord /\ ~quit_flag /\ sources # 0
        /\ err_cnt \in Nat /\ sources \in Nat /\ Shape(cmd)
    BY <1>1 DEF ReadLine, cmd_done, Balanced
  <2>2. PICK c \in Commands, popped \in BOOLEAN :
          LET parsed == parse_args(IF popped THEN pop_file(account) ELSE account, argc(c))
              left == IF popped THEN sources - 1 ELSE sources
              opened == IF Opens(c, left) THEN 1 ELSE 0
          IN \/ /\ (Interpret(c) /\ UNCHANGED params) \/ InterpretOwn(c, left)
                /\ sources' = left + opened
                /\ account' = free_args(IF opened = 1 THEN push_file(parsed) ELSE parsed, argc(c))
             \/ /\ StartInsert(c)
                /\ sources' = left /\ account' = parsed
             \/ /\ c.name = "quit" /\ do_quit_cmd(c)
                /\ account' = free_args(FreeLists(parsed, left), argc(c))
    BY <1>1 DEF ReadLine
  <2> DEFINE taken == IF popped THEN pop_file(account) ELSE account
             left == IF popped THEN sources - 1 ELSE sources
             opened == IF Opens(c, left) THEN 1 ELSE 0
             l == argc(c)
  <2>3. l \in Nat /\ left \in Nat /\ opened \in {0, 1} /\ Shape(c)
    BY <2>1, WordsOfLine, QtestAssumption DEF Shape
  <2>4. \/ left = sources - 1 /\ taken = pop_file(account)
        \/ left = sources /\ taken = account
    OBVIOUS
  <2>5. account = Account(22 + sources, 752 + 8216 * sources)
    BY <2>1 DEF Balanced, Outstanding, Words, Arrays
  <2>6. taken = Account(22 + left, 752 + 8216 * left)
    <3>1. pop_file(account) = Account(22 + sources - 1, 752 + 8216 * sources - 8216)
      BY <2>1, <2>5, SourceAccounts
    <3> QED BY <2>1, <2>5, <3>1
  <2>7. parse_args(taken, l) = Account(22 + left + 1 + l, 752 + 8216 * left + 13 * l)
    <3> HIDE DEF l, taken, left
    <3>1. 22 + left \in Int /\ 752 + 8216 * left \in Int
      BY <2>3
    <3> QED BY <2>3, <2>6, <3>1, ParseAccounts
  <2>8. CASE /\ (Interpret(c) /\ UNCHANGED params) \/ InterpretOwn(c, left)
             /\ sources' = left + opened
             /\ account' = free_args(IF opened = 1 THEN push_file(parse_args(taken, l)) ELSE parse_args(taken, l), l)
    <3>1. /\ err_cnt' \in Nat /\ (quit_flag' => err_cnt' # 0) /\ status' \in {"running", "undefined"}
          /\ Shape(cmd') /\ cmd'.name = NoWord
      <4>1. CASE Interpret(c)
        BY <2>1, <4>1, CommandReturns DEF Line, Shape
      <4>2. CASE InterpretOwn(c, left)
        <5>1. UNCHANGED <<cmd, status>> /\ \E ok : record_error(c, ok)
          BY <4>2 DEF InterpretOwn, do_option_cmd, do_source_cmd
        <5> QED BY <2>1, <5>1, Counts
      <4> QED BY <2>8, <4>1, <4>2
    <3> HIDE DEF l, taken, left, opened
    <3> QED BY <2>1, <2>3, <2>4, <2>8, <3>1, WithinLine
  <2>9. CASE StartInsert(c) /\ sources' = left /\ account' = parse_args(taken, l)
    <3>1. /\ cmd' = c /\ c.name # NoWord /\ UNCHANGED <<err_cnt, quit_flag, status>>
      BY <2>9 DEF StartInsert, NoWord
    <3>2. Words' = l /\ Arrays' = 1
      BY <3>1 DEF Words, Arrays, argc, Given
    <3>3. Outstanding' = Account(22 + left + l + 1, 752 + 8216 * left + 13 * l)
      <4> HIDE DEF l, left
      <4> QED BY <2>9, <3>2 DEF Outstanding
    <3>4. 22 + left + 1 + l = 22 + left + l + 1
      BY <2>3
    <3>5. account' = Outstanding'
      BY <2>7, <2>9, <3>3, <3>4
    <3>6. sources' \in Nat
      BY <2>3, <2>9
    <3> HIDE DEF l, left, taken
    <3> QED BY <2>1, <2>3, <3>1, <3>5, <3>6 DEF Balanced, GivenBack
  <2>10. CASE c.name = "quit" /\ do_quit_cmd(c) /\ account' = free_args(FreeLists(parse_args(taken, l), left), l)
    <3>1. /\ err_cnt' \in Nat /\ sources' = 0 /\ quit_flag' = TRUE /\ cmd' = cmd
          /\ status' \in {"running", "undefined"}
      BY <2>1, <2>10 DEF do_quit_cmd, Settle
    <3>2. account' = Account(0, 0)
      <4> HIDE DEF l, left, taken
      <4>1. 22 + left + 1 + l \in Int /\ 752 + 8216 * left + 13 * l \in Int
        BY <2>3
      <4>2. FreeLists(parse_args(taken, l), left)
              = Account(22 + left + 1 + l - 22 - left, 752 + 8216 * left + 13 * l - 752 - 8216 * left)
        BY <2>3, <2>7, <4>1, ListAccounts
      <4>3. /\ 22 + left + 1 + l - 22 - left = 1 + l
            /\ 752 + 8216 * left + 13 * l - 752 - 8216 * left = 13 * l
        BY <2>3
      <4>4. FreeLists(parse_args(taken, l), left) = Account(1 + l, 13 * l)
        BY <4>2, <4>3
      <4>5. free_args(Account(1 + l, 13 * l), l) = Account(1 + l - 1 - l, 13 * l - 13 * l)
        BY <2>3, ParseAccounts
      <4>6. 1 + l - 1 - l = 0 /\ 13 * l - 13 * l = 0
        BY <2>3
      <4> QED BY <2>10, <4>4, <4>5, <4>6
    <3> QED BY <2>1, <3>1, <3>2 DEF Balanced, GivenBack
  <2> QED BY <2>2, <2>8, <2>9, <2>10, Zenon
<1>2. CASE NextInsert
  <2>1. /\ status = "running" /\ cmd.name # NoWord /\ ~quit_flag /\ sources' = sources
        /\ err_cnt \in Nat /\ sources \in Nat /\ Shape(cmd)
        /\ account' = IF cmd'.name = NoWord THEN free_args(account, argc(cmd)) ELSE account
    BY <1>2 DEF NextInsert, Balanced
  <2> DEFINE l == argc(cmd)
  <2>2. account = Account(22 + sources + l + 1, 752 + 8216 * sources + 13 * l) /\ l \in Nat
    BY <2>1, WordsOfLine DEF Balanced, Outstanding, Words, Arrays
  <2>3. PICK a, u, o : Turn(cmd, a, u, o)
    BY <1>2 DEF NextInsert, Insert
  <2>4. \/ /\ cmd.n > 1 /\ cmd' = [cmd EXCEPT !.n = @ - 1] /\ UNCHANGED <<err_cnt, quit_flag>>
           /\ status' \in {"running", "undefined"}
        \/ \E k, ok, bad : Return(cmd, k, ok, bad)
    BY <2>3 DEF Turn, Settle
  <2>5. CASE /\ cmd.n > 1 /\ cmd' = [cmd EXCEPT !.n = @ - 1] /\ UNCHANGED <<err_cnt, quit_flag>>
             /\ status' \in {"running", "undefined"}
    <3>1. Shape(cmd') /\ cmd'.name = cmd.name /\ cmd'.s = cmd.s /\ cmd'.timed = cmd.timed
          /\ cmd'.n = cmd.n - 1 /\ cmd'.n > 0 /\ cmd.n > 0
      BY <2>1, <2>5 DEF Shape
    <3>2. argc(cmd') = argc(cmd)
      BY <3>1 DEF argc, Given
    <3>3. Words' = Words /\ Arrays' = Arrays
      <4>1. Words' = IF cmd'.name = NoWord THEN 0 ELSE argc(cmd')
        BY <3>1, <3>2 DEF Words, argc, NoWord, Given
      <4> QED BY <2>1, <3>1, <3>2, <4>1 DEF Words, Arrays, NoWord
    <3>4. account' = account /\ Outstanding' = Outstanding
      <4>1. cmd'.name # NoWord
        BY <2>1, <3>1
      <4> QED BY <2>1, <3>3, <4>1 DEF Outstanding
    <3> QED BY <2>1, <2>5, <3>1, <3>4 DEF Balanced, GivenBack, NoWord
  <2>6. CASE \E k, ok, bad : Return(cmd, k, ok, bad)
    <3>1. /\ err_cnt' \in Nat /\ (quit_flag' => err_cnt' # 0) /\ status' \in {"running", "undefined"}
          /\ cmd' = Line(NoWord, NoWord, 0, FALSE)
      <4>1. PICK k, ok, bad : Return(cmd, k, ok, bad)
        BY <2>6
      <4>2. /\ record_error(cmd, ok) /\ cmd' = Line(NoWord, NoWord, 0, FALSE)
            /\ status' \in {"running", "undefined"}
        BY <4>1 DEF Return, Settle
      <4> QED BY <2>1, <4>2, Counts
    <3>2. Shape(cmd') /\ cmd'.name = NoWord
      BY <3>1 DEF Shape, Line
    <3>3. account' = free_args(account, l)
      BY <2>1, <3>2
    <3>4. account' = Account(22 + sources, 752 + 8216 * sources)
      <4> HIDE DEF l
      <4> DEFINE x == 22 + sources + l + 1
                 y == 752 + 8216 * sources + 13 * l
      <4>1. x \in Int /\ y \in Int /\ x - 1 - l = 22 + sources /\ y - 13 * l = 752 + 8216 * sources
        BY <2>1, <2>2
      <4>2. account = Account(x, y)
        BY <2>2
      <4> HIDE DEF x, y
      <4> QED BY <2>2, <3>3, <4>1, <4>2, ParseAccounts
    <3>5. account' = Outstanding'
      BY <2>1, <3>2, <3>4 DEF Outstanding, Words, Arrays
    <3> QED BY <2>1, <3>1, <3>2, <3>5 DEF Balanced, GivenBack
  <2> QED BY <2>4, <2>5, <2>6
<1>3. CASE EndOfFile
  <2>1. /\ status = "running" /\ cmd.name = NoWord /\ ~quit_flag /\ sources # 0 /\ sources \in Nat
        /\ sources' = sources - 1 /\ account' = pop_file(account)
        /\ UNCHANGED <<err_cnt, quit_flag, cmd, status>>
    BY <1>3 DEF EndOfFile, cmd_done, Balanced
  <2>2. account = Account(22 + sources, 752 + 8216 * sources)
    BY <2>1 DEF Balanced, Outstanding, Words, Arrays
  <2>3. account' = Account(22 + sources - 1, 752 + 8216 * sources - 8216)
    BY <2>1, <2>2, SourceAccounts
  <2>4. account' = Outstanding'
    BY <2>1, <2>3 DEF Outstanding, Words, Arrays
  <2> QED BY <2>1, <2>4 DEF Balanced, GivenBack
<1>4. CASE Finish
  <2>1. /\ status = "running" /\ cmd.name = NoWord /\ (sources = 0 \/ quit_flag)
        /\ UNCHANGED <<err_cnt, quit_flag, cmd, sources>> /\ status' \in {"undefined", "exit0", "exit1"}
        /\ \/ err_cnt = 0 /\ ~quit_flag /\ account' = FreeLists(account, sources)
           \/ quit_flag /\ account' = account
           \/ err_cnt # 0 /\ status' = "exit1"
        /\ status' = "exit0" => err_cnt = 0
    BY <1>4 DEF Finish, cmd_done
  <2>2. CASE err_cnt = 0 /\ ~quit_flag /\ account' = FreeLists(account, sources)
    <3>1. account = Account(22 + sources, 752 + 8216 * sources) /\ sources \in Nat
      BY <2>1, <2>2 DEF Balanced, Outstanding, Words, Arrays
    <3>2. account' = Account(22 + sources - 22 - sources, 752 + 8216 * sources - 752 - 8216 * sources)
      BY <2>2, <3>1, ListAccounts
    <3>3. account' = Account(0, 0)
      BY <3>1, <3>2
    <3> QED BY <2>1, <3>3 DEF Balanced, GivenBack
  <2>3. CASE quit_flag /\ account' = account
    BY <2>1, <2>3 DEF Balanced, GivenBack
  <2>4. CASE err_cnt # 0 /\ status' = "exit1"
    BY <2>1, <2>4 DEF Balanced, GivenBack
  <2> QED BY <2>1, <2>2, <2>3, <2>4
<1>5. CASE UNCHANGED qtestVars
  BY <1>5 DEF qtestVars, console, Balanced, GivenBack, Outstanding, Words, Arrays
<1> QED BY <1>1, <1>2, <1>3, <1>4, <1>5 DEF QtestNext

LEMMA BalancedInit == ASSUME QtestInit PROVE Balanced
<1>1. /\ status = "running" /\ err_cnt = 0 /\ sources = 1 /\ ~quit_flag
      /\ cmd = Line(NoWord, NoWord, 0, FALSE) /\ account = push_file(init_cmd)
  BY DEF QtestInit
<1>2. account = Account(23, 752 + 8216)
  BY <1>1, Initially, SourceAccounts
<1>3. Shape(cmd) /\ cmd.name = NoWord
  BY <1>1 DEF Shape, Line
<1>4. Outstanding = Account(23, 752 + 8216)
  BY <1>1, <1>3 DEF Outstanding, Words, Arrays
<1>5. account = Outstanding
  BY <1>2, <1>4
<1>6. GivenBack
  BY <1>1 DEF GivenBack
<1> QED BY <1>1, <1>3, <1>5, <1>6 DEF Balanced

\* Whatever leaves a command, and wherever a file ends: when qtest exits with 0
\* all blocks and bytes that report.c gave out for the commands, the options, the
\* sources and the words of a line have been given back (console.c:257, report.c:271).
THEOREM AllGivenBack == QtestSpec => []GivenBack
<1>1. QtestInit => Balanced
  BY BalancedInit
<1>2. Balanced => GivenBack
  BY DEF Balanced
<1> QED BY <1>1, <1>2, BalancedStep, PTL DEF QtestSpec

-----------------------------------------------------------------------------
(***************************************************************************)
(* harness.c: the list of allocated blocks.                                *)
(***************************************************************************)
\* A block that is allocated is a header with its payload.
IsBlock(r) == r = [next |-> r.next, prev |-> r.prev, magic |-> r.magic, data |-> r.data]
FreeIsNoBlock == \A r : IsBlock(r) => r # Free

\* A memory whose program has not come to harm.
Sane(k) ==
  /\ Memory(k) /\ k.lost = FALSE
  /\ k.blk = [a \in Addrs |-> k.blk[a]]
  /\ \A a \in Live(k) : IsBlock(k.blk[a])

\* The ends of the list are the same.
Lists(k, r) == r.allocated = k.allocated /\ r.allocated_count = k.allocated_count

\* The elements of a sequence, and NULL beyond.
Nth(h, i) == IF i \in 1..Len(h) THEN h[i] ELSE NULL
Distinct(h) == h \in Seq(Addrs) /\ \A i, j \in 1..Len(h) : h[i] = h[j] => i = j

LEMMA DistinctFits ==
  ASSUME NEW h, Distinct(h)
  PROVE  Len(h) \in Nat /\ Len(h) <= Cardinality(Addrs)
<1> DEFINE l == Len(h)
<1>1. l \in Nat /\ h \in [1..l -> Addrs]
  BY DEF Distinct
<1>2. h \in Injection(1..l, Addrs)
  BY <1>1 DEF Distinct, Injection, IsInjective
<1>3. Cardinality(1..l) = l
  <2> HIDE DEF l
  <2>1. 1 \in Int /\ l \in Int /\ (1 > l => l = 0) /\ l - 1 + 1 = l
    BY <1>1
  <2>2. Cardinality(1..l) = IF 1 > l THEN 0 ELSE l - 1 + 1
    BY <2>1, FS_Interval
  <2> QED BY <2>1, <2>2
<1>4. Cardinality(1..l) <= Cardinality(Addrs)
  <2>1. IsFiniteSet(Addrs)
    BY HarnessAssumption
  <2> HIDE DEF l
  <2> QED BY <1>2, <2>1, FS_Injection
<1> QED BY <1>1, <1>3, <1>4

\* A walk along a sequence finds it.
LEMMA WalkIs ==
  ASSUME NEW h, Distinct(h), NEW T, NULL \notin T, NEW next,
         \A i \in 1..Len(h) : h[i] \in T /\ next[h[i]] = Nth(h, i + 1)
  PROVE  Walk(Nth(h, 1), T, next) = h
<1> DEFINE c == Cardinality(Addrs)
           l == Len(h)
           a == Nth(h, 1)
           Upto(f, j) == f = [n \in 0..j |-> IF n = 0 THEN a ELSE IF f[n - 1] \in T THEN next[f[n - 1]] ELSE NULL]
           F == CHOOSE f : Upto(f, c)
           Length(n) == /\ n < c => F[n] \notin T
                        /\ \A i \in 0..n-1 : F[i] \in T
           length == CHOOSE n \in 0..c : Length(n)
<1>1. c \in Nat /\ l \in Nat /\ l <= c
  BY DistinctFits, HarnessAssumption, FS_CardinalityType
<1>2. Walk(a, T, next) = [n \in 1..length |-> F[n - 1]]
  BY DEF Walk
<1>3. \A i \in Nat \ {0} : IF Nth(h, i) \in T THEN next[Nth(h, i)] = Nth(h, i + 1) ELSE Nth(h, i + 1) = NULL
  <2>1. ASSUME NEW i \in Nat \ {0}, i <= l PROVE Nth(h, i) \in T /\ next[Nth(h, i)] = Nth(h, i + 1)
    BY <1>1, <2>1 DEF Nth
  <2>2. ASSUME NEW i \in Nat \ {0}, i > l PROVE Nth(h, i) \notin T /\ Nth(h, i + 1) = NULL
    BY <1>1, <2>2 DEF Nth
  <2> QED BY <1>1, <2>1, <2>2
<1>4. Upto([n \in 0..c |-> Nth(h, n + 1)], c)
  <2> DEFINE f == [n \in 0..c |-> Nth(h, n + 1)]
  <2>1. ASSUME NEW n \in 0..c
        PROVE  f[n] = IF n = 0 THEN a ELSE IF f[n - 1] \in T THEN next[f[n - 1]] ELSE NULL
    <3>1. CASE n = 0
      BY <3>1
    <3>2. CASE n # 0
      <4>1. n - 1 \in 0..c /\ (n - 1) + 1 = n /\ n \in Nat \ {0}
        BY <1>1, <3>2
      <4>2. f[n] = Nth(h, n + 1) /\ f[n - 1] = Nth(h, n)
        BY <4>1
      <4> HIDE DEF f
      <4> QED BY <1>3, <3>2, <4>1, <4>2
    <3> QED BY <3>1, <3>2
  <2> QED BY <2>1
<1>5. Upto(F, c)
  BY <1>4
<1> HIDE DEF F
<1>6. \A n \in 0..c : F[n] = Nth(h, n + 1)
  <2> DEFINE N == {n \in Nat : n <= c => F[n] = Nth(h, n + 1)}
  <2>1. \A n \in 0..c : F[n] = IF n = 0 THEN a ELSE IF F[n - 1] \in T THEN next[F[n - 1]] ELSE NULL
    BY <1>5
  <2>2. 0 \in N
    BY <1>1, <2>1
  <2>3. ASSUME NEW n \in Nat, n \in N PROVE n + 1 \in N
    <3> SUFFICES ASSUME n + 1 <= c PROVE F[n + 1] = Nth(h, n + 2)
      BY <1>1
    <3>1. F[n] = Nth(h, n + 1)
      BY <1>1, <2>3
    <3>2. F[n + 1] = IF F[n] \in T THEN next[F[n]] ELSE NULL
      <4> HIDE DEF c
      <4>1. n + 1 \in 0..c /\ n + 1 # 0 /\ (n + 1) - 1 = n
        BY <1>1
      <4> QED BY <2>1, <4>1
    <3>3. n + 1 \in Nat \ {0} /\ (n + 1) + 1 = n + 2
      OBVIOUS
    <3> QED BY <1>3, <3>1, <3>2, <3>3
  <2> HIDE DEF N
  <2>4. Nat \subseteq N
    BY <2>2, <2>3, Induct
  <2> QED BY <1>1, <2>4 DEF N
<1>7. \A n \in 0..c : F[n] \in T <=> n < l
  <2> SUFFICES ASSUME NEW n \in 0..c PROVE Nth(h, n + 1) \in T <=> n < l
    BY <1>6
  <2> QED BY <1>1 DEF Nth
<1>8. length = l
  <2>1. l \in 0..c /\ Length(l)
    BY <1>1, <1>7
  <2>2. ASSUME NEW n \in 0..c, Length(n) PROVE n = l
    <3>1. ~(n < l)
      BY <1>1, <1>7, <2>2
    <3>2. ~(l < n)
      <4>1. l < n => l \in 0..n-1 /\ l \in 0..c
        BY <1>1
      <4> QED BY <1>7, <2>2, <4>1
    <3> QED BY <1>1, <3>1, <3>2
  <2> HIDE DEF Length
  <2> QED BY <2>1, <2>2
<1> HIDE DEF length
<1>9. ASSUME NEW n \in 1..l PROVE F[n - 1] = h[n]
  <2>1. n - 1 \in 0..c /\ (n - 1) + 1 = n
    BY <1>1
  <2> QED BY <1>6, <2>1 DEF Nth
<1>10. h = [n \in 1..l |-> h[n]]
  BY DEF Distinct
<1> QED BY <1>2, <1>8, <1>9, <1>10

-----------------------------------------------------------------------------
(***************************************************************************)
(* A program that is executed in parts.                                    *)
(***************************************************************************)
\* Any solution of the recursion of Run ends where Run does.
LEMMA RunEnds ==
  ASSUME NEW k, NEW program, Len(program) \in Nat, NEW f, f[0] = k,
         \A n \in 1..Len(program) : f[n] = Execute(f[n - 1], program[n])
  PROVE  Run(k, program) = f[Len(program)]
<1>1. PICK run : Runs(run, k, program) /\ Run(k, program) = run[Len(program)]
  BY RunIs
<1> DEFINE l == Len(program)
           Good == {n \in Nat : n <= l => run[n] = f[n]}
<1>2. \A n \in 0..l : run[n] = IF n = 0 THEN k ELSE Execute(run[n - 1], program[n])
  BY <1>1 DEF Runs
<1>3. 0 \in Good
  BY <1>2
<1>4. ASSUME NEW n \in Nat, n \in Good PROVE n + 1 \in Good
  <2> SUFFICES ASSUME n + 1 <= l PROVE run[n + 1] = f[n + 1]
    OBVIOUS
  <2>1. run[n] = f[n]
    BY <1>4
  <2>2. run[n + 1] = Execute(run[n], program[n + 1])
    BY <1>2
  <2>3. f[n + 1] = Execute(f[n], program[n + 1])
    <3>1. n + 1 \in 1..l /\ (n + 1) - 1 = n
      OBVIOUS
    <3> QED BY <3>1
  <2> QED BY <2>1, <2>2, <2>3
<1> HIDE DEF Good
<1>5. l \in Good
  BY <1>3, <1>4, Induct
<1> QED BY <1>1, <1>5 DEF Good

LEMMA JoinedAt ==
  ASSUME NEW p, Sequence(p), NEW r, Sequence(r)
  PROVE  /\ \A i \in 1..Len(p) : (p \o r)[i] = p[i]
         /\ \A i \in 1..Len(r) : (p \o r)[Len(p) + i] = r[i]
<1> DEFINE Good == {p[i] : i \in 1..Len(p)} \cup {r[i] : i \in 1..Len(r)}
<1>1. p \in Seq(Good) /\ r \in Seq(Good)
  BY DEF Sequence
<1> HIDE DEF Good
<1> QED BY <1>1

LEMMA RunJoined ==
  ASSUME NEW k, NEW p, Sequence(p), NEW r, Sequence(r)
  PROVE  Run(k, p \o r) = Run(Run(k, p), r)
<1> DEFINE l == Len(p)
           z == Len(r)
           both == p \o r
<1>1. l \in Nat /\ z \in Nat /\ Len(both) = l + z
  BY Joined DEF Sequence
<1>2. /\ \A i \in 1..l : both[i] = p[i]
      /\ \A i \in 1..z : both[l + i] = r[i]
  BY JoinedAt
<1> HIDE DEF both
<1>3. PICK run : Runs(run, k, both) /\ Run(k, both) = run[Len(both)]
  BY <1>1, RunIs
<1>4. \A n \in 0..l + z : run[n] = IF n = 0 THEN k ELSE Execute(run[n - 1], both[n])
  BY <1>1, <1>3 DEF Runs
<1>5. Run(k, p) = run[l]
  <2>1. run[0] = k
    BY <1>1, <1>4
  <2>2. ASSUME NEW n \in 1..l PROVE run[n] = Execute(run[n - 1], p[n])
    BY <1>1, <1>2, <1>4
  <2> HIDE DEF l
  <2> QED BY <1>1, <2>1, <2>2, RunEnds DEF l
<1>6. Run(run[l], r) = run[l + z]
  <2> DEFINE f == [n \in 0..z |-> run[l + n]]
  <2>1. f[0] = run[l] /\ f[z] = run[l + z]
    BY <1>1
  <2>2. ASSUME NEW n \in 1..z PROVE f[n] = Execute(f[n - 1], r[n])
    <3>1. f[n] = run[l + n] /\ f[n - 1] = run[(l + n) - 1]
      BY <1>1
    <3>2. run[l + n] = Execute(run[(l + n) - 1], both[l + n])
      BY <1>1, <1>4
    <3> QED BY <1>2, <3>1, <3>2
  <2> HIDE DEF f
  <2>3. Run(run[l], r) = f[Len(r)]
    BY <1>1, <2>1, <2>2, RunEnds
  <2> QED BY <2>1, <2>3
<1> QED BY <1>1, <1>3, <1>5, <1>6 DEF both

LEMMA RunOne ==
  ASSUME NEW k, NEW w
  PROVE  Run(k, <<w>>) = Execute(k, w)
<1> DEFINE f == [n \in 0..1 |-> IF n = 0 THEN k ELSE Execute(k, w)]
<1>1. f[0] = k /\ f[1] = Execute(k, w) /\ Len(<<w>>) = 1
  OBVIOUS
<1>2. \A n \in 1..1 : f[n] = Execute(f[n - 1], <<w>>[n])
  OBVIOUS
<1> HIDE DEF f
<1> QED BY <1>1, <1>2, RunEnds

LEMMA RunTwo ==
  ASSUME NEW k, NEW w, NEW x
  PROVE  Run(k, <<w, x>>) = Execute(Execute(k, w), x)
<1> DEFINE p == <<w, x>>
           k1 == Execute(k, w)
           k2 == Execute(k1, x)
           f == [n \in 0..2 |-> IF n = 0 THEN k ELSE IF n = 1 THEN k1 ELSE k2]
<1>1. Len(p) = 2 /\ p[1] = w /\ p[2] = x /\ f[0] = k /\ f[1] = k1 /\ f[2] = k2
  OBVIOUS
<1> HIDE DEF f, p
<1>2. f[1] = Execute(f[1 - 1], p[1]) /\ f[2] = Execute(f[2 - 1], p[2])
  BY <1>1
<1>3. \A n \in 1..2 : f[n] = Execute(f[n - 1], p[n])
  <2>1. \A n \in 1..2 : n = 1 \/ n = 2
    OBVIOUS
  <2> QED BY <1>2, <2>1
<1>4. Run(k, p) = f[Len(p)]
  <2>1. Len(p) \in Nat /\ \A n \in 1..Len(p) : f[n] = Execute(f[n - 1], p[n])
    BY <1>1, <1>3
  <2>2. f[0] = k
    BY <1>1
  <2> HIDE DEF k1
  <2> QED BY <2>1, <2>2, RunEnds
<1> QED BY <1>1, <1>4 DEF p

LEMMA RunThree ==
  ASSUME NEW k, NEW w, NEW x, NEW y
  PROVE  Run(k, <<w, x, y>>) = Execute(Execute(Execute(k, w), x), y)
<1> DEFINE p == <<w, x, y>>
           k1 == Execute(k, w)
           k2 == Execute(k1, x)
           k3 == Execute(k2, y)
           f == [n \in 0..3 |-> IF n = 0 THEN k ELSE IF n = 1 THEN k1 ELSE IF n = 2 THEN k2 ELSE k3]
<1>1. /\ Len(p) = 3 /\ p[1] = w /\ p[2] = x /\ p[3] = y
      /\ f[0] = k /\ f[1] = k1 /\ f[2] = k2 /\ f[3] = k3
  OBVIOUS
<1> HIDE DEF f, p
<1>2. /\ f[1] = Execute(f[1 - 1], p[1]) /\ f[2] = Execute(f[2 - 1], p[2])
      /\ f[3] = Execute(f[3 - 1], p[3])
  BY <1>1
<1>3. \A n \in 1..3 : f[n] = Execute(f[n - 1], p[n])
  <2>1. \A n \in 1..3 : n = 1 \/ n = 2 \/ n = 3
    OBVIOUS
  <2> QED BY <1>2, <2>1
<1>4. Run(k, p) = f[Len(p)]
  <2>1. Len(p) \in Nat /\ \A n \in 1..Len(p) : f[n] = Execute(f[n - 1], p[n])
    BY <1>1, <1>3
  <2>2. f[0] = k
    BY <1>1
  <2> HIDE DEF k1
  <2> QED BY <2>1, <2>2, RunEnds
<1> QED BY <1>1, <1>4 DEF p

LEMMA RunFour ==
  ASSUME NEW k, NEW w, NEW x, NEW y, NEW z
  PROVE  Run(k, <<w, x, y, z>>) = Execute(Execute(Execute(Execute(k, w), x), y), z)
<1> DEFINE p == <<w, x, y, z>>
           k1 == Execute(k, w)
           k2 == Execute(k1, x)
           k3 == Execute(k2, y)
           k4 == Execute(k3, z)
           f == [n \in 0..4 |-> IF n = 0 THEN k ELSE IF n = 1 THEN k1 ELSE IF n = 2 THEN k2
                                ELSE IF n = 3 THEN k3 ELSE k4]
<1>1. /\ Len(p) = 4 /\ p[1] = w /\ p[2] = x /\ p[3] = y /\ p[4] = z
      /\ f[0] = k /\ f[1] = k1 /\ f[2] = k2 /\ f[3] = k3 /\ f[4] = k4
  OBVIOUS
<1> HIDE DEF f, p
<1>2. /\ f[1] = Execute(f[1 - 1], p[1]) /\ f[2] = Execute(f[2 - 1], p[2])
      /\ f[3] = Execute(f[3 - 1], p[3]) /\ f[4] = Execute(f[4 - 1], p[4])
  BY <1>1
<1>3. \A n \in 1..4 : f[n] = Execute(f[n - 1], p[n])
  <2>1. \A n \in 1..4 : n = 1 \/ n = 2 \/ n = 3 \/ n = 4
    OBVIOUS
  <2> QED BY <1>2, <2>1
<1>4. Run(k, p) = f[Len(p)]
  <2>1. Len(p) \in Nat /\ \A n \in 1..Len(p) : f[n] = Execute(f[n - 1], p[n])
    BY <1>1, <1>3
  <2>2. f[0] = k
    BY <1>1
  <2> HIDE DEF k1
  <2> QED BY <2>1, <2>2, RunEnds
<1> QED BY <1>1, <1>4 DEF p

LEMMA RunSix ==
  ASSUME NEW k, NEW w, NEW x, NEW y, NEW z, NEW u, NEW v
  PROVE  Run(k, <<w, x, y, z, u, v>>)
           = Execute(Execute(Execute(Execute(Execute(Execute(k, w), x), y), z), u), v)
<1> DEFINE p == <<w, x, y, z, u, v>>
           k1 == Execute(k, w)
           k2 == Execute(k1, x)
           k3 == Execute(k2, y)
           k4 == Execute(k3, z)
           k5 == Execute(k4, u)
           k6 == Execute(k5, v)
           f == [n \in 0..6 |-> IF n = 0 THEN k ELSE IF n = 1 THEN k1 ELSE IF n = 2 THEN k2
                                ELSE IF n = 3 THEN k3 ELSE IF n = 4 THEN k4 ELSE IF n = 5 THEN k5 ELSE k6]
<1>1. /\ Len(p) = 6 /\ p[1] = w /\ p[2] = x /\ p[3] = y /\ p[4] = z /\ p[5] = u /\ p[6] = v
      /\ f[0] = k /\ f[1] = k1 /\ f[2] = k2 /\ f[3] = k3 /\ f[4] = k4 /\ f[5] = k5 /\ f[6] = k6
  OBVIOUS
<1> HIDE DEF f, p
<1>2. /\ f[1] = Execute(f[1 - 1], p[1]) /\ f[2] = Execute(f[2 - 1], p[2])
      /\ f[3] = Execute(f[3 - 1], p[3]) /\ f[4] = Execute(f[4 - 1], p[4])
      /\ f[5] = Execute(f[5 - 1], p[5]) /\ f[6] = Execute(f[6 - 1], p[6])
  BY <1>1
<1>3. \A n \in 1..6 : f[n] = Execute(f[n - 1], p[n])
  <2>1. \A n \in 1..6 : n = 1 \/ n = 2 \/ n = 3 \/ n = 4 \/ n = 5 \/ n = 6
    OBVIOUS
  <2> QED BY <1>2, <2>1
<1>4. Run(k, p) = f[Len(p)]
  <2>1. Len(p) \in Nat /\ \A n \in 1..Len(p) : f[n] = Execute(f[n - 1], p[n])
    BY <1>1, <1>3
  <2>2. f[0] = k
    BY <1>1
  <2> HIDE DEF k1
  <2> QED BY <2>1, <2>2, RunEnds
<1> QED BY <1>1, <1>4 DEF p

-----------------------------------------------------------------------------
(***************************************************************************)
(* The writes, one by one.                                                 *)
(***************************************************************************)
Fresh(k) == [next |-> k.allocated, prev |-> NULL, magic |-> "header", data |-> [kind |-> "fill"]]

LEMMA MallocWrite ==
  ASSUME NEW k, k.lost = FALSE, NEW a, ~k.noallocate_mode
  PROVE  Execute(k, Store("malloc", a, NULL))
           = [k EXCEPT !.blk[a] = Fresh(k)]
<1> DEFINE w == Store("malloc", a, NULL)
<1>1. Execute(k, w) = Header(k, w) /\ w.op = "malloc" /\ w.a = a /\ w.v = NULL
  BY DEF Execute, Store
<1> HIDE DEF w
<1>2. Header(k, w) = [k EXCEPT !.blk[a] = Fresh(k)]
  BY <1>1, ZenonT(30) DEF Header, Fresh
<1> QED BY <1>1, <1>2, ZenonT(30) DEF w

LEMMA CheckWrite ==
  ASSUME NEW k, k.lost = FALSE, NEW a, ~k.noallocate_mode
  PROVE  Execute(k, Store("check", a, NULL))
           = find_header(k, a)
<1> DEFINE w == Store("check", a, NULL)
<1>1. Execute(k, w) = Header(k, w) /\ w.op = "check" /\ w.a = a /\ w.v = NULL
  BY DEF Execute, Store
<1> HIDE DEF w
<1>2. Header(k, w) = find_header(k, a)
  BY <1>1, ZenonT(30) DEF Header
<1> QED BY <1>1, <1>2, ZenonT(30) DEF w

LEMMA FirstPrevWrite ==
  ASSUME NEW k, k.lost = FALSE, NEW a
  PROVE  Execute(k, Store("prev of allocated", a, NULL))
           = Relink(k, k.allocated, "prev", a)
<1> DEFINE w == Store("prev of allocated", a, NULL)
<1>1. Execute(k, w) = Header(k, w) /\ w.op = "prev of allocated" /\ w.a = a /\ w.v = NULL
  BY DEF Execute, Store
<1> HIDE DEF w
<1>2. Header(k, w) = Relink(k, k.allocated, "prev", a)
  BY <1>1, ZenonT(30) DEF Header
<1> QED BY <1>1, <1>2, ZenonT(30) DEF w

LEMMA AllocatedWrite ==
  ASSUME NEW k, k.lost = FALSE, NEW a
  PROVE  Execute(k, Store("allocated", a, NULL))
           = [k EXCEPT !.allocated = a]
<1> DEFINE w == Store("allocated", a, NULL)
<1>1. Execute(k, w) = Header(k, w) /\ w.op = "allocated" /\ w.a = a /\ w.v = NULL
  BY DEF Execute, Store
<1> HIDE DEF w
<1>2. Header(k, w) = [k EXCEPT !.allocated = a]
  BY <1>1, ZenonT(30) DEF Header
<1> QED BY <1>1, <1>2, ZenonT(30) DEF w

LEMMA CountWrite ==
  ASSUME NEW k, k.lost = FALSE, NEW a
  PROVE  Execute(k, Store("count", NULL, a))
           = [k EXCEPT !.allocated_count = k.allocated_count + a]
<1> DEFINE w == Store("count", NULL, a)
<1>1. Execute(k, w) = Header(k, w) /\ w.op = "count" /\ w.a = NULL /\ w.v = a
  BY DEF Execute, Store
<1> HIDE DEF w
<1>2. Header(k, w) = [k EXCEPT !.allocated_count = k.allocated_count + a]
  BY <1>1, ZenonT(30) DEF Header
<1> QED BY <1>1, <1>2, ZenonT(30) DEF w

LEMMA MagicWrite ==
  ASSUME NEW k, k.lost = FALSE, NEW a
  PROVE  Execute(k, Store("magic", a, NULL))
           = [k EXCEPT !.blk[a].magic = "free"]
<1> DEFINE w == Store("magic", a, NULL)
<1>1. Execute(k, w) = Header(k, w) /\ w.op = "magic" /\ w.a = a /\ w.v = NULL
  BY DEF Execute, Store
<1> HIDE DEF w
<1>2. Header(k, w) = [k EXCEPT !.blk[a].magic = "free"]
  BY <1>1, ZenonT(30) DEF Header
<1> QED BY <1>1, <1>2, ZenonT(30) DEF w

LEMMA NextOfPrevWrite ==
  ASSUME NEW k, k.lost = FALSE, NEW a
  PROVE  Execute(k, Store("next of prev", a, TRUE))
           = IF k.blk[a].prev = NULL THEN [k EXCEPT !.allocated = k.blk[a].next]
              ELSE Relink(k, k.blk[a].prev, "next", k.blk[a].next)
<1> DEFINE w == Store("next of prev", a, TRUE)
<1>1. Execute(k, w) = Header(k, w) /\ w.op = "next of prev" /\ w.a = a /\ w.v = TRUE
  BY DEF Execute, Store
<1> HIDE DEF w
<1>2. Header(k, w) = IF k.blk[a].prev = NULL THEN [k EXCEPT !.allocated = k.blk[a].next]
              ELSE Relink(k, k.blk[a].prev, "next", k.blk[a].next)
  BY <1>1, ZenonT(30) DEF Header
<1> QED BY <1>1, <1>2, ZenonT(30) DEF w

LEMMA PrevOfNextWrite ==
  ASSUME NEW k, k.lost = FALSE, NEW a
  PROVE  Execute(k, Store("prev of next", a, NULL))
           = Relink(k, k.blk[a].next, "prev", k.blk[a].prev)
<1> DEFINE w == Store("prev of next", a, NULL)
<1>1. Execute(k, w) = Header(k, w) /\ w.op = "prev of next" /\ w.a = a /\ w.v = NULL
  BY DEF Execute, Store
<1> HIDE DEF w
<1>2. Header(k, w) = Relink(k, k.blk[a].next, "prev", k.blk[a].prev)
  BY <1>1, ZenonT(30) DEF Header
<1> QED BY <1>1, <1>2, ZenonT(30) DEF w

LEMMA FreeWrite ==
  ASSUME NEW k, k.lost = FALSE, NEW a
  PROVE  Execute(k, Store("free", a, NULL))
           = [k EXCEPT !.blk[a] = Free]
<1> DEFINE w == Store("free", a, NULL)
<1>1. Execute(k, w) = Header(k, w) /\ w.op = "free" /\ w.a = a /\ w.v = NULL
  BY DEF Execute, Store
<1> HIDE DEF w
<1>2. Header(k, w) = [k EXCEPT !.blk[a] = Free]
  BY <1>1, ZenonT(30) DEF Header
<1> QED BY <1>1, <1>2, ZenonT(30) DEF w

SetData(k, a, u) == [k EXCEPT !.blk[a].data = u]
SetSize(k, a, u) == [k EXCEPT !.blk[a].data.size = @ + u]
SetField(k, a, field, u) == [k EXCEPT !.blk[a].data[field] = u]

LEMMA PayloadWrites ==
  ASSUME NEW k, k.lost = FALSE, NEW a, NEW u
  PROVE  /\ Execute(k, Store("data", a, u)) = SetData(k, a, u)
         /\ IsElement(k, a) => Execute(k, Store("link", a, u)) = SetField(k, a, "next", u)
         /\ Execute(k, Store("head", a, u)) = SetField(k, a, "head", u)
         /\ Execute(k, Store("tail", a, u)) = SetField(k, a, "tail", u)
         /\ Execute(k, Store("size", a, u)) = SetSize(k, a, u)
<1>1. ASSUME NEW op \in {"data", "link", "head", "tail", "size"}
      PROVE  /\ Execute(k, Store(op, a, u)) = Payload(k, Store(op, a, u))
             /\ Store(op, a, u).op = op /\ Store(op, a, u).a = a /\ Store(op, a, u).v = u
  BY DEF Execute, Store
<1>2. ASSUME NEW w, w.op = "data", w.a = a, w.v = u PROVE Payload(k, w) = [k EXCEPT !.blk[a].data = u]
  BY <1>2, Zenon DEF Payload
<1>3. ASSUME NEW w, w.op = "link", w.a = a, w.v = u, IsElement(k, a)
      PROVE  Payload(k, w) = [k EXCEPT !.blk[a].data.next = u]
  BY <1>3, Zenon DEF Payload
<1>4. ASSUME NEW w, w.op = "head", w.a = a, w.v = u PROVE Payload(k, w) = [k EXCEPT !.blk[a].data.head = u]
  BY <1>4, Zenon DEF Payload
<1>5. ASSUME NEW w, w.op = "tail", w.a = a, w.v = u PROVE Payload(k, w) = [k EXCEPT !.blk[a].data.tail = u]
  BY <1>5, Zenon DEF Payload
<1>6. ASSUME NEW w, w.op = "size", w.a = a, w.v = u PROVE Payload(k, w) = [k EXCEPT !.blk[a].data.size = @ + u]
  BY <1>6, Zenon DEF Payload
<1>7. Execute(k, Store("data", a, u)) = [k EXCEPT !.blk[a].data = u]
  BY <1>1, <1>2, Zenon
<1>8. IsElement(k, a) => Execute(k, Store("link", a, u)) = [k EXCEPT !.blk[a].data.next = u]
  BY <1>1, <1>3, Zenon
<1>9. Execute(k, Store("head", a, u)) = [k EXCEPT !.blk[a].data.head = u]
  BY <1>1, <1>4, Zenon
<1>10. Execute(k, Store("tail", a, u)) = [k EXCEPT !.blk[a].data.tail = u]
  BY <1>1, <1>5, Zenon
<1>11. Execute(k, Store("size", a, u)) = [k EXCEPT !.blk[a].data.size = @ + u]
  BY <1>1, <1>6, Zenon
<1> QED BY <1>7, <1>8, <1>9, <1>10, <1>11, Zenon DEF SetData, SetField, SetSize
-----------------------------------------------------------------------------
(***************************************************************************)
(* The list of allocated blocks.                                           *)
(***************************************************************************)
\* The blocks are those of h, linked both ways.
Listed(k, h) ==
  /\ Distinct(h)
  /\ \A a \in Addrs : a \in Live(k) <=> \E i \in 1..Len(h) : h[i] = a
  /\ k.allocated = Nth(h, 1) /\ k.allocated_count = Len(h)
  /\ \A i \in 1..Len(h) : k.blk[h[i]].next = Nth(h, i + 1) /\ k.blk[h[i]].prev = Nth(h, i - 1)

\* h with a before it, and without its element j.
Before(h, a) == [i \in 1..Len(h) + 1 |-> IF i = 1 THEN a ELSE h[i - 1]]
Cut(h, j) == [i \in 1..Len(h) - 1 |-> IF i < j THEN h[i] ELSE h[i + 1]]

LEMMA BeforeIs ==
  ASSUME NEW h, Distinct(h), NEW a \in Addrs, \A i \in 1..Len(h) : h[i] # a
  PROVE  LET g == Before(h, a)
         IN /\ Distinct(g) /\ Len(g) = Len(h) + 1 /\ g[1] = a
            /\ \A i \in 1..Len(h) : g[i + 1] = h[i]
            /\ \A i \in Nat \ {0} : Nth(g, i) = IF i = 1 THEN a ELSE Nth(h, i - 1)
<1> DEFINE g == Before(h, a)
           l == Len(h)
<1>1. l \in Nat /\ \A i \in 1..l : h[i] \in Addrs
  BY DEF Distinct
<1>2. \A i \in 1..l + 1 : g[i] = IF i = 1 THEN a ELSE h[i - 1]
  BY DEF Before
<1>3. g \in Seq(Addrs) /\ Len(g) = l + 1
  <2>1. \A i \in 1..l + 1 : (IF i = 1 THEN a ELSE h[i - 1]) \in Addrs
    BY <1>1
  <2>2. g \in [1..l + 1 -> Addrs]
    BY <2>1 DEF Before
  <2> HIDE DEF g
  <2> QED BY <1>1, <2>2
<1> HIDE DEF g
<1>4. \A i, j \in 1..l + 1 : g[i] = g[j] => i = j
  <2> SUFFICES ASSUME NEW i \in 1..l + 1, NEW j \in 1..l + 1, g[i] = g[j] PROVE i = j
    OBVIOUS
  <2>1. CASE i = 1 \/ j = 1
    BY <1>1, <1>2, <2>1
  <2>2. CASE i # 1 /\ j # 1
    <3>1. i - 1 \in 1..l /\ j - 1 \in 1..l /\ h[i - 1] = h[j - 1]
      BY <1>1, <1>2, <2>2
    <3>2. i - 1 = j - 1
      BY <3>1 DEF Distinct
    <3> QED BY <1>1, <3>2
  <2> QED BY <2>1, <2>2
<1>5. g[1] = a /\ \A i \in 1..l : g[i + 1] = h[i]
  BY <1>1, <1>2
<1>6. ASSUME NEW i \in Nat \ {0} PROVE Nth(g, i) = IF i = 1 THEN a ELSE Nth(h, i - 1)
  <2>1. CASE i = 1
    BY <1>1, <1>3, <1>5, <2>1 DEF Nth
  <2>2. CASE i \in 1..l + 1 /\ i # 1
    <3>1. i - 1 \in 1..l
      BY <1>1, <2>2
    <3> QED BY <1>2, <1>3, <2>2, <3>1 DEF Nth
  <2>3. CASE i \notin 1..l + 1
    <3>1. i - 1 \notin 1..l /\ i # 1
      BY <1>1, <2>3
    <3> QED BY <1>3, <2>3, <3>1 DEF Nth
  <2> QED BY <2>1, <2>2, <2>3
<1> QED BY <1>3, <1>4, <1>5, <1>6 DEF Distinct, g

\* h with a behind it.
Behind(h, a) == [i \in 1..Len(h) + 1 |-> IF i = Len(h) + 1 THEN a ELSE h[i]]

LEMMA BehindIs ==
  ASSUME NEW h, Distinct(h), NEW a \in Addrs, \A i \in 1..Len(h) : h[i] # a
  PROVE  LET g == Behind(h, a)
         IN /\ Distinct(g) /\ Len(g) = Len(h) + 1 /\ g[Len(h) + 1] = a
            /\ \A i \in 1..Len(h) : g[i] = h[i]
            /\ \A i \in Nat \ {0} : Nth(g, i) = IF i = Len(h) + 1 THEN a ELSE Nth(h, i)
<1> DEFINE g == Behind(h, a)
           l == Len(h)
<1>1. l \in Nat /\ \A i \in 1..l : h[i] \in Addrs
  BY DEF Distinct
<1>2. \A i \in 1..l + 1 : g[i] = IF i = l + 1 THEN a ELSE h[i]
  BY DEF Behind
<1>3. g \in Seq(Addrs) /\ Len(g) = l + 1
  <2>1. \A i \in 1..l + 1 : (IF i = l + 1 THEN a ELSE h[i]) \in Addrs
    BY <1>1
  <2>2. g \in [1..l + 1 -> Addrs]
    BY <2>1 DEF Behind
  <2> HIDE DEF g
  <2> QED BY <1>1, <2>2
<1> HIDE DEF g
<1>4. g[l + 1] = a /\ \A i \in 1..l : g[i] = h[i]
  BY <1>1, <1>2
<1>5. \A i, j \in 1..l + 1 : g[i] = g[j] => i = j
  <2> SUFFICES ASSUME NEW i \in 1..l + 1, NEW j \in 1..l + 1, g[i] = g[j] PROVE i = j
    OBVIOUS
  <2>1. CASE i = l + 1 \/ j = l + 1
    BY <1>1, <1>2, <2>1
  <2>2. CASE i # l + 1 /\ j # l + 1
    <3>1. i \in 1..l /\ j \in 1..l /\ h[i] = h[j]
      BY <1>1, <1>2, <2>2
    <3> QED BY <3>1 DEF Distinct
  <2> QED BY <2>1, <2>2
<1>6. ASSUME NEW i \in Nat \ {0} PROVE Nth(g, i) = IF i = l + 1 THEN a ELSE Nth(h, i)
  <2>1. CASE i = l + 1
    BY <1>1, <1>3, <1>4, <2>1 DEF Nth
  <2>2. CASE i \in 1..l
    <3>1. i \in 1..l + 1 /\ i # l + 1
      BY <1>1, <2>2
    <3> QED BY <1>3, <1>4, <2>2, <3>1 DEF Nth
  <2>3. CASE i > l + 1
    <3>1. i \notin 1..l /\ i \notin 1..l + 1 /\ i # l + 1
      BY <1>1, <2>3
    <3> QED BY <1>3, <3>1 DEF Nth
  <2> QED BY <1>1, <2>1, <2>2, <2>3
<1> QED BY <1>3, <1>4, <1>5, <1>6 DEF Distinct, g

LEMMA CutIs ==
  ASSUME NEW h, Distinct(h), NEW j \in 1..Len(h)
  PROVE  LET g == Cut(h, j)
         IN /\ Distinct(g) /\ Len(g) = Len(h) - 1
            /\ \A i \in 1..Len(h) - 1 : g[i] = IF i < j THEN h[i] ELSE h[i + 1]
            /\ \A i \in Nat : Nth(g, i) = IF i < j THEN Nth(h, i) ELSE Nth(h, i + 1)
<1> DEFINE g == Cut(h, j)
           l == Len(h)
<1>1. l \in Nat /\ \A i \in 1..l : h[i] \in Addrs
  BY DEF Distinct
<1>2. \A i \in 1..l - 1 : g[i] = IF i < j THEN h[i] ELSE h[i + 1]
  BY DEF Cut
<1>3. g \in Seq(Addrs) /\ Len(g) = l - 1
  <2>1. \A i \in 1..l - 1 : (IF i < j THEN h[i] ELSE h[i + 1]) \in Addrs
    BY <1>1
  <2>2. g \in [1..l - 1 -> Addrs] /\ l - 1 \in Nat
    BY <1>1, <2>1 DEF Cut
  <2> HIDE DEF g
  <2> QED BY <2>2
<1> HIDE DEF g
<1>4. \A i, n \in 1..l - 1 : g[i] = g[n] => i = n
  <2> SUFFICES ASSUME NEW i \in 1..l - 1, NEW n \in 1..l - 1, g[i] = g[n] PROVE i = n
    OBVIOUS
  <2> DEFINE x == IF i < j THEN i ELSE i + 1
             y == IF n < j THEN n ELSE n + 1
  <2>1. x \in 1..l /\ y \in 1..l /\ h[x] = h[y]
    <3>1. g[i] = h[x] /\ g[n] = h[y]
      BY <1>2
    <3>2. l \in Nat /\ j \in Nat /\ i \in Nat /\ i <= l - 1 /\ n \in Nat /\ n <= l - 1 /\ i # 0 /\ n # 0
      BY <1>1
    <3> HIDE DEF l
    <3>3. x \in 1..l /\ y \in 1..l
      BY <3>2
    <3> QED BY <3>1, <3>3
  <2> HIDE DEF x, y
  <2>2. x = y
    BY <2>1 DEF Distinct
  <2> QED BY <1>1, <2>2 DEF x, y
<1>5. ASSUME NEW i \in Nat PROVE Nth(g, i) = IF i < j THEN Nth(h, i) ELSE Nth(h, i + 1)
  <2>1. CASE i \in 1..l - 1
    <3>1. i \in 1..l /\ i + 1 \in 1..l
      BY <1>1, <2>1
    <3> QED BY <1>2, <1>3, <2>1, <3>1 DEF Nth
  <2>2. CASE i = 0
    BY <1>3, <2>2 DEF Nth
  <2>3. CASE i >= l
    <3>1. i + 1 \notin 1..l /\ ~(i < j) /\ i \notin 1..l - 1
      BY <1>1, <2>3
    <3> QED BY <1>3, <3>1 DEF Nth
  <2> QED BY <1>1, <2>1, <2>2, <2>3
<1> QED BY <1>2, <1>3, <1>4, <1>5 DEF Distinct, g
FilledData == [kind |-> "fill"]

LEMMA Malloced ==
  ASSUME FreeIsNoBlock, NEW k, Sane(k), NEW h, Listed(k, h), k.noallocate_mode = FALSE,
         NEW a \in Unused(k)
  PROVE  LET r == Run(k, test_malloc(a))
         IN /\ Keeps(k, r) /\ r.lost = FALSE
            /\ r.allocated = a /\ r.allocated_count = k.allocated_count + 1
            /\ r.blk = [x \in Addrs |-> IF x = a THEN Fresh(k)
                                       ELSE IF x = k.allocated THEN [k.blk[x] EXCEPT !.prev = a]
                                       ELSE k.blk[x]]
<1> DEFINE k1 == Execute(k, Store("malloc", a, NULL))
           k2 == Execute(k1, Store("prev of allocated", a, NULL))
           k3 == Execute(k2, Store("allocated", a, NULL))
           k4 == Execute(k3, Store("count", NULL, 1))
           b1 == [k.blk EXCEPT ![a] = Fresh(k)]
           b2 == [x \in Addrs |-> IF x = a THEN Fresh(k)
                                  ELSE IF x = k.allocated THEN [k.blk[x] EXCEPT !.prev = a]
                                  ELSE k.blk[x]]
<1>1. Run(k, test_malloc(a)) = k4
  <2> DEFINE w == Store("malloc", a, NULL)
             x == Store("prev of allocated", a, NULL)
             y == Store("allocated", a, NULL)
             z == Store("count", NULL, 1)
  <2>1. test_malloc(a) = <<w, x, y, z>>
    BY DEF test_malloc
  <2> HIDE DEF w, x, y, z
  <2>2. Run(k, test_malloc(a)) = Execute(Execute(Execute(Execute(k, w), x), y), z)
    BY <2>1, RunFour
  <2> QED BY <2>2 DEF w, x, y, z
<1>2. /\ a \in Addrs /\ k.blk[a] = Free /\ Memory(k) /\ k.lost = FALSE
      /\ k.blk = [x \in Addrs |-> k.blk[x]] /\ NULL \notin Addrs
      /\ IsBlock(Fresh(k)) /\ Fresh(k) # Free
  BY HarnessAssumption DEF Unused, Live, Sane, IsBlock, Fresh, FreeIsNoBlock
<1>3. k1 = [k EXCEPT !.blk = b1]
  <2>1. k1 = [k EXCEPT !.blk[a] = Fresh(k)]
    BY <1>2, MallocWrite
  <2> QED BY <2>1
<1> HIDE DEF k1
<1>4. /\ Memory(k1) /\ k1.lost = FALSE /\ k1.allocated = k.allocated
      /\ k1.allocated_count = k.allocated_count /\ k1.blk = b1 /\ Keeps(k, k1)
  BY <1>2, <1>3 DEF Memory, Fields, Keeps
<1>5. k2 = Relink(k1, k1.allocated, "prev", a)
  <2>1. k1.lost = FALSE
    BY <1>4
  <2> QED BY <2>1, FirstPrevWrite
<1> HIDE DEF k2
<1>6. /\ Memory(k2) /\ k2.lost = FALSE /\ k2.allocated = k.allocated
      /\ k2.allocated_count = k.allocated_count /\ k2.blk = b2 /\ Keeps(k, k2)
  <2>1. CASE k.allocated = NULL
    <3>1. k2 = k1
      BY <1>4, <1>5, <2>1 DEF Relink
    <3>2. b1 = b2
      BY <1>2, <2>1
    <3> QED BY <1>4, <3>1, <3>2
  <2>2. CASE k.allocated # NULL
    <3> DEFINE p == k.allocated
    <3>1. p \in Live(k)
      BY <2>2 DEF Listed, Nth, Distinct
    <3>2. p \in Addrs /\ p # a /\ k.blk[p] # Free
      BY <1>2, <3>1 DEF Live
    <3> HIDE DEF p
    <3>3. b1[p] = k.blk[p] /\ b1 = [x \in Addrs |-> b1[x]]
      BY <1>2, <3>2
    <3>4. k2 = [k1 EXCEPT !.blk[p]["prev"] = a]
      BY <1>4, <1>5, <2>2, <3>2, <3>3 DEF Relink, p
    <3> DEFINE d == [k.blk[p] EXCEPT !.prev = a]
    <3>5. k2 = [k1 EXCEPT !.blk = [b1 EXCEPT ![p] = d]]
      BY <1>4, <3>3, <3>4
    <3>6. [b1 EXCEPT ![p] = d] = b2
      <4> HIDE DEF d
      <4>1. \A x \in Addrs : [b1 EXCEPT ![p] = d][x] = IF x = a THEN Fresh(k) ELSE IF x = p THEN d ELSE k.blk[x]
        BY <1>2, <3>2
      <4>2. [b1 EXCEPT ![p] = d] = [x \in Addrs |-> IF x = a THEN Fresh(k) ELSE IF x = p THEN d ELSE k.blk[x]]
        BY <1>2, <3>3, <4>1
      <4> QED BY <4>2 DEF d, p
    <3> HIDE DEF d, b1, b2
    <3> QED BY <1>4, <3>5, <3>6 DEF Memory, Fields, Keeps
  <2> QED BY <2>1, <2>2
<1> HIDE DEF b1, b2
<1>7. k3 = [k2 EXCEPT !.allocated = a]
  BY <1>6, AllocatedWrite, Zenon
<1> HIDE DEF k3
<1>8. /\ Memory(k3) /\ k3.lost = FALSE /\ k3.allocated = a
      /\ k3.allocated_count = k.allocated_count /\ k3.blk = b2 /\ Keeps(k, k3)
  BY <1>6, <1>7 DEF Memory, Fields, Keeps
<1>9. k4 = [k3 EXCEPT !.allocated_count = k.allocated_count + 1]
  <2>1. k4 = [k3 EXCEPT !.allocated_count = k3.allocated_count + 1]
    BY <1>8, CountWrite, Zenon
  <2> QED BY <1>8, <2>1
<1> HIDE DEF k4
<1>10. /\ Memory(k4) /\ k4.lost = FALSE /\ k4.allocated = a
       /\ k4.allocated_count = k.allocated_count + 1 /\ k4.blk = b2 /\ Keeps(k, k4)
  BY <1>8, <1>9 DEF Memory, Fields, Keeps
<1> QED BY <1>1, <1>10 DEF b2
\* What the queue sees of the memory: the payloads of the blocks.
Contents(k) == [x \in Live(k) |-> Data(k, x)]
Holds(k, d) == Sane(k) /\ (\E h : Listed(k, h)) /\ d = Contents(k)

\* d with a block a, and without it.
With(d, a, u) == [x \in DOMAIN d \cup {a} |-> IF x = a THEN u ELSE d[x]]
Less(d, a) == [x \in DOMAIN d \ {a} |-> d[x]]

LEMMA MallocHolds ==
  ASSUME FreeIsNoBlock, NEW k, NEW d, Holds(k, d), k.noallocate_mode = FALSE,
         NEW a \in Addrs \ DOMAIN d
  PROVE  LET r == Run(k, test_malloc(a))
         IN Holds(r, With(d, a, FilledData)) /\ Keeps(k, r)
<1> DEFINE r == Run(k, test_malloc(a))
<1>1. PICK h : Listed(k, h)
  BY DEF Holds
<1>2. Sane(k) /\ DOMAIN d = Live(k) /\ a \in Unused(k) /\ a \in Addrs /\ a \notin Live(k)
  BY DEF Holds, Contents, Unused
<1>3. /\ Keeps(k, r) /\ r.lost = FALSE
      /\ r.allocated = a /\ r.allocated_count = k.allocated_count + 1
      /\ r.blk = [x \in Addrs |-> IF x = a THEN Fresh(k)
                                 ELSE IF x = k.allocated THEN [k.blk[x] EXCEPT !.prev = a]
                                 ELSE k.blk[x]]
  BY <1>1, <1>2, Malloced
<1> HIDE DEF r
<1>4. \A x \in Live(k) : x \in Addrs /\ x # a /\ k.blk[x] # Free /\ IsBlock(k.blk[x])
  BY <1>2 DEF Live, Sane
<1>5. ASSUME NEW x \in Live(k)
      PROVE  /\ IsBlock(r.blk[x]) /\ r.blk[x].data = k.blk[x].data /\ r.blk[x].next = k.blk[x].next
             /\ r.blk[x].prev = IF x = k.allocated THEN a ELSE k.blk[x].prev
  <2> DEFINE f == k.blk[x]
             g == [f EXCEPT !.prev = a]
  <2>1. IsBlock(f) /\ x \in Addrs /\ x # a
    BY <1>4
  <2>2. r.blk[x] = IF x = k.allocated THEN g ELSE f
    BY <1>3, <2>1
  <2> HIDE DEF f
  <2>3. IsBlock(g) /\ g.data = f.data /\ g.next = f.next /\ g.prev = a
    BY <2>1 DEF IsBlock
  <2> HIDE DEF g
  <2> QED BY <2>1, <2>2, <2>3 DEF f
<1>6. r.blk[a] = Fresh(k) /\ IsBlock(Fresh(k))
  BY <1>2, <1>3 DEF IsBlock, Fresh
<1>7. Live(r) = Live(k) \cup {a}
  <2>1. \A x \in Addrs : r.blk[x] # Free <=> x = a \/ k.blk[x] # Free
    <3> SUFFICES ASSUME NEW x \in Addrs PROVE r.blk[x] # Free <=> x = a \/ k.blk[x] # Free
      OBVIOUS
    <3>1. CASE x = a
      BY <1>6, <3>1 DEF FreeIsNoBlock
    <3>2. CASE x \in Live(k)
      BY <1>4, <1>5, <3>2 DEF FreeIsNoBlock
    <3>3. CASE x # a /\ x \notin Live(k)
      <4>1. x # k.allocated
        BY <1>1, <3>3, HarnessAssumption DEF Listed, Nth, Distinct
      <4>2. r.blk[x] = k.blk[x]
        BY <1>3, <3>3, <4>1
      <4> QED BY <3>3, <4>2 DEF Live
    <3> QED BY <3>1, <3>2, <3>3
  <2> QED BY <1>2, <2>1 DEF Live
<1>8. Sane(r)
  <2>1. Memory(r) /\ r.lost = FALSE /\ r.blk = [x \in Addrs |-> r.blk[x]]
    BY <1>3 DEF Keeps
  <2>2. \A x \in Live(r) : IsBlock(r.blk[x])
    BY <1>5, <1>6, <1>7
  <2> QED BY <2>1, <2>2 DEF Sane
<1>9. Listed(r, Before(h, a))
  <2> DEFINE g == Before(h, a)
             l == Len(h)
  <2>1. /\ Distinct(h) /\ k.allocated = Nth(h, 1) /\ k.allocated_count = l /\ l \in Nat
        /\ \A x \in Addrs : x \in Live(k) <=> \E i \in 1..l : h[i] = x
        /\ \A i \in 1..l : k.blk[h[i]].next = Nth(h, i + 1) /\ k.blk[h[i]].prev = Nth(h, i - 1)
        /\ \A i \in 1..l : h[i] \in Addrs
    BY <1>1 DEF Listed, Distinct
  <2>2. /\ Distinct(g) /\ Len(g) = l + 1 /\ g[1] = a
        /\ \A i \in 1..l : g[i + 1] = h[i]
        /\ \A i \in Nat \ {0} : Nth(g, i) = IF i = 1 THEN a ELSE Nth(h, i - 1)
    BY <1>2, <2>1, BeforeIs
  <2> HIDE DEF g, l
  <2>3. ASSUME NEW x \in Addrs PROVE x \in Live(r) <=> \E i \in 1..l + 1 : g[i] = x
    <3>1. ASSUME x \in Live(r) PROVE \E i \in 1..l + 1 : g[i] = x
      <4>1. CASE x = a
        BY <2>1, <2>2, <4>1
      <4>2. CASE x \in Live(k)
        <5>1. PICK i \in 1..l : h[i] = x
          BY <2>1, <4>2
        <5>2. i + 1 \in 1..l + 1 /\ g[i + 1] = x
          BY <2>1, <2>2, <5>1
        <5> QED BY <5>2
      <4> QED BY <1>7, <3>1, <4>1, <4>2
    <3>2. ASSUME NEW i \in 1..l + 1, g[i] = x PROVE x \in Live(r)
      <4>1. CASE i = 1
        BY <1>7, <2>2, <3>2, <4>1
      <4>2. CASE i # 1
        <5>1. i - 1 \in 1..l /\ (i - 1) + 1 = i
          BY <2>1, <4>2
        <5>2. h[i - 1] = x
          BY <2>2, <3>2, <5>1
        <5> QED BY <1>7, <2>1, <5>1, <5>2
      <4> QED BY <4>1, <4>2
    <3> QED BY <3>1, <3>2
  <2>4. r.allocated = Nth(g, 1) /\ r.allocated_count = l + 1
    BY <1>3, <2>1, <2>2
  <2>5. ASSUME NEW i \in 1..l + 1 PROVE r.blk[g[i]].next = Nth(g, i + 1) /\ r.blk[g[i]].prev = Nth(g, i - 1)
    <3>0. i \in Nat \ {0} /\ i + 1 \in Nat \ {0, 1} /\ (i + 1) - 1 = i
      BY <2>1
    <3>a. Nth(g, i + 1) = Nth(h, i)
      BY <2>2, <3>0
    <3>1. CASE i = 1
      <4>1. r.blk[g[i]].next = k.allocated /\ r.blk[g[i]].prev = NULL
        BY <1>6, <2>2, <3>1 DEF Fresh
      <4>2. Nth(g, i - 1) = NULL
        BY <3>1 DEF Nth
      <4> QED BY <2>1, <3>1, <3>a, <4>1, <4>2
    <3>2. CASE i # 1
      <4>1. PICK n \in 1..l : i = n + 1
        <5>1. i - 1 \in 1..l /\ i = (i - 1) + 1
          BY <2>1, <3>2
        <5> QED BY <5>1
      <4>2. g[i] = h[n] /\ h[n] \in Live(k) /\ n \in Nat \ {0} /\ i - 1 = n
        BY <2>1, <2>2, <4>1
      <4>3. r.blk[g[i]].next = Nth(h, i)
        BY <1>5, <2>1, <4>1, <4>2
      <4>4. Nth(g, i - 1) = IF n = 1 THEN a ELSE Nth(h, n - 1)
        BY <2>2, <4>2
      <4>5. h[n] = k.allocated <=> n = 1
        <5>1. k.allocated = h[1] /\ 1 \in 1..l
          BY <2>1, <4>1 DEF Nth, l
        <5>2. \A i1, j1 \in 1..l : h[i1] = h[j1] => i1 = j1
          BY <2>1 DEF Distinct, l
        <5> QED BY <5>1, <5>2
      <4>6. r.blk[g[i]].prev = IF n = 1 THEN a ELSE Nth(h, n - 1)
        BY <1>5, <2>1, <4>2, <4>5
      <4> QED BY <3>a, <4>3, <4>4, <4>6
    <3> QED BY <3>1, <3>2
  <2> QED BY <2>2, <2>3, <2>4, <2>5 DEF Listed, g, l
<1>10. Contents(r) = With(d, a, FilledData)
  <2>1. \A x \in Live(k) : x # a /\ Data(r, x) = d[x]
    BY <1>2, <1>4, <1>5 DEF Data, Holds, Contents
  <2>2. Data(r, a) = FilledData
    BY <1>6 DEF Data, Fresh, FilledData
  <2> QED BY <1>2, <1>7, <2>1, <2>2 DEF Contents, With
<1> QED BY <1>3, <1>8, <1>9, <1>10 DEF Holds, r
\* A link of a block, if there is one, is set.
Put(k, u, field, v) ==
  [x \in Addrs |-> IF x = u THEN [k.blk[x] EXCEPT ![field] = v] ELSE k.blk[x]]

LEMMA RelinkIs ==
  ASSUME NEW k, Memory(k), k.lost = FALSE, NEW u \in Link, u # NULL => k.blk[u] # Free,
         NEW field \in {"next", "prev"}, NEW v, k.blk = [x \in Addrs |-> k.blk[x]]
  PROVE  LET r == Relink(k, u, field, v)
         IN Keeps(k, r) /\ r.lost = FALSE /\ Lists(k, r) /\ r.blk = Put(k, u, field, v)
<1> DEFINE r == Relink(k, u, field, v)
           c == Put(k, u, field, v)
<1>1. CASE u = NULL
  <2>1. r = k
    BY <1>1 DEF Relink
  <2>2. c = [x \in Addrs |-> k.blk[x]]
    BY <1>1, HarnessAssumption DEF Put
  <2> QED BY <2>1, <2>2 DEF Keeps, Lists
<1>2. CASE u # NULL
  <2> DEFINE d == [k.blk[u] EXCEPT ![field] = v]
  <2>1. r = [k EXCEPT !.blk = [k.blk EXCEPT ![u] = d]]
    BY <1>2 DEF Relink
  <2>2. [k.blk EXCEPT ![u] = d] = c
    BY <1>2 DEF Link, Put
  <2> HIDE DEF r, c, d
  <2>3. r = [k EXCEPT !.blk = c]
    BY <2>1, <2>2
  <2>4. Keeps(k, r) /\ r.lost = FALSE /\ Lists(k, r) /\ r.blk = c
    BY <2>3 DEF Memory, Fields, Keeps, Lists
  <2> QED BY <2>4 DEF r, c
<1> QED BY <1>1, <1>2

LEMMA ListedBlocks ==
  ASSUME NEW k, NEW h, Listed(k, h), NEW i \in 1..Len(h)
  PROVE  /\ Len(h) \in Nat /\ h[i] \in Addrs /\ h[i] \in Live(k)
         /\ k.blk[h[i]].next = Nth(h, i + 1) /\ k.blk[h[i]].prev = Nth(h, i - 1)
<1>1. h[i] \in Addrs /\ Len(h) \in Nat
  BY DEF Listed, Distinct
<1>2. \A a \in Addrs : a \in Live(k) <=> \E j \in 1..Len(h) : h[j] = a
  BY DEF Listed
<1> QED BY <1>1, <1>2 DEF Listed

LEMMA BlocksListed == ASSUME NEW k, NEW h, Listed(k, h) PROVE Blocks(k, k.allocated) = h
<1> DEFINE next == [x \in Addrs |-> IF k.blk[x] = Free THEN NULL ELSE k.blk[x].next]
<1>1. /\ Distinct(h) /\ k.allocated = Nth(h, 1) /\ NULL \notin Addrs
      /\ \A i \in 1..Len(h) : k.blk[h[i]].next = Nth(h, i + 1) /\ h[i] \in Live(k)
  BY HarnessAssumption, ListedBlocks DEF Listed
<1>2. \A i \in 1..Len(h) : h[i] \in Addrs /\ next[h[i]] = Nth(h, i + 1)
  BY <1>1 DEF Live
<1>3. Blocks(k, k.allocated) = Walk(Nth(h, 1), Addrs, next)
  BY <1>1 DEF Blocks
<1> HIDE DEF next
<1>4. Walk(Nth(h, 1), Addrs, next) = h
  <2>1. \A i \in 1..Len(h) : h[i] \in Addrs /\ next[h[i]] = Nth(h, i + 1)
    BY <1>2
  <2> QED BY <1>1, <2>1, WalkIs
<1> QED BY <1>3, <1>4

\* find_header of a block in the list does no harm.
LEMMA FindIs ==
  ASSUME NEW k, Sane(k), NEW h, Listed(k, h), NEW a \in Live(k)
  PROVE  LET r == find_header(k, a)
         IN Keeps(k, r) /\ r.lost = FALSE /\ Lists(k, r) /\ r.blk = k.blk
<1>1. Blocks(k, k.allocated) = h
  BY BlocksListed
<1>2. ToSet(h) \subseteq Live(k)
  BY DEF Listed, Distinct, ToSet
<1>3. PICK e : find_header(k, a) = [k EXCEPT !.error = e]
  BY <1>1, <1>2 DEF find_header
<1> QED BY <1>3 DEF Sane, Memory, Fields, Keeps, Lists

FreedBlocks(k, a, p, n) ==
  [x \in Addrs |-> IF x = a THEN Free
                   ELSE IF x = p THEN [k.blk[x] EXCEPT !.next = n]
                   ELSE IF x = n THEN [k.blk[x] EXCEPT !.prev = p]
                   ELSE k.blk[x]]

LEMMA FreedIs ==
  ASSUME FreeIsNoBlock, NEW k, Sane(k), NEW h, Listed(k, h), k.noallocate_mode = FALSE,
         NEW j \in 1..Len(h)
  PROVE  LET r == Run(k, test_free(h[j]))
             p == Nth(h, j - 1)
             n == Nth(h, j + 1)
         IN /\ Keeps(k, r) /\ r.lost = FALSE
            /\ r.allocated = IF p = NULL THEN n ELSE k.allocated
            /\ r.allocated_count = k.allocated_count - 1
            /\ r.blk = FreedBlocks(k, h[j], p, n)
<1> DEFINE a == h[j]
           p == Nth(h, j - 1)
           n == Nth(h, j + 1)
           k1 == Execute(k, Store("check", a, NULL))
           k2 == Execute(k1, Store("magic", a, NULL))
           k3 == Execute(k2, Store("next of prev", a, TRUE))
           k4 == Execute(k3, Store("prev of next", a, NULL))
           k5 == Execute(k4, Store("free", a, NULL))
           k6 == Execute(k5, Store("count", NULL, -1))
           marked == [k.blk[a] EXCEPT !.magic = "free"]
           b2 == [x \in Addrs |-> IF x = a THEN marked ELSE k.blk[x]]
           b3 == [x \in Addrs |-> IF x = a THEN marked
                                  ELSE IF x = p THEN [k.blk[x] EXCEPT !.next = n]
                                  ELSE k.blk[x]]
           b4 == [x \in Addrs |-> IF x = a THEN marked
                                  ELSE IF x = p THEN [k.blk[x] EXCEPT !.next = n]
                                  ELSE IF x = n THEN [k.blk[x] EXCEPT !.prev = p]
                                  ELSE k.blk[x]]
           b5 == FreedBlocks(k, a, p, n)
           first == IF p = NULL THEN n ELSE k.allocated
<1>1. Run(k, test_free(a)) = k6
  <2> DEFINE w == Store("check", a, NULL)
             x == Store("magic", a, NULL)
             y == Store("next of prev", a, TRUE)
             z == Store("prev of next", a, NULL)
             u == Store("free", a, NULL)
             v == Store("count", NULL, -1)
  <2>1. test_free(a) = <<w, x, y, z, u, v>>
    BY DEF test_free
  <2> HIDE DEF w, x, y, z, u, v
  <2>2. Run(k, test_free(a)) = Execute(Execute(Execute(Execute(Execute(Execute(k, w), x), y), z), u), v)
    BY <2>1, RunSix
  <2> QED BY <2>2 DEF w, x, y, z, u, v
<1>2. /\ a \in Live(k) /\ a \in Addrs /\ k.blk[a].next = n /\ k.blk[a].prev = p
      /\ Memory(k) /\ k.lost = FALSE /\ NULL \notin Addrs
      /\ k.blk = [x \in Addrs |-> k.blk[x]] /\ IsBlock(k.blk[a])
  <2>1. a \in Live(k) /\ a \in Addrs /\ k.blk[a].next = n /\ k.blk[a].prev = p
    BY ListedBlocks
  <2> QED BY <2>1, HarnessAssumption DEF Sane
<1>3. /\ p \in Link /\ p # a /\ (p # NULL => p \in Live(k))
      /\ n \in Link /\ n # a /\ (n # NULL => n \in Live(k) /\ n # p)
  <2>1. Len(h) \in Nat /\ \A i \in 1..Len(h) : h[i] \in Live(k) /\ h[i] \in Addrs
    BY DEF Listed, Distinct
  <2>2. \A i1, j1 \in 1..Len(h) : h[i1] = h[j1] => i1 = j1
    BY DEF Listed, Distinct
  <2> QED BY <1>2, <2>1, <2>2 DEF Nth, Link
<1>4. \A x \in Live(k) : x \in Addrs /\ k.blk[x] # Free
  BY DEF Live
<1> HIDE DEF a, p, n
<1>5. IsBlock(marked) /\ marked.next = n /\ marked.prev = p /\ marked # Free
  BY <1>2 DEF IsBlock, FreeIsNoBlock
<1>6. /\ Memory(k1) /\ Keeps(k, k1) /\ k1.lost = FALSE /\ Lists(k, k1) /\ k1.blk = k.blk
  <2>1. k1 = find_header(k, a)
    <3>1. k.lost = FALSE /\ ~k.noallocate_mode
      BY <1>2
    <3> QED BY <3>1, CheckWrite
  <2> QED BY <1>2, <2>1, FindIs DEF Keeps
<1> HIDE DEF k1
<1>7. /\ Memory(k2) /\ Keeps(k, k2) /\ k2.lost = FALSE /\ Lists(k, k2) /\ k2.blk = b2
  <2>1. k2 = [k1 EXCEPT !.blk[a].magic = "free"]
    BY <1>6, MagicWrite, Zenon
  <2>2. [k.blk EXCEPT ![a] = marked] = b2
    BY <1>2
  <2>3. k2 = [k1 EXCEPT !.blk = [k.blk EXCEPT ![a] = marked]]
    BY <1>6, <2>1
  <2> HIDE DEF k2, marked, b2
  <2>4. k2 = [k1 EXCEPT !.blk = b2]
    BY <2>2, <2>3
  <2> QED BY <1>6, <2>4 DEF Memory, Fields, Keeps, Lists
<1> HIDE DEF k2
<1>8. k2.blk[a] = marked /\ k2.blk = [x \in Addrs |-> k2.blk[x]] /\ \A x \in Addrs \ {a} : k2.blk[x] = k.blk[x]
  BY <1>2, <1>7
<1> HIDE DEF b2, marked
<1>9. /\ Memory(k3) /\ Keeps(k, k3) /\ k3.lost = FALSE /\ k3.allocated_count = k.allocated_count
      /\ k3.allocated = first /\ k3.blk = b3
  <2>1. k3 = IF p = NULL THEN [k2 EXCEPT !.allocated = n] ELSE Relink(k2, p, "next", n)
    <3>1. k3 = IF k2.blk[a].prev = NULL THEN [k2 EXCEPT !.allocated = k2.blk[a].next]
               ELSE Relink(k2, k2.blk[a].prev, "next", k2.blk[a].next)
      BY <1>7, NextOfPrevWrite, Zenon
    <3> QED BY <1>5, <1>8, <3>1
  <2> HIDE DEF k3
  <2>2. CASE p = NULL
    <3>1. k3 = [k2 EXCEPT !.allocated = n]
      BY <2>1, <2>2
    <3>2. k2.blk = b3
      BY <1>2, <1>8, <2>2
    <3> HIDE DEF b3
    <3> QED BY <1>7, <2>2, <3>1, <3>2 DEF Memory, Fields, Keeps, Lists
  <2>3. CASE p # NULL
    <3>1. k3 = Relink(k2, p, "next", n)
      BY <2>1, <2>3
    <3>2. p \in Addrs /\ k2.blk[p] # Free
      BY <1>3, <1>4, <1>8, <2>3
    <3>3. /\ Keeps(k2, k3) /\ k3.lost = FALSE /\ Lists(k2, k3)
          /\ k3.blk = Put(k2, p, "next", n)
      <4>1. /\ Memory(k2) /\ k2.lost = FALSE /\ p \in Link /\ k2.blk[p] # Free
            /\ k2.blk = [x \in Addrs |-> k2.blk[x]] /\ "next" \in {"next", "prev"}
        BY <1>3, <1>7, <1>8, <3>2
      <4> QED BY <3>1, <4>1, RelinkIs
    <3>4. k3.blk = b3
      BY <1>2, <1>3, <1>8, <3>3 DEF Put
    <3> HIDE DEF b3
    <3> QED BY <1>7, <2>3, <3>3, <3>4 DEF Keeps, Lists
  <2> QED BY <2>2, <2>3
<1> HIDE DEF k3
<1>10. /\ k3.blk[a] = marked /\ k3.blk = [x \in Addrs |-> k3.blk[x]]
       /\ n # NULL => k3.blk[n] = k.blk[n] /\ k.blk[n] # Free /\ n \in Addrs
  BY <1>2, <1>3, <1>4, <1>9
<1>11. /\ Memory(k4) /\ Keeps(k, k4) /\ k4.lost = FALSE /\ k4.allocated_count = k.allocated_count
       /\ k4.allocated = first /\ k4.blk = b4
  <2>1. k4 = Relink(k3, n, "prev", p)
    <3>1. k4 = Relink(k3, k3.blk[a].next, "prev", k3.blk[a].prev)
      <4>1. k3.lost = FALSE
        BY <1>9
      <4> QED BY <4>1, PrevOfNextWrite
    <3> QED BY <1>5, <1>10, <3>1
  <2> HIDE DEF k4
  <2>2. /\ Keeps(k3, k4) /\ k4.lost = FALSE /\ Lists(k3, k4)
        /\ k4.blk = Put(k3, n, "prev", p)
    <3>1. /\ Memory(k3) /\ k3.lost = FALSE /\ n \in Link /\ (n # NULL => k3.blk[n] # Free)
          /\ k3.blk = [x \in Addrs |-> k3.blk[x]] /\ "prev" \in {"next", "prev"}
      BY <1>3, <1>9, <1>10
    <3> QED BY <2>1, <3>1, RelinkIs
  <2>3. k4.blk = b4
    BY <1>2, <1>3, <1>9, <2>2 DEF Put
  <2> HIDE DEF b4
  <2> QED BY <1>9, <2>2, <2>3 DEF Keeps, Lists
<1> HIDE DEF k4
<1>12. /\ Memory(k5) /\ Keeps(k, k5) /\ k5.lost = FALSE /\ k5.allocated_count = k.allocated_count
       /\ k5.allocated = first /\ k5.blk = b5
  <2>1. k5 = [k4 EXCEPT !.blk[a] = Free]
    BY <1>11, FreeWrite, Zenon
  <2>2. [b4 EXCEPT ![a] = Free] = b5
    BY <1>2 DEF FreedBlocks
  <2> HIDE DEF k5, b5
  <2>3. k5 = [k4 EXCEPT !.blk = b5]
    BY <1>11, <2>1, <2>2
  <2> HIDE DEF b4
  <2> QED BY <1>11, <2>3 DEF Memory, Fields, Keeps
<1> HIDE DEF k5, b5, first
<1>13. /\ Keeps(k, k6) /\ k6.lost = FALSE /\ k6.allocated_count = k.allocated_count - 1
       /\ k6.allocated = first /\ k6.blk = b5
  <2>1. k6 = [k5 EXCEPT !.allocated_count = k5.allocated_count + (-1)]
    BY <1>12, CountWrite, Zenon
  <2>2. k6 = [k5 EXCEPT !.allocated_count = k.allocated_count + (-1)]
    BY <1>12, <2>1
  <2>3. k.allocated_count + (-1) = k.allocated_count - 1
    BY DEF Listed, Distinct
  <2> HIDE DEF k6
  <2> QED BY <1>12, <2>2, <2>3 DEF Memory, Fields, Keeps
<1> QED BY <1>1, <1>13 DEF b5, first, a, p, n
LEMMA FreeHolds ==
  ASSUME FreeIsNoBlock, NEW k, NEW d, Holds(k, d), k.noallocate_mode = FALSE, NEW a \in DOMAIN d
  PROVE  LET r == Run(k, test_free(a))
         IN Holds(r, Less(d, a)) /\ Keeps(k, r)
<1> DEFINE r == Run(k, test_free(a))
<1>1. PICK h : Listed(k, h)
  BY DEF Holds
<1>2. Sane(k) /\ DOMAIN d = Live(k) /\ a \in Live(k) /\ a \in Addrs
  BY DEF Holds, Contents, Live
<1>3. PICK j \in 1..Len(h) : a = h[j]
  <2>1. \A x \in Addrs : x \in Live(k) <=> \E i \in 1..Len(h) : h[i] = x
    BY <1>1 DEF Listed
  <2> QED BY <1>2, <2>1
<1> DEFINE l == Len(h)
           p == Nth(h, j - 1)
           n == Nth(h, j + 1)
<1>4. /\ Keeps(k, r) /\ r.lost = FALSE
      /\ r.allocated = IF p = NULL THEN n ELSE k.allocated
      /\ r.allocated_count = k.allocated_count - 1
      /\ r.blk = FreedBlocks(k, a, p, n)
  BY <1>1, <1>2, <1>3, FreedIs, ZenonT(30)
<1> HIDE DEF r
<1>5. /\ Distinct(h) /\ k.allocated = Nth(h, 1) /\ k.allocated_count = l /\ l \in Nat
      /\ NULL \notin Addrs
      /\ \A x \in Addrs : x \in Live(k) <=> \E i \in 1..l : h[i] = x
      /\ \A i \in 1..l : k.blk[h[i]].next = Nth(h, i + 1) /\ k.blk[h[i]].prev = Nth(h, i - 1)
      /\ \A i \in 1..l : h[i] \in Addrs
  <2>1. Distinct(h) /\ NULL \notin Addrs
    BY <1>1, HarnessAssumption DEF Listed
  <2>2. l \in Nat /\ \A i \in 1..l : h[i] \in Addrs
    BY <2>1 DEF Distinct
  <2> QED BY <1>1, <2>1, <2>2 DEF Listed
<1>6. \A i1, j1 \in 1..l : h[i1] = h[j1] => i1 = j1
  BY <1>5 DEF Distinct
<1>7. \A i \in 1..l : (h[i] = p <=> i = j - 1) /\ (h[i] = n <=> i = j + 1)
  BY <1>5, <1>6 DEF Nth
<1>a. p = NULL <=> j = 1
  BY <1>5 DEF Nth
<1> HIDE DEF p, n
<1>8. \A x \in Live(k) : x \in Addrs /\ k.blk[x] # Free /\ IsBlock(k.blk[x])
  BY <1>2 DEF Live, Sane
<1>9. ASSUME NEW x \in Live(k) \ {a}
      PROVE  /\ IsBlock(r.blk[x]) /\ r.blk[x].data = k.blk[x].data
             /\ r.blk[x].next = IF x = p THEN n ELSE k.blk[x].next
             /\ (x # p \/ n # p) => r.blk[x].prev = IF x = n THEN p ELSE k.blk[x].prev
  <2> DEFINE f == k.blk[x]
             g1 == [f EXCEPT !.next = n]
             g2 == [f EXCEPT !.prev = p]
  <2>1. IsBlock(f) /\ x \in Addrs /\ x # a
    BY <1>8
  <2>2. r.blk[x] = IF x = p THEN g1 ELSE IF x = n THEN g2 ELSE f
    BY <1>4, <2>1 DEF FreedBlocks
  <2> HIDE DEF f
  <2>3. /\ IsBlock(g1) /\ g1.data = f.data /\ g1.next = n /\ g1.prev = f.prev
        /\ IsBlock(g2) /\ g2.data = f.data /\ g2.next = f.next /\ g2.prev = p
    BY <2>1 DEF IsBlock
  <2> HIDE DEF g1, g2
  <2> QED BY <2>1, <2>2, <2>3 DEF f
<1>10. r.blk[a] = Free /\ r.blk = [x \in Addrs |-> r.blk[x]]
  BY <1>2, <1>4 DEF FreedBlocks
<1>11. Live(r) = Live(k) \ {a}
  <2> SUFFICES ASSUME NEW x \in Addrs PROVE r.blk[x] # Free <=> x # a /\ k.blk[x] # Free
    BY DEF Live
  <2>1. CASE x = a
    BY <1>10, <2>1
  <2>2. CASE x \in Live(k) \ {a}
    BY <1>8, <1>9, <2>2 DEF FreeIsNoBlock
  <2>3. CASE x # a /\ x \notin Live(k)
    <3>1. x # p /\ x # n
      BY <1>5, <2>3 DEF Nth, p, n
    <3>2. r.blk[x] = k.blk[x]
      BY <1>4, <2>3, <3>1 DEF FreedBlocks
    <3> QED BY <2>3, <3>2 DEF Live
  <2> QED BY <2>1, <2>2, <2>3
<1>12. Sane(r)
  <2>1. Memory(r) /\ r.lost = FALSE /\ r.blk = [x \in Addrs |-> r.blk[x]]
    BY <1>4, <1>10 DEF Keeps
  <2>2. \A x \in Live(r) : IsBlock(r.blk[x])
    BY <1>9, <1>11
  <2> QED BY <2>1, <2>2 DEF Sane
<1>13. Listed(r, Cut(h, j))
  <2> DEFINE g == Cut(h, j)
  <2>1. /\ Distinct(g) /\ Len(g) = l - 1
        /\ \A i \in 1..l - 1 : g[i] = IF i < j THEN h[i] ELSE h[i + 1]
        /\ \A i \in Nat : Nth(g, i) = IF i < j THEN Nth(h, i) ELSE Nth(h, i + 1)
    BY <1>5, CutIs
  <2>0. j \in 1..l /\ j \in Nat
    BY <1>5
  <2> HIDE DEF g, l
  <2>2. ASSUME NEW x \in Addrs PROVE x \in Live(r) <=> \E i \in 1..l - 1 : g[i] = x
    <3>1. ASSUME x \in Live(r) PROVE \E i \in 1..l - 1 : g[i] = x
      <4>1. PICK i \in 1..l : h[i] = x
        BY <1>5, <1>11, <3>1
      <4>2. i # j
        BY <1>3, <1>11, <3>1, <4>1
      <4>3. CASE i < j
        <5>1. i \in 1..l - 1
          BY <1>5, <4>3 DEF l
        <5> QED BY <2>1, <4>1, <4>3, <5>1
      <4>4. CASE i > j
        <5>1. i - 1 \in 1..l - 1 /\ ~(i - 1 < j) /\ (i - 1) + 1 = i
          BY <1>5, <4>4
        <5> QED BY <2>1, <4>1, <5>1
      <4> QED BY <4>2, <4>3, <4>4
    <3>2. ASSUME NEW i \in 1..l - 1, g[i] = x PROVE x \in Live(r)
      <4> DEFINE y == IF i < j THEN i ELSE i + 1
      <4>1. y \in 1..l /\ y # j /\ x = h[y]
        <5>1. CASE i < j
          <6>1. y = i /\ g[i] = h[i] /\ i \in 1..l
            BY <1>5, <2>1, <5>1
          <6> HIDE DEF y
          <6> QED BY <2>0, <3>2, <5>1, <6>1
        <5>2. CASE ~(i < j)
          <6>1. y = i + 1 /\ g[i] = h[i + 1] /\ i + 1 \in 1..l /\ i + 1 # j
            BY <1>5, <2>0, <2>1, <5>2
          <6> HIDE DEF y
          <6> QED BY <3>2, <6>1
        <5> QED BY <5>1, <5>2
      <4> HIDE DEF y
      <4>2. x # a /\ x \in Live(k)
        BY <1>3, <1>5, <1>6, <2>0, <4>1
      <4> QED BY <1>11, <4>2
    <3> QED BY <3>1, <3>2
  <2>3. r.allocated = Nth(g, 1) /\ r.allocated_count = l - 1
    <3>1. r.allocated = IF j = 1 THEN Nth(h, j + 1) ELSE Nth(h, 1)
      BY <1>4, <1>5, <1>a DEF n
    <3>2. Nth(g, 1) = IF 1 < j THEN Nth(h, 1) ELSE Nth(h, 2)
      <4>1. 1 \in Nat /\ 1 + 1 = 2
        OBVIOUS
      <4> QED BY <2>1, <4>1
    <3>3. j = 1 \/ 1 < j
      BY <1>5, <2>0
    <3> QED BY <1>4, <1>5, <3>1, <3>2, <3>3
  <2>4. ASSUME NEW i \in 1..l - 1 PROVE r.blk[g[i]].next = Nth(g, i + 1) /\ r.blk[g[i]].prev = Nth(g, i - 1)
    <3> DEFINE y == IF i < j THEN i ELSE i + 1
    <3>a. i \in Nat /\ i + 1 \in Nat /\ i - 1 \in Nat /\ j \in Nat
      BY <1>5, <2>0
    <3>b. y = IF i < j THEN i ELSE i + 1
      OBVIOUS
    <3> HIDE DEF y
    <3>0. y \in 1..l /\ y # j /\ g[i] = h[y] /\ i \in Nat /\ i + 1 \in Nat /\ i - 1 \in Nat /\ j \in Nat
      <4>1. CASE i < j
        <5>1. y = i /\ g[i] = h[i]
          BY <2>1, <3>b, <4>1
        <5> QED BY <1>5, <2>0, <3>a, <4>1, <5>1
      <4>2. CASE ~(i < j)
        <5>1. y = i + 1 /\ g[i] = h[i + 1]
          BY <2>1, <3>b, <4>2
        <5> QED BY <1>5, <2>0, <3>a, <4>2, <5>1
      <4> QED BY <3>a, <4>1, <4>2
    <3>1. h[y] \in Live(k) \ {a}
      BY <1>3, <1>5, <1>6, <2>0, <3>0
    <3>c. k.blk[h[y]].next = Nth(h, y + 1) /\ k.blk[h[y]].prev = Nth(h, y - 1)
      BY <1>5, <3>0
    <3>d. (h[y] = p <=> y = j - 1) /\ (h[y] = n <=> y = j + 1)
      BY <1>7, <3>0
    <3>2. r.blk[g[i]].next = IF y = j - 1 THEN n ELSE Nth(h, y + 1)
      BY <1>9, <3>0, <3>1, <3>c, <3>d
    <3>3. n # p \/ y # j - 1
      BY <1>7, <3>0
    <3>4. r.blk[g[i]].prev = IF y = j + 1 THEN p ELSE Nth(h, y - 1)
      BY <1>9, <3>0, <3>1, <3>3, <3>c, <3>d
    <3>5. Nth(g, i + 1) = IF i + 1 < j THEN Nth(h, i + 1) ELSE Nth(h, i + 2)
      <4>1. (i + 1) + 1 = i + 2
        OBVIOUS
      <4> QED BY <2>1, <3>0, <4>1
    <3>6. Nth(g, i - 1) = IF i - 1 < j THEN Nth(h, i - 1) ELSE Nth(h, i)
      <4>1. (i - 1) + 1 = i
        OBVIOUS
      <4> QED BY <2>1, <3>0, <4>1
    <3>7. CASE i < j - 1
      BY <3>b, <3>0, <3>2, <3>4, <3>5, <3>6, <3>7
    <3>8. CASE i = j - 1
      <4>1. y = i /\ i + 2 = j + 1 /\ ~(i + 1 < j) /\ i - 1 < j /\ y # j + 1
        BY <3>b, <3>0, <3>8
      <4> QED BY <3>2, <3>4, <3>5, <3>6, <3>8, <4>1 DEF n
    <3>9. CASE i = j
      <4>0. i \in Nat /\ j \in Nat
        BY <3>0
      <4>a. y = i + 1
        BY <3>b, <3>9, <4>0
      <4>1. y = i + 1 /\ y + 1 = i + 2 /\ ~(i + 1 < j) /\ i - 1 < j /\ y = j + 1 /\ y # j - 1
        BY <3>9, <4>0, <4>a
      <4> QED BY <3>2, <3>4, <3>5, <3>6, <3>9, <4>1 DEF p
    <3>10. CASE i > j
      <4>0. i \in Nat /\ j \in Nat
        BY <3>0
      <4>a. y = i + 1
        BY <3>b, <3>10, <4>0
      <4>1. y = i + 1 /\ y + 1 = i + 2 /\ y - 1 = i /\ ~(i + 1 < j) /\ ~(i - 1 < j) /\ y # j + 1 /\ y # j - 1
        BY <3>10, <4>0, <4>a
      <4> QED BY <3>2, <3>4, <3>5, <3>6, <4>1
    <3> QED BY <3>0, <3>7, <3>8, <3>9, <3>10
  <2> QED BY <2>1, <2>2, <2>3, <2>4 DEF Listed, g, l
<1>14. Contents(r) = Less(d, a)
  <2>1. \A x \in Live(k) \ {a} : Data(r, x) = d[x]
    BY <1>2, <1>9 DEF Data, Holds, Contents
  <2> QED BY <1>2, <1>11, <2>1 DEF Contents, Less
<1> QED BY <1>4, <1>12, <1>13, <1>14 DEF Holds, r
\* A write into a payload.
LEMMA DataHolds ==
  ASSUME FreeIsNoBlock, NEW k, NEW d, Holds(k, d), NEW a \in DOMAIN d, NEW u,
         NEW r, r = [k EXCEPT !.blk[a].data = u]
  PROVE  Holds(r, [d EXCEPT ![a] = u]) /\ Keeps(k, r)
<1> DEFINE f == [k.blk[a] EXCEPT !.data = u]
           c == [k.blk EXCEPT ![a] = f]
<1>1. PICK h : Listed(k, h)
  BY DEF Holds
<1>2. /\ Sane(k) /\ Memory(k) /\ k.lost = FALSE /\ DOMAIN d = Live(k) /\ a \in Live(k) /\ a \in Addrs
      /\ k.blk = [x \in Addrs |-> k.blk[x]] /\ d = [x \in Live(k) |-> Data(k, x)]
      /\ \A x \in Live(k) : IsBlock(k.blk[x])
  BY DEF Holds, Contents, Live, Sane
<1>3. /\ IsBlock(f) /\ f # Free /\ f.next = k.blk[a].next /\ f.prev = k.blk[a].prev /\ f.data = u
  <2>1. IsBlock(k.blk[a])
    BY <1>2
  <2>2. IsBlock(f) /\ f.next = k.blk[a].next /\ f.prev = k.blk[a].prev /\ f.data = u
    BY <2>1 DEF IsBlock
  <2> HIDE DEF f
  <2> QED BY <2>2 DEF FreeIsNoBlock
<1>4. r = [k EXCEPT !.blk = c]
  OBVIOUS
<1>5. c = [x \in Addrs |-> c[x]] /\ c[a] = f /\ \A x \in Addrs \ {a} : c[x] = k.blk[x]
  BY <1>2
<1> HIDE DEF c, f
<1>6. Keeps(k, r) /\ Memory(r) /\ r.lost = FALSE /\ Lists(k, r) /\ r.blk = c
  BY <1>2, <1>4 DEF Memory, Fields, Keeps, Lists
<1>7. Live(r) = Live(k)
  BY <1>2, <1>3, <1>5, <1>6 DEF Live
<1>8. Sane(r)
  <2>1. ASSUME NEW x \in Live(r) PROVE IsBlock(r.blk[x])
    <3>1. x \in Live(k) /\ x \in Addrs
      BY <1>7, <2>1 DEF Live
    <3> QED BY <1>2, <1>3, <1>5, <1>6, <3>1
  <2>2. r.blk = [x \in Addrs |-> r.blk[x]]
    BY <1>5, <1>6
  <2> QED BY <1>6, <2>1, <2>2 DEF Sane
<1>9. Listed(r, h)
  <2>1. \A x \in Addrs : r.blk[x].next = k.blk[x].next /\ r.blk[x].prev = k.blk[x].prev
    BY <1>3, <1>5, <1>6
  <2>2. \A i \in 1..Len(h) : h[i] \in Addrs
    BY <1>1, ListedBlocks
  <2> QED BY <1>1, <1>6, <1>7, <2>1, <2>2 DEF Listed, Lists
<1>10. Contents(r) = [d EXCEPT ![a] = u]
  <2>1. ASSUME NEW x \in Live(k) PROVE Data(r, x) = IF x = a THEN u ELSE d[x]
    <3>1. x \in Addrs
      BY <2>1 DEF Live
    <3> QED BY <1>2, <1>3, <1>5, <1>6, <3>1 DEF Data
  <2> QED BY <1>2, <1>7, <2>1 DEF Contents
<1> QED BY <1>6, <1>8, <1>9, <1>10 DEF Holds

LEMMA WriteHolds ==
  ASSUME FreeIsNoBlock, NEW k, NEW d, Holds(k, d), NEW a \in DOMAIN d, NEW u
  PROVE  /\ LET r == Execute(k, Store("data", a, u))
            IN Holds(r, [d EXCEPT ![a] = u]) /\ Keeps(k, r)
         /\ d[a].kind = "element" =>
              LET r == Execute(k, Store("link", a, u))
              IN Holds(r, [d EXCEPT ![a] = [d[a] EXCEPT !.next = u]]) /\ Keeps(k, r)
         /\ LET r == Execute(k, Store("head", a, u))
            IN Holds(r, [d EXCEPT ![a] = [d[a] EXCEPT !.head = u]]) /\ Keeps(k, r)
         /\ LET r == Execute(k, Store("tail", a, u))
            IN Holds(r, [d EXCEPT ![a] = [d[a] EXCEPT !.tail = u]]) /\ Keeps(k, r)
         /\ LET r == Execute(k, Store("size", a, u))
            IN Holds(r, [d EXCEPT ![a] = [d[a] EXCEPT !.size = d[a].size + u]]) /\ Keeps(k, r)
<1>1. k.lost = FALSE /\ a \in Addrs /\ k.blk[a] # Free /\ Data(k, a) = d[a] /\ d[a] = k.blk[a].data
  BY DEF Holds, Contents, Sane, Live, Data
<1>2. ASSUME NEW op, NEW v, Execute(k, Store(op, a, u)) = [k EXCEPT !.blk[a].data = v]
      PROVE  LET r == Execute(k, Store(op, a, u)) IN Holds(r, [d EXCEPT ![a] = v]) /\ Keeps(k, r)
  BY <1>2, DataHolds
<1>3. Execute(k, Store("data", a, u)) = [k EXCEPT !.blk[a].data = u]
  <2>1. Execute(k, Store("data", a, u)) = SetData(k, a, u)
    BY <1>1, PayloadWrites
  <2> QED BY <2>1, Zenon DEF SetData
<1>4. d[a].kind = "element" => Execute(k, Store("link", a, u)) = [k EXCEPT !.blk[a].data = [d[a] EXCEPT !.next = u]]
  <2>1. d[a].kind = "element" => Execute(k, Store("link", a, u)) = SetField(k, a, "next", u)
    BY <1>1, PayloadWrites DEF IsElement
  <2>2. SetField(k, a, "next", u) = [k EXCEPT !.blk[a].data = [d[a] EXCEPT !.next = u]]
    BY <1>1 DEF SetField
  <2> QED BY <2>1, <2>2, Zenon
<1>5. Execute(k, Store("head", a, u)) = [k EXCEPT !.blk[a].data = [d[a] EXCEPT !.head = u]]
  <2>1. Execute(k, Store("head", a, u)) = SetField(k, a, "head", u)
    BY <1>1, PayloadWrites
  <2>2. SetField(k, a, "head", u) = [k EXCEPT !.blk[a].data = [d[a] EXCEPT !.head = u]]
    BY <1>1 DEF SetField
  <2> QED BY <2>1, <2>2, Zenon
<1>6. Execute(k, Store("tail", a, u)) = [k EXCEPT !.blk[a].data = [d[a] EXCEPT !.tail = u]]
  <2>1. Execute(k, Store("tail", a, u)) = SetField(k, a, "tail", u)
    BY <1>1, PayloadWrites
  <2>2. SetField(k, a, "tail", u) = [k EXCEPT !.blk[a].data = [d[a] EXCEPT !.tail = u]]
    BY <1>1 DEF SetField
  <2> QED BY <2>1, <2>2, Zenon
<1>7. Execute(k, Store("size", a, u)) = [k EXCEPT !.blk[a].data = [d[a] EXCEPT !.size = d[a].size + u]]
  <2>1. Execute(k, Store("size", a, u)) = SetSize(k, a, u)
    <3>1. k.lost = FALSE
      BY <1>1
    <3> QED BY <3>1, PayloadWrites
  <2>2. SetSize(k, a, u) = [k EXCEPT !.blk[a].data = [d[a] EXCEPT !.size = d[a].size + u]]
    BY <1>1 DEF SetSize
  <2> QED BY <2>1, <2>2, Zenon
<1> QED BY <1>2, <1>3, <1>4, <1>5, <1>6, <1>7, Zenon
-----------------------------------------------------------------------------
(***************************************************************************)
(* The queue in these contents: the elements c with the values v, which    *)
(* are the texts t, and nothing else.                                      *)
(***************************************************************************)
Queued(d, e, c, v, t) ==
  /\ Distinct(c) /\ Distinct(v) /\ Len(v) = Len(c) /\ Sequence(t) /\ Len(t) = Len(c)
  /\ e \in DOMAIN d /\ d[e] = Queue(Nth(c, 1), Nth(c, Len(c)), d[e].size)
  /\ \A i \in 1..Len(c) :
       /\ c[i] \in DOMAIN d /\ d[c[i]] = Element(v[i], Nth(c, i + 1))
       /\ v[i] \in DOMAIN d /\ d[v[i]] = Text(t[i])
  /\ \A x \in DOMAIN d : x = e \/ \E i \in 1..Len(c) : x = c[i] \/ x = v[i]

LEMMA HeldIsData ==
  ASSUME NEW k, NEW d, Holds(k, d)
  PROVE  /\ k.lost = FALSE /\ Memory(k) /\ DOMAIN d = Live(k) /\ DOMAIN d \subseteq Addrs /\ NULL \notin DOMAIN d
         /\ \A x \in DOMAIN d : Data(k, x) = d[x] /\ k.blk[x] # Free
         /\ \A x \in Addrs \ DOMAIN d : k.blk[x] = Free
BY HarnessAssumption DEF Holds, Contents, Live, Sane

LEMMA HeldAt ==
  ASSUME NEW k, NEW d, Holds(k, d), NEW x \in DOMAIN d
  PROVE  k.lost = FALSE /\ x \in Addrs /\ x # NULL /\ Data(k, x) = d[x]
BY HarnessAssumption DEF Holds, Contents, Live, Sane

\* What the routines find.
LEMMA QueueFound ==
  ASSUME NEW k, NEW d, Holds(k, d), NEW e, NEW c, NEW v, NEW t, Queued(d, e, c, v, t)
  PROVE  /\ e \in Addrs /\ e # NULL /\ Data(k, e) = d[e]
         /\ Data(k, e).head = Nth(c, 1) /\ Data(k, e).tail = Nth(c, Len(c))
         /\ Removable(k, e) <=> Len(c) # 0
         /\ \A i \in 1..Len(c) : /\ IsElement(k, c[i]) /\ Data(k, c[i]).value = v[i]
                                /\ Data(k, c[i]).next = Nth(c, i + 1) /\ Data(k, v[i]) = Text(t[i])
         /\ Chain(k, Data(k, e).head) = c /\ Stray(k, Data(k, e).head) = <<>>
         /\ Returned(k, Data(k, e).head) = <<>>
<1>1. /\ Distinct(c) /\ Len(c) \in Nat /\ e \in DOMAIN d /\ \A i \in 1..Len(c) : c[i] \in Addrs
      /\ d[e] = Queue(Nth(c, 1), Nth(c, Len(c)), d[e].size)
      /\ \A i \in 1..Len(c) :
           /\ c[i] \in DOMAIN d /\ d[c[i]] = Element(v[i], Nth(c, i + 1))
           /\ v[i] \in DOMAIN d /\ d[v[i]] = Text(t[i])
  BY DEF Queued, Distinct
<1>0. /\ DOMAIN d \subseteq Addrs /\ NULL \notin DOMAIN d
      /\ \A x \in DOMAIN d : Data(k, x) = d[x] /\ k.blk[x] # Free
  BY HeldIsData
<1>2. e \in Addrs /\ e # NULL /\ Data(k, e) = d[e] /\ NULL \notin Addrs
  <2>1. e \in DOMAIN d
    BY <1>1
  <2> QED BY <1>0, <2>1, HarnessAssumption
<1>3. Data(k, e).head = Nth(c, 1) /\ Data(k, e).tail = Nth(c, Len(c))
  BY <1>1, <1>2 DEF Queue
<1>4. Removable(k, e) <=> Len(c) # 0
  <2>1. Nth(c, 1) # NULL <=> Len(c) # 0
    BY <1>1, <1>2 DEF Nth
  <2> QED BY <1>2, <1>3, <2>1 DEF Removable
<1>5. ASSUME NEW i \in 1..Len(c)
      PROVE  /\ IsElement(k, c[i]) /\ Data(k, c[i]).value = v[i]
             /\ Data(k, c[i]).next = Nth(c, i + 1) /\ Data(k, v[i]) = Text(t[i])
  <2>1. /\ Data(k, c[i]) = Element(v[i], Nth(c, i + 1)) /\ k.blk[c[i]] # Free /\ Data(k, v[i]) = Text(t[i])
        /\ c[i] \in Addrs
    <3>1. /\ c[i] \in DOMAIN d /\ d[c[i]] = Element(v[i], Nth(c, i + 1))
          /\ v[i] \in DOMAIN d /\ d[v[i]] = Text(t[i]) /\ c[i] \in Addrs
      BY <1>1
    <3> QED BY <1>0, <3>1
  <2> QED BY <2>1 DEF IsElement, Element
<1>6. Chain(k, Nth(c, 1)) = c
  <2> DEFINE T == {x \in Addrs : IsElement(k, x)}
             next == [x \in T |-> Data(k, x).next]
  <2>1. \A i \in 1..Len(c) : c[i] \in T /\ next[c[i]] = Nth(c, i + 1)
    BY <1>1, <1>5
  <2>2. NULL \notin T /\ Chain(k, Nth(c, 1)) = Walk(Nth(c, 1), T, next)
    BY <1>2 DEF Chain
  <2> HIDE DEF T, next
  <2> QED BY <1>1, <2>1, <2>2, WalkIs
<1>7. After(k, Nth(c, 1)) = NULL
  <2>1. CASE c = <<>>
    BY <1>6, <2>1 DEF After, Nth
  <2>2. CASE c # <<>>
    <3>1. Len(c) \in 1..Len(c) /\ Last(c) = c[Len(c)]
      BY <1>1, <2>2 DEF Last, Distinct
    <3>2. Data(k, c[Len(c)]).next = NULL
      <4>1. Nth(c, Len(c) + 1) = NULL
        BY <1>1 DEF Nth
      <4> QED BY <1>5, <3>1, <4>1
    <3> QED BY <1>6, <2>2, <3>1, <3>2 DEF After
  <2> QED BY <2>1, <2>2
<1>8. Stray(k, Nth(c, 1)) = <<>>
  BY <1>7 DEF Stray, Whole
<1>9. Returned(k, Nth(c, 1)) = <<>>
  <2>1. \A i \in DOMAIN c : c[i] # NULL
    BY <1>1, <1>2 DEF Distinct
  <2>2. {i \in DOMAIN c : c[i] = NULL} = {}
    BY <2>1
  <2> QED BY <1>6, <1>7, <1>8, <2>2 DEF Returned
<1> QED BY <1>2, <1>3, <1>4, <1>5, <1>6, <1>8, <1>9

\* Other marks of the memory.
LEMMA MarkHolds ==
  ASSUME NEW k, NEW d, Holds(k, d), NEW u
  PROVE  /\ Holds(Clear(k), d) /\ Holds([k EXCEPT !.error = u], d)
         /\ Holds([k EXCEPT !.cautious_mode = u], d) /\ Holds([k EXCEPT !.noallocate_mode = u], d)
<1>1. ASSUME NEW r, Memory(r), r.lost = FALSE, r.blk = k.blk, Lists(k, r) PROVE Holds(r, d)
  <2>1. Live(r) = Live(k) /\ \A x : Data(r, x) = Data(k, x)
    BY <1>1 DEF Live, Data
  <2>2. Sane(r)
    BY <1>1, <2>1 DEF Holds, Sane
  <2>3. \A h : Listed(k, h) => Listed(r, h)
    BY <1>1, <2>1 DEF Listed, Lists
  <2>4. Contents(r) = Contents(k)
    BY <2>1 DEF Contents
  <2> QED BY <2>2, <2>3, <2>4 DEF Holds
<1>2. Memory(k) /\ k.lost = FALSE
  BY DEF Holds, Sane
<1>3. Holds(Clear(k), d)
  <2>1. LET r == Clear(k) IN Memory(r) /\ r.lost = FALSE /\ r.blk = k.blk /\ Lists(k, r)
    BY <1>2 DEF Clear, Memory, Fields, Lists
  <2> QED BY <1>1, <2>1
<1>4. Holds([k EXCEPT !.error = u], d)
  <2>1. LET r == [k EXCEPT !.error = u] IN Memory(r) /\ r.lost = FALSE /\ r.blk = k.blk /\ Lists(k, r)
    BY <1>2 DEF Memory, Fields, Lists
  <2> QED BY <1>1, <2>1
<1>5. Holds([k EXCEPT !.cautious_mode = u], d)
  <2>1. LET r == [k EXCEPT !.cautious_mode = u] IN Memory(r) /\ r.lost = FALSE /\ r.blk = k.blk /\ Lists(k, r)
    BY <1>2 DEF Memory, Fields, Lists
  <2> QED BY <1>1, <2>1
<1>6. Holds([k EXCEPT !.noallocate_mode = u], d)
  <2>1. LET r == [k EXCEPT !.noallocate_mode = u] IN Memory(r) /\ r.lost = FALSE /\ r.blk = k.blk /\ Lists(k, r)
    BY <1>2 DEF Memory, Fields, Lists
  <2> QED BY <1>1, <2>1
<1> QED BY <1>3, <1>4, <1>5, <1>6
-----------------------------------------------------------------------------
(***************************************************************************)
(* The routines of the queue.                                              *)
(***************************************************************************)
LEMMA KeepsTwice ==
  ASSUME NEW k, NEW r, NEW n, Keeps(k, r), Keeps(r, n)
  PROVE  Keeps(k, n)
BY DEF Keeps

\* Both allocations of an insertion return a block.
LEMMA AllocateHolds ==
  ASSUME FreeIsNoBlock, NEW k, NEW d, Holds(k, d), k.noallocate_mode = FALSE,
         NEW a \in Addrs \ DOMAIN d, NEW u \in Addrs \ DOMAIN d, a # u, NEW str, NEW next
  PROVE  LET r == Run(k, Allocate(a, u, str, next))
         IN Holds(r, With(With(d, a, Element(u, next)), u, Text(str))) /\ Keeps(k, r)
<1> DEFINE w == Store("data", u, Text(str))
           x == Store("data", a, Element(u, next))
           p == test_malloc(a)
           p2 == test_malloc(u)
           k1 == Run(k, p)
           k2 == Run(k1, p2)
           k3 == Execute(k2, w)
           k4 == Execute(k3, x)
           d1 == With(d, a, FilledData)
           d2 == With(d1, u, FilledData)
           d3 == [d2 EXCEPT ![u] = Text(str)]
           d4 == [d3 EXCEPT ![a] = Element(u, next)]
<1>1. Run(k, Allocate(a, u, str, next)) = k4
  <2>1. Allocate(a, u, str, next) = (p \o p2) \o <<w, x>>
    BY DEF Allocate
  <2>2. Sequence(p) /\ Sequence(p2) /\ Sequence(<<w, x>>)
    BY Calls, Singles
  <2> HIDE DEF p, p2, w, x
  <2>3. Sequence(p \o p2)
    BY <2>2, Joined
  <2>4. Run(k, (p \o p2) \o <<w, x>>) = Run(Run(k, p \o p2), <<w, x>>)
    BY <2>2, <2>3, RunJoined
  <2>5. Run(k, p \o p2) = k2
    BY <2>2, RunJoined
  <2> HIDE DEF k2
  <2>6. Run(k2, <<w, x>>) = k4
    BY RunTwo
  <2> QED BY <2>1, <2>4, <2>5, <2>6
<1>2. Holds(k1, d1) /\ Keeps(k, k1)
  BY MallocHolds
<1>3. k1.noallocate_mode = FALSE /\ u \notin DOMAIN d1 /\ u \in Addrs
  BY <1>2 DEF Keeps, With
<1> HIDE DEF k1
<1>4. Holds(k2, d2) /\ Keeps(k1, k2)
  <2> HIDE DEF d1
  <2> QED BY <1>2, <1>3, MallocHolds
<1>5. DOMAIN d2 = DOMAIN d \cup {a, u}
  BY DEF With
<1> HIDE DEF k2
<1>6. Holds(k3, d3) /\ Keeps(k2, k3)
  <2> HIDE DEF d2
  <2> QED BY <1>4, <1>5, WriteHolds
<1>7. DOMAIN d3 = DOMAIN d \cup {a, u}
  BY <1>5
<1> HIDE DEF k3
<1>8. Holds(k4, d4) /\ Keeps(k3, k4)
  <2> HIDE DEF d3
  <2> QED BY <1>6, <1>7, WriteHolds
<1>9. d4 = With(With(d, a, Element(u, next)), u, Text(str))
  <2> DEFINE n == With(With(d, a, Element(u, next)), u, Text(str))
  <2>1. n = [y \in DOMAIN d \cup {a, u} |-> IF y = u THEN Text(str) ELSE IF y = a THEN Element(u, next) ELSE d[y]]
    BY DEF With
  <2>2. d2 = [y \in DOMAIN d \cup {a, u} |-> IF y = u THEN FilledData ELSE IF y = a THEN FilledData ELSE d[y]]
    BY DEF With
  <2> HIDE DEF n, d2
  <2>3. DOMAIN d4 = DOMAIN d \cup {a, u} /\ d4 = [y \in DOMAIN d4 |-> d4[y]]
    BY <2>2
  <2>4. \A y \in DOMAIN d \cup {a, u} : d4[y] = n[y]
    BY <2>1, <2>2
  <2>5. n = [y \in DOMAIN d \cup {a, u} |-> n[y]]
    BY <2>1
  <2> HIDE DEF d4
  <2>6. [y \in DOMAIN d \cup {a, u} |-> d4[y]] = [y \in DOMAIN d \cup {a, u} |-> n[y]]
    BY <2>4
  <2>7. d4 = n
    BY <2>3, <2>5, <2>6
  <2> QED BY <2>7 DEF n
<1> HIDE DEF d4, k4
<1> QED BY <1>1, <1>2, <1>4, <1>6, <1>8, <1>9, KeepsTwice

\* The queue e that an insertion has made of the contents d, with two more blocks.
Grown(k, r, d, a, u, e, c, v, t) ==
  Keeps(k, r) /\ \E n : Holds(r, n) /\ DOMAIN n = DOMAIN d \cup {a, u} /\ Queued(n, e, c, v, t)

\* What an insertion makes of the queue.
LEMMA QueuedHead ==
  ASSUME NEW d, DOMAIN d \subseteq Addrs, NEW e, NEW c, NEW v, NEW t, Queued(d, e, c, v, t),
         NEW a \in Addrs \ DOMAIN d, NEW u \in Addrs \ DOMAIN d, a # u, NEW str,
         NEW n, DOMAIN n = DOMAIN d \cup {a, u}, n[a] = Element(u, Nth(c, 1)), n[u] = Text(str),
         n[e] = Queue(a, IF Len(c) = 0 THEN a ELSE Nth(c, Len(c)), n[e].size),
         \A x \in DOMAIN d \ {e} : n[x] = d[x]
  PROVE  Queued(n, e, Before(c, a), Before(v, u), Before(t, str))
<1> DEFINE l == Len(c)
           g == Before(c, a)
           f == Before(v, u)
           y == Before(t, str)
<1>1. /\ Distinct(c) /\ Distinct(v) /\ Len(v) = l /\ Sequence(t) /\ Len(t) = l /\ l \in Nat
      /\ e \in DOMAIN d /\ d[e] = Queue(Nth(c, 1), Nth(c, l), d[e].size)
      /\ \A i \in 1..l :
           /\ c[i] \in DOMAIN d /\ d[c[i]] = Element(v[i], Nth(c, i + 1))
           /\ v[i] \in DOMAIN d /\ d[v[i]] = Text(t[i])
      /\ \A x \in DOMAIN d : x = e \/ \E i \in 1..l : x = c[i] \/ x = v[i]
  BY DEF Queued, Distinct
<1>2. /\ Distinct(g) /\ Len(g) = l + 1 /\ g[1] = a
      /\ \A i \in 1..l : g[i + 1] = c[i]
      /\ \A i \in Nat \ {0} : Nth(g, i) = IF i = 1 THEN a ELSE Nth(c, i - 1)
  BY <1>1, BeforeIs
<1>3. /\ Distinct(f) /\ Len(f) = l + 1 /\ f[1] = u
      /\ \A i \in 1..l : f[i + 1] = v[i]
  <2>1. \A i \in 1..Len(v) : v[i] # u
    BY <1>1
  <2> QED BY <1>1, <2>1, BeforeIs
<1>4. /\ Len(y) = l + 1 /\ Sequence(y) /\ y[1] = str
      /\ \A i \in 1..l : y[i + 1] = t[i]
  BY <1>1 DEF Before, Sequence
<1> HIDE DEF g, f, y, l
<1>5. ASSUME NEW i \in 1..l PROVE c[i] # e /\ v[i] # e
  <2>1. \A x, h, z : Queue(x, h, z).kind = "queue" /\ Element(x, h).kind = "element" /\ Text(x).kind = "string"
    BY DEF Queue, Element, Text
  <2>2. d[c[i]] = Element(v[i], Nth(c, i + 1)) /\ d[v[i]] = Text(t[i])
    BY <1>1
  <2>3. d[e].kind = "queue" /\ d[c[i]].kind = "element" /\ d[v[i]].kind = "string"
    BY <1>1, <2>1, <2>2
  <2> QED BY <2>3
<1>6. e \in DOMAIN n /\ n[e] = Queue(Nth(g, 1), Nth(g, l + 1), n[e].size)
  <2>1. Nth(g, 1) = a /\ Nth(g, l + 1) = IF l = 0 THEN a ELSE Nth(c, l)
    <3>1. 1 \in Nat \ {0} /\ l + 1 \in Nat \ {0} /\ (l + 1) - 1 = l /\ (l + 1 = 1 <=> l = 0)
      BY <1>1
    <3> QED BY <1>2, <3>1
  <2> QED BY <1>1, <2>1 DEF l
<1>7. ASSUME NEW i \in 1..l + 1
      PROVE  /\ g[i] \in DOMAIN n /\ n[g[i]] = Element(f[i], Nth(g, i + 1))
             /\ f[i] \in DOMAIN n /\ n[f[i]] = Text(y[i])
  <2>1. Nth(g, i + 1) = Nth(c, i)
    <3>1. i + 1 \in Nat \ {0} /\ (i + 1) - 1 = i /\ i + 1 # 1
      BY <1>1
    <3> QED BY <1>2, <3>1
  <2>2. CASE i = 1
    BY <1>2, <1>3, <1>4, <2>1, <2>2
  <2>3. CASE i # 1
    <3>1. PICK j \in 1..l : i = j + 1
      <4>1. i - 1 \in 1..l /\ i = (i - 1) + 1
        BY <1>1, <2>3
      <4> QED BY <4>1
    <3>2. g[i] = c[j] /\ f[i] = v[j] /\ y[i] = t[j]
      BY <1>2, <1>3, <1>4, <3>1
    <3>3. n[c[j]] = d[c[j]] /\ n[v[j]] = d[v[j]]
      BY <1>1, <1>5
    <3> QED BY <1>1, <2>1, <3>1, <3>2, <3>3
  <2> QED BY <2>2, <2>3
<1>8. ASSUME NEW x \in DOMAIN n PROVE x = e \/ \E i \in 1..l + 1 : x = g[i] \/ x = f[i]
  <2>1. CASE x = a \/ x = u
    <3>1. 1 \in 1..l + 1
      BY <1>1
    <3> QED BY <1>2, <1>3, <2>1, <3>1
  <2>2. CASE x \in DOMAIN d \ {e}
    <3>1. PICK i \in 1..l : x = c[i] \/ x = v[i]
      BY <1>1, <2>2
    <3>2. i + 1 \in 1..l + 1 /\ g[i + 1] = c[i] /\ f[i + 1] = v[i]
      BY <1>1, <1>2, <1>3
    <3> QED BY <3>1, <3>2
  <2> QED BY <2>1, <2>2
<1> QED BY <1>2, <1>3, <1>4, <1>6, <1>7, <1>8 DEF Queued, g, f, y
LEMMA InsertedHead ==
  ASSUME FreeIsNoBlock, NEW k, NEW d, Holds(k, d), k.noallocate_mode = FALSE,
         NEW e, NEW c, NEW v, NEW t, Queued(d, e, c, v, t),
         NEW a \in Addrs \ DOMAIN d, NEW u \in Addrs \ DOMAIN d, a # u, NEW str
  PROVE  Grown(k, Run(k, q_insert_head(k, e, str, a, u)), d, a, u,
               e, Before(c, a), Before(v, u), Before(t, str))
<1> DEFINE l == Len(c)
           A == Allocate(a, u, str, Nth(c, 1))
           w == Store("head", e, a)
           last == IF Nth(c, l) = NULL THEN <<Store("tail", e, a)>> ELSE <<>>
           x == Store("size", e, 1)
           k1 == Run(k, A)
           k2 == Execute(k1, w)
           k3 == Run(k2, last)
           k4 == Execute(k3, x)
           d1 == With(With(d, a, Element(u, Nth(c, 1))), u, Text(str))
           d2 == [d1 EXCEPT ![e] = [d1[e] EXCEPT !.head = a]]
           d3 == IF Nth(c, l) = NULL THEN [d2 EXCEPT ![e] = [d2[e] EXCEPT !.tail = a]] ELSE d2
           d4 == [d3 EXCEPT ![e] = [d3[e] EXCEPT !.size = d3[e].size + 1]]
<1>1. /\ e \in Addrs /\ e # NULL /\ Data(k, e).head = Nth(c, 1) /\ Data(k, e).tail = Nth(c, l)
      /\ DOMAIN d \subseteq Addrs /\ e \in DOMAIN d /\ a # NULL /\ u # NULL /\ l \in Nat
      /\ d[e] = Queue(Nth(c, 1), Nth(c, l), d[e].size) /\ \A i \in 1..l : c[i] \in Addrs
  <2>1. e \in DOMAIN d /\ l \in Nat /\ d[e] = Queue(Nth(c, 1), Nth(c, l), d[e].size) /\ \A i \in 1..l : c[i] \in Addrs
    BY DEF Queued, Distinct
  <2>2. DOMAIN d \subseteq Addrs
    BY HeldIsData
  <2>3. a # NULL /\ u # NULL
    BY HarnessAssumption
  <2> HIDE DEF l
  <2> QED BY <2>1, <2>2, <2>3, QueueFound DEF l
<1>2. Run(k, q_insert_head(k, e, str, a, u)) = k4
  <2>1. q_insert_head(k, e, str, a, u) = ((A \o <<w>>) \o last) \o <<x>>
    BY <1>1 DEF q_insert_head, Inserted
  <2>2. Sequence(A) /\ Sequence(<<w>>) /\ Sequence(last) /\ Sequence(<<x>>)
    BY Singles, Calls, Joined DEF Allocate
  <2> HIDE DEF A, w, last, x
  <2>3. Sequence(A \o <<w>>) /\ Sequence((A \o <<w>>) \o last)
    BY <2>2, Joined
  <2>4. Run(k, A \o <<w>>) = k2
    BY <2>2, RunJoined, RunOne
  <2>5. Run(k, (A \o <<w>>) \o last) = k3
    BY <2>2, <2>3, <2>4, RunJoined
  <2> QED BY <2>1, <2>2, <2>3, <2>5, RunJoined, RunOne
<1>3. Holds(k1, d1) /\ Keeps(k, k1)
  BY AllocateHolds
<1>4. DOMAIN d1 = DOMAIN d \cup {a, u} /\ \A y \in DOMAIN d1 : d1[y] = IF y = u THEN Text(str) ELSE IF y = a THEN Element(u, Nth(c, 1)) ELSE d[y]
  BY DEF With
<1> HIDE DEF k1
<1>5. Holds(k2, d2) /\ Keeps(k1, k2)
  <2> HIDE DEF d1
  <2> QED BY <1>1, <1>3, <1>4, WriteHolds
<1> HIDE DEF k2, d1
<1>6. DOMAIN d2 = DOMAIN d \cup {a, u}
  BY <1>4
<1>7. Holds(k3, d3) /\ Keeps(k2, k3)
  <2>1. CASE Nth(c, l) = NULL
    <3> DEFINE y == Store("tail", e, a)
    <3>1. k3 = Run(k2, <<y>>) /\ d3 = [d2 EXCEPT ![e] = [d2[e] EXCEPT !.tail = a]]
      BY <2>1
    <3>2. Run(k2, <<y>>) = Execute(k2, y)
      <4> HIDE DEF y
      <4> QED BY RunOne
    <3>3. e \in DOMAIN d2
      BY <1>1, <1>6
    <3>4. Holds(Execute(k2, y), [d2 EXCEPT ![e] = [d2[e] EXCEPT !.tail = a]]) /\ Keeps(k2, Execute(k2, y))
      <4> HIDE DEF d2
      <4> QED BY <1>5, <3>3, WriteHolds
    <3> HIDE DEF d2, d3, k3, y
    <3> QED BY <3>1, <3>2, <3>4, Zenon
  <2>2. CASE Nth(c, l) # NULL
    <3>1. k3 = k2 /\ d3 = d2
      BY <2>2, RunNothing
    <3> QED BY <1>5, <3>1 DEF Keeps, Holds, Sane
  <2> QED BY <2>1, <2>2
<1>8. DOMAIN d3 = DOMAIN d \cup {a, u}
  BY <1>6
<1> HIDE DEF k3
<1>9. Holds(k4, d4) /\ Keeps(k3, k4)
  <2> HIDE DEF d3
  <2> QED BY <1>1, <1>7, <1>8, WriteHolds
<1>10. /\ DOMAIN d4 = DOMAIN d \cup {a, u} /\ d4[a] = Element(u, Nth(c, 1)) /\ d4[u] = Text(str)
       /\ \A y \in DOMAIN d \ {e} : d4[y] = d[y]
  BY <1>1, <1>4, <1>6, <1>8
<1>11. d4[e] = Queue(a, IF l = 0 THEN a ELSE Nth(c, l), d4[e].size)
  <2>1. d1[e] = Queue(Nth(c, 1), Nth(c, l), d1[e].size)
    BY <1>1, <1>4
  <2>2. d2[e] = Queue(a, Nth(c, l), d2[e].size)
    BY <1>1, <1>4, <2>1 DEF Queue
  <2>3. Nth(c, l) = NULL <=> l = 0
    BY <1>1, HarnessAssumption DEF Nth
  <2>4. d3[e] = Queue(a, IF l = 0 THEN a ELSE Nth(c, l), d3[e].size)
    <3> HIDE DEF d2, l
    <3> QED BY <1>1, <1>6, <2>2, <2>3 DEF Queue
  <2> HIDE DEF d3, l
  <2> QED BY <1>1, <1>8, <2>4 DEF Queue
<1> HIDE DEF d4, k4
<1>12. Queued(d4, e, Before(c, a), Before(v, u), Before(t, str))
  BY <1>1, <1>10, <1>11, QueuedHead
<1> QED BY <1>2, <1>3, <1>5, <1>7, <1>9, <1>10, <1>12, KeepsTwice DEF Grown
LEMMA QueuedTail ==
  ASSUME NEW d, DOMAIN d \subseteq Addrs, NEW e, NEW c, NEW v, NEW t, Queued(d, e, c, v, t),
         NEW a \in Addrs \ DOMAIN d, NEW u \in Addrs \ DOMAIN d, a # u, NEW str,
         NEW n, DOMAIN n = DOMAIN d \cup {a, u}, n[a] = Element(u, NULL), n[u] = Text(str),
         n[e] = Queue(IF Len(c) = 0 THEN a ELSE Nth(c, 1), a, n[e].size),
         Len(c) # 0 => n[c[Len(c)]] = Element(v[Len(c)], a),
         \A x \in DOMAIN d : x # e /\ (Len(c) # 0 => x # c[Len(c)]) => n[x] = d[x]
  PROVE  Queued(n, e, Behind(c, a), Behind(v, u), Behind(t, str))
<1> DEFINE l == Len(c)
           g == Behind(c, a)
           f == Behind(v, u)
           y == Behind(t, str)
<1>1. /\ Distinct(c) /\ Distinct(v) /\ Len(v) = l /\ Sequence(t) /\ Len(t) = l /\ l \in Nat
      /\ e \in DOMAIN d /\ d[e] = Queue(Nth(c, 1), Nth(c, l), d[e].size)
      /\ \A i \in 1..l :
           /\ c[i] \in DOMAIN d /\ d[c[i]] = Element(v[i], Nth(c, i + 1))
           /\ v[i] \in DOMAIN d /\ d[v[i]] = Text(t[i])
      /\ \A x \in DOMAIN d : x = e \/ \E i \in 1..l : x = c[i] \/ x = v[i]
  BY DEF Queued, Distinct
<1>2. /\ Distinct(g) /\ Len(g) = l + 1 /\ g[l + 1] = a
      /\ \A i \in 1..l : g[i] = c[i]
      /\ \A i \in Nat \ {0} : Nth(g, i) = IF i = l + 1 THEN a ELSE Nth(c, i)
  <2>1. \A i \in 1..Len(c) : c[i] # a
    BY <1>1
  <2>2. Distinct(c) /\ a \in Addrs
    BY <1>1
  <2> HIDE DEF l
  <2> QED BY <2>1, <2>2, BehindIs DEF l
<1>3. /\ Distinct(f) /\ Len(f) = l + 1 /\ f[l + 1] = u
      /\ \A i \in 1..l : f[i] = v[i]
  <2>1. \A i \in 1..Len(v) : v[i] # u
    BY <1>1
  <2> QED BY <1>1, <2>1, BehindIs
<1>4. /\ Len(y) = l + 1 /\ Sequence(y) /\ y[l + 1] = str
      /\ \A i \in 1..l : y[i] = t[i]
  BY <1>1 DEF Behind, Sequence
<1>5. \A i, j \in 1..l : c[i] = c[j] => i = j
  BY <1>1 DEF Distinct
<1>a. l # 0 => n[c[l]] = Element(v[l], a)
  OBVIOUS
<1>b. \A x \in DOMAIN d : x # e /\ (l # 0 => x # c[l]) => n[x] = d[x]
  OBVIOUS
<1>c. n[e] = Queue(IF l = 0 THEN a ELSE Nth(c, 1), a, n[e].size)
  OBVIOUS
<1> HIDE DEF g, f, y, l
<1>6. ASSUME NEW i \in 1..l PROVE c[i] # e /\ v[i] # e /\ (l # 0 => v[i] # c[l])
  <2>1. \A x1, y1, z1 : Queue(x1, y1, z1).kind = "queue" /\ Element(x1, y1).kind = "element" /\ Text(x1).kind = "string"
    BY DEF Queue, Element, Text
  <2>2. d[c[i]] = Element(v[i], Nth(c, i + 1)) /\ d[v[i]] = Text(t[i])
    BY <1>1
  <2>3. d[e].kind = "queue" /\ d[c[i]].kind = "element" /\ d[v[i]].kind = "string"
    BY <1>1, <2>1, <2>2
  <2>4. l # 0 => d[c[l]].kind = "element"
    <3>1. l # 0 => d[c[l]] = Element(v[l], Nth(c, l + 1))
      BY <1>1
    <3> QED BY <2>1, <3>1
  <2> QED BY <2>3, <2>4
<1>7. e \in DOMAIN n /\ n[e] = Queue(Nth(g, 1), Nth(g, l + 1), n[e].size)
  <2>1. Nth(g, l + 1) = a /\ Nth(g, 1) = IF l = 0 THEN a ELSE Nth(c, 1)
    <3>1. 1 \in Nat \ {0} /\ l + 1 \in Nat \ {0} /\ (1 = l + 1 <=> l = 0)
      BY <1>1
    <3> QED BY <1>2, <3>1
  <2> QED BY <1>1, <1>c, <2>1
<1>8. ASSUME NEW i \in 1..l + 1
      PROVE  /\ g[i] \in DOMAIN n /\ n[g[i]] = Element(f[i], Nth(g, i + 1))
             /\ f[i] \in DOMAIN n /\ n[f[i]] = Text(y[i])
  <2>1. Nth(g, i + 1) = IF i = l THEN a ELSE Nth(c, i + 1)
    <3>1. i + 1 \in Nat \ {0} /\ (i + 1 = l + 1 <=> i = l)
      BY <1>1
    <3> QED BY <1>2, <3>1
  <2>2. CASE i = l + 1
    <3>1. i # l /\ Nth(c, i + 1) = NULL
      BY <1>1, <2>2 DEF Nth, l
    <3> QED BY <1>2, <1>3, <1>4, <2>1, <2>2, <3>1
  <2>3. CASE i = l
    <3>1. l # 0 /\ i \in 1..l
      BY <1>1, <2>3
    <3>2. g[i] = c[i] /\ f[i] = v[i] /\ y[i] = t[i]
      BY <1>2, <1>3, <1>4, <3>1
    <3>3. c[i] \in DOMAIN n /\ v[i] \in DOMAIN n /\ n[v[i]] = d[v[i]] /\ d[v[i]] = Text(t[i])
      BY <1>1, <1>6, <1>b, <3>1
    <3> QED BY <1>a, <2>1, <2>3, <3>1, <3>2, <3>3
  <2>4. CASE i \in 1..l /\ i # l
    <3>1. g[i] = c[i] /\ f[i] = v[i] /\ y[i] = t[i]
      BY <1>2, <1>3, <1>4, <2>4
    <3>2. c[i] # c[l] /\ c[i] \in DOMAIN d /\ v[i] \in DOMAIN d
      BY <1>1, <1>5, <2>4
    <3>3. n[c[i]] = d[c[i]] /\ n[v[i]] = d[v[i]]
      BY <1>6, <1>b, <2>4, <3>2
    <3> QED BY <1>1, <2>1, <2>4, <3>1, <3>2, <3>3
  <2> QED BY <1>1, <2>2, <2>3, <2>4
<1>9. ASSUME NEW x \in DOMAIN n PROVE x = e \/ \E i \in 1..l + 1 : x = g[i] \/ x = f[i]
  <2>1. CASE x = a \/ x = u
    <3>1. l + 1 \in 1..l + 1
      BY <1>1
    <3> QED BY <1>2, <1>3, <2>1, <3>1
  <2>2. CASE x \in DOMAIN d \ {e}
    <3>1. PICK i \in 1..l : x = c[i] \/ x = v[i]
      BY <1>1, <2>2
    <3>2. i \in 1..l + 1 /\ g[i] = c[i] /\ f[i] = v[i]
      BY <1>1, <1>2, <1>3
    <3> QED BY <3>1, <3>2
  <2> QED BY <2>1, <2>2
<1> QED BY <1>2, <1>3, <1>4, <1>7, <1>8, <1>9 DEF Queued, g, f, y

LEMMA InsertedTail ==
  ASSUME FreeIsNoBlock, NEW k, NEW d, Holds(k, d), k.noallocate_mode = FALSE,
         NEW e, NEW c, NEW v, NEW t, Queued(d, e, c, v, t),
         NEW a \in Addrs \ DOMAIN d, NEW u \in Addrs \ DOMAIN d, a # u, NEW str
  PROVE  Grown(k, Run(k, q_insert_tail(k, e, str, a, u)), d, a, u,
               e, Behind(c, a), Behind(v, u), Behind(t, str))
<1> DEFINE l == Len(c)
           A == Allocate(a, u, str, NULL)
           end == Nth(c, l)
           link == Store("link", end, a)
           head == Store("head", e, a)
           w == IF end # NULL THEN link ELSE head
           x == Store("tail", e, a)
           z == Store("size", e, 1)
           k1 == Run(k, A)
           k2 == Execute(k1, w)
           k3 == Execute(k2, x)
           k4 == Execute(k3, z)
           d1 == With(With(d, a, Element(u, NULL)), u, Text(str))
           linked == [d1 EXCEPT ![end] = [d1[end] EXCEPT !.next = a]]
           headed == [d1 EXCEPT ![e] = [d1[e] EXCEPT !.head = a]]
           d2 == IF end # NULL THEN linked ELSE headed
           d3 == [d2 EXCEPT ![e] = [d2[e] EXCEPT !.tail = a]]
           d4 == [d3 EXCEPT ![e] = [d3[e] EXCEPT !.size = d3[e].size + 1]]
<1>1. /\ e \in Addrs /\ e # NULL /\ Data(k, e).head = Nth(c, 1) /\ Data(k, e).tail = end
      /\ DOMAIN d \subseteq Addrs /\ e \in DOMAIN d /\ a # NULL /\ u # NULL /\ l \in Nat
      /\ d[e] = Queue(Nth(c, 1), end, d[e].size) /\ \A i \in 1..l : c[i] \in Addrs
  <2>1. e \in DOMAIN d /\ l \in Nat /\ d[e] = Queue(Nth(c, 1), end, d[e].size) /\ \A i \in 1..l : c[i] \in Addrs
    BY DEF Queued, Distinct
  <2>2. DOMAIN d \subseteq Addrs
    BY HeldIsData
  <2>3. a # NULL /\ u # NULL
    BY HarnessAssumption
  <2> HIDE DEF l
  <2> QED BY <2>1, <2>2, <2>3, QueueFound DEF l
<1>2. Run(k, q_insert_tail(k, e, str, a, u)) = k4
  <2>1. q_insert_tail(k, e, str, a, u) = A \o <<w, x, z>>
    BY <1>1 DEF q_insert_tail, Inserted
  <2>2. Sequence(A) /\ Sequence(<<w, x, z>>)
    BY Singles, Calls, Joined DEF Allocate
  <2> HIDE DEF A, w, x, z
  <2> QED BY <2>1, <2>2, RunJoined, RunThree
<1>3. Holds(k1, d1) /\ Keeps(k, k1)
  BY AllocateHolds
<1>4. DOMAIN d1 = DOMAIN d \cup {a, u} /\ \A y \in DOMAIN d1 : d1[y] = IF y = u THEN Text(str) ELSE IF y = a THEN Element(u, NULL) ELSE d[y]
  BY DEF With
<1>5. (end = NULL <=> l = 0) /\ (l # 0 => end = c[l] /\ c[l] \in DOMAIN d /\ d[c[l]] = Element(v[l], NULL) /\ c[l] # e)
  <2>1. end = NULL <=> l = 0
    BY <1>1, HarnessAssumption DEF Nth
  <2>2. ASSUME l # 0 PROVE end = c[l] /\ c[l] \in DOMAIN d /\ d[c[l]] = Element(v[l], NULL)
    <3>1. l \in 1..l /\ Nth(c, l + 1) = NULL
      BY <1>1, <2>2 DEF Nth
    <3> QED BY <3>1 DEF Nth, Queued
  <2>3. Element(v[l], NULL).kind = "element" /\ Queue(Nth(c, 1), end, d[e].size).kind = "queue"
    BY DEF Element, Queue
  <2> HIDE DEF l, end
  <2> QED BY <1>1, <2>1, <2>2, <2>3
<1> HIDE DEF k1, d1, end, l
<1>6. Holds(k2, d2) /\ Keeps(k1, k2)
  <2>1. CASE end = NULL
    <3>1. Holds(Execute(k1, head), headed) /\ Keeps(k1, Execute(k1, head))
      BY <1>1, <1>3, <1>4, WriteHolds
    <3>2. k2 = Execute(k1, head) /\ d2 = headed
      BY <2>1
    <3> HIDE DEF head, headed, k2, d2
    <3> QED BY <3>1, <3>2
  <2>2. CASE end # NULL
    <3>0. end \in DOMAIN d1 /\ d1[end].kind = "element"
      <4>1. end \in DOMAIN d /\ d[end] = Element(v[l], NULL) /\ end # a /\ end # u
        BY <1>5, <2>2
      <4> QED BY <1>4, <4>1 DEF Element
    <3>1. Holds(Execute(k1, link), linked) /\ Keeps(k1, Execute(k1, link))
      BY <1>3, <3>0, WriteHolds
    <3>2. k2 = Execute(k1, link) /\ d2 = linked
      BY <2>2
    <3> HIDE DEF link, linked, k2, d2
    <3> QED BY <3>1, <3>2
  <2> QED BY <2>1, <2>2
<1>7. DOMAIN d2 = DOMAIN d \cup {a, u}
  BY <1>4
<1>8. /\ d2[a] = Element(u, NULL) /\ d2[u] = Text(str)
      /\ d2[e] = Queue(IF l = 0 THEN a ELSE Nth(c, 1), end, d2[e].size)
      /\ l # 0 => d2[c[l]] = Element(v[l], a)
      /\ \A y \in DOMAIN d : y # e /\ (l # 0 => y # c[l]) => d2[y] = d[y]
  <2>0. d1[e] = Queue(Nth(c, 1), end, d1[e].size) /\ d1[a] = Element(u, NULL) /\ d1[u] = Text(str)
        /\ \A y \in DOMAIN d : d1[y] = d[y]
    BY <1>1, <1>4
  <2>1. CASE end = NULL
    <3>1. d2 = headed /\ l = 0
      BY <1>5, <2>1
    <3>2. headed[e] = Queue(a, end, headed[e].size)
      BY <1>1, <1>4, <2>0 DEF Queue
    <3>3. headed[a] = Element(u, NULL) /\ headed[u] = Text(str) /\ \A y \in DOMAIN d : y # e => headed[y] = d[y]
      BY <1>1, <1>4, <2>0
    <3> HIDE DEF d2, headed
    <3> QED BY <3>1, <3>2, <3>3
  <2>2. CASE end # NULL
    <3>1. d2 = linked /\ l # 0 /\ end = c[l] /\ end \in DOMAIN d /\ d[end] = Element(v[l], NULL) /\ end # e
      BY <1>5, <2>2
    <3>2. linked[end] = Element(v[l], a)
      BY <1>4, <2>0, <3>1 DEF Element
    <3>3. /\ linked[a] = Element(u, NULL) /\ linked[u] = Text(str) /\ linked[e] = d1[e]
          /\ \A y \in DOMAIN d : y # end => linked[y] = d[y]
      BY <1>1, <1>4, <2>0, <3>1
    <3> HIDE DEF d2, linked
    <3> QED BY <2>0, <3>1, <3>2, <3>3
  <2> QED BY <2>1, <2>2
<1> HIDE DEF k2, d2
<1>9. Holds(k3, d3) /\ Keeps(k2, k3)
  BY <1>1, <1>6, <1>7, WriteHolds
<1>10. DOMAIN d3 = DOMAIN d \cup {a, u}
  BY <1>7
<1> HIDE DEF k3
<1>11. Holds(k4, d4) /\ Keeps(k3, k4)
  <2> HIDE DEF d3
  <2> QED BY <1>1, <1>9, <1>10, WriteHolds
<1>12. DOMAIN d4 = DOMAIN d \cup {a, u} /\ \A y \in DOMAIN d4 \ {e} : d4[y] = d2[y]
  BY <1>7
<1>13. d4[e] = Queue(IF l = 0 THEN a ELSE Nth(c, 1), a, d4[e].size)
  <2>1. d3[e] = Queue(IF l = 0 THEN a ELSE Nth(c, 1), a, d3[e].size)
    BY <1>1, <1>7, <1>8 DEF Queue
  <2> HIDE DEF d3
  <2> QED BY <1>1, <1>10, <2>1 DEF Queue
<1> HIDE DEF d4, k4
<1>14. Queued(d4, e, Behind(c, a), Behind(v, u), Behind(t, str))
  <2>1. /\ d4[a] = Element(u, NULL) /\ d4[u] = Text(str)
        /\ l # 0 => d4[c[l]] = Element(v[l], a)
        /\ \A y \in DOMAIN d : y # e /\ (l # 0 => y # c[l]) => d4[y] = d[y]
    BY <1>1, <1>5, <1>8, <1>12
  <2> QED BY <1>1, <1>12, <1>13, <2>1, QueuedTail DEF l
<1> QED BY <1>2, <1>3, <1>6, <1>9, <1>11, <1>12, <1>14, KeepsTwice DEF Grown

\* What a removal makes of a queue that keeps an element.
LEMMA QueuedLess ==
  ASSUME NEW d, DOMAIN d \subseteq Addrs, NEW e, NEW c, NEW v, NEW t, Queued(d, e, c, v, t), Len(c) > 1,
         NEW n, DOMAIN n = DOMAIN d \ {c[1], v[1]},
         n[e] = Queue(Nth(c, 2), Nth(c, Len(c)), n[e].size),
         \A x \in DOMAIN n \ {e} : n[x] = d[x]
  PROVE  Queued(n, e, Cut(c, 1), Cut(v, 1), Cut(t, 1))
<1> DEFINE l == Len(c)
           g == Cut(c, 1)
           f == Cut(v, 1)
           y == Cut(t, 1)
<1>1. /\ Distinct(c) /\ Distinct(v) /\ Len(v) = l /\ Sequence(t) /\ Len(t) = l /\ l \in Nat /\ l > 1
      /\ e \in DOMAIN d /\ d[e] = Queue(Nth(c, 1), Nth(c, l), d[e].size)
      /\ \A i \in 1..l :
           /\ c[i] \in DOMAIN d /\ d[c[i]] = Element(v[i], Nth(c, i + 1))
           /\ v[i] \in DOMAIN d /\ d[v[i]] = Text(t[i])
      /\ \A x \in DOMAIN d : x = e \/ \E i \in 1..l : x = c[i] \/ x = v[i]
  BY DEF Queued, Distinct
<1>2. /\ Distinct(g) /\ Len(g) = l - 1
      /\ \A i \in 1..l - 1 : g[i] = c[i + 1]
      /\ \A i \in Nat \ {0} : Nth(g, i) = Nth(c, i + 1)
  <2>1. 1 \in 1..Len(c) /\ Distinct(c)
    BY <1>1
  <2>2. /\ Distinct(g) /\ Len(g) = Len(c) - 1
        /\ \A i \in 1..Len(c) - 1 : g[i] = IF i < 1 THEN c[i] ELSE c[i + 1]
        /\ \A i \in Nat : Nth(g, i) = IF i < 1 THEN Nth(c, i) ELSE Nth(c, i + 1)
    BY <2>1, CutIs
  <2>3. \A i \in 1..Len(c) - 1 : ~(i < 1)
    BY <1>1
  <2>4. \A i \in Nat \ {0} : ~(i < 1)
    OBVIOUS
  <2> HIDE DEF g
  <2> QED BY <2>2, <2>3, <2>4
<1>3. Distinct(f) /\ Len(f) = l - 1 /\ \A i \in 1..l - 1 : f[i] = v[i + 1]
  <2>1. 1 \in 1..Len(v) /\ Distinct(v)
    BY <1>1
  <2>2. Distinct(f) /\ Len(f) = Len(v) - 1 /\ \A i \in 1..Len(v) - 1 : f[i] = IF i < 1 THEN v[i] ELSE v[i + 1]
    BY <2>1, CutIs
  <2>3. \A i \in 1..l - 1 : ~(i < 1)
    BY <1>1
  <2> HIDE DEF f, l
  <2> QED BY <1>1, <2>2, <2>3
<1>4. Len(y) = l - 1 /\ Sequence(y) /\ \A i \in 1..l - 1 : y[i] = t[i + 1]
  BY <1>1 DEF Cut, Sequence
<1>5. \A i, j \in 1..l : (c[i] = c[j] => i = j) /\ (v[i] = v[j] => i = j)
  BY <1>1 DEF Distinct
<1>6. \A i, j \in 1..l : c[i] # e /\ v[i] # e /\ c[i] # v[j]
  <2>1. \A x1, y1, z1 : Queue(x1, y1, z1).kind = "queue" /\ Element(x1, y1).kind = "element" /\ Text(x1).kind = "string"
    BY DEF Queue, Element, Text
  <2>2. d[e].kind = "queue"
    BY <1>1, <2>1
  <2>3. \A i \in 1..l : d[c[i]].kind = "element" /\ d[v[i]].kind = "string"
    BY <1>1, <2>1
  <2> HIDE DEF l
  <2> QED BY <2>2, <2>3
<1>a. \A x \in DOMAIN n \ {e} : n[x] = d[x]
  OBVIOUS
<1>b. n[e] = Queue(Nth(c, 2), Nth(c, l), n[e].size) /\ DOMAIN n = DOMAIN d \ {c[1], v[1]}
  OBVIOUS
<1> HIDE DEF g, f, y, l
<1>7. e \in DOMAIN n /\ n[e] = Queue(Nth(g, 1), Nth(g, l - 1), n[e].size)
  <2>1. 1 \in 1..l /\ 1 \in Nat \ {0} /\ l - 1 \in Nat \ {0} /\ 1 + 1 = 2 /\ (l - 1) + 1 = l
    BY <1>1
  <2>2. Nth(g, 1) = Nth(c, 1 + 1) /\ Nth(g, l - 1) = Nth(c, (l - 1) + 1)
    BY <1>2, <2>1
  <2>3. e \in DOMAIN n
    BY <1>1, <1>6, <1>b, <2>1
  <2> QED BY <1>b, <2>1, <2>2, <2>3
<1>8. ASSUME NEW i \in 1..l - 1
      PROVE  /\ g[i] \in DOMAIN n /\ n[g[i]] = Element(f[i], Nth(g, i + 1))
             /\ f[i] \in DOMAIN n /\ n[f[i]] = Text(y[i])
  <2>1. i + 1 \in 1..l /\ 1 \in 1..l /\ i + 1 # 1 /\ i + 1 \in Nat \ {0}
    BY <1>1
  <2>2. g[i] = c[i + 1] /\ f[i] = v[i + 1] /\ y[i] = t[i + 1] /\ Nth(g, i + 1) = Nth(c, (i + 1) + 1)
    BY <1>2, <1>3, <1>4, <2>1
  <2>3. c[i + 1] \notin {c[1], v[1], e} /\ v[i + 1] \notin {c[1], v[1], e}
    BY <1>5, <1>6, <2>1
  <2>4. /\ c[i + 1] \in DOMAIN d /\ d[c[i + 1]] = Element(v[i + 1], Nth(c, (i + 1) + 1))
        /\ v[i + 1] \in DOMAIN d /\ d[v[i + 1]] = Text(t[i + 1])
    BY <1>1, <2>1
  <2>5. c[i + 1] \in DOMAIN n /\ v[i + 1] \in DOMAIN n
    BY <1>b, <2>3, <2>4
  <2>6. n[c[i + 1]] = d[c[i + 1]] /\ n[v[i + 1]] = d[v[i + 1]]
    BY <1>a, <2>3, <2>5
  <2> QED BY <2>2, <2>4, <2>5, <2>6
<1>9. ASSUME NEW x \in DOMAIN n PROVE x = e \/ \E i \in 1..l - 1 : x = g[i] \/ x = f[i]
  <2>1. CASE x # e
    <3>1. PICK i \in 1..l : x = c[i] \/ x = v[i]
      BY <1>1, <1>b, <2>1
    <3>2. i # 1
      BY <1>b, <3>1
    <3>3. i - 1 \in 1..l - 1 /\ (i - 1) + 1 = i
      BY <1>1, <3>2
    <3>4. g[i - 1] = c[i] /\ f[i - 1] = v[i]
      BY <1>2, <1>3, <3>3
    <3> QED BY <3>1, <3>3, <3>4
  <2> QED BY <2>1
<1> QED BY <1>2, <1>3, <1>4, <1>7, <1>8, <1>9 DEF Queued, g, f, y

\* A removal; it leaves a tail that dangles when the queue gets empty.
LEMMA Removed ==
  ASSUME FreeIsNoBlock, NEW k0, NEW k, NEW d, Holds(k0, d), Holds(k, d), k.noallocate_mode = FALSE,
         NEW e, NEW c, NEW v, NEW t, Queued(d, e, c, v, t), Len(c) # 0
  PROVE  LET r == Run(k, q_remove_head(k0, e))
         IN /\ Keeps(k, r) /\ r.lost = FALSE
            /\ Removable(r, e) <=> Len(c) > 1
            /\ Len(c) > 1 =>
                 \E n : Holds(r, n) /\ Queued(n, e, Cut(c, 1), Cut(v, 1), Cut(t, 1))
<1> DEFINE l == Len(c)
           A == test_free(v[1])
           B1 == test_free(c[1])
           w == Store("head", e, Nth(c, 2))
           x == Store("size", e, -1)
           k1 == Run(k, A)
           k2 == Run(k1, B1)
           k3 == Execute(k2, w)
           k4 == Execute(k3, x)
           d1 == Less(d, v[1])
           d2 == Less(d1, c[1])
           d3 == [d2 EXCEPT ![e] = [d2[e] EXCEPT !.head = Nth(c, 2)]]
           d4 == [d3 EXCEPT ![e] = [d3[e] EXCEPT !.size = d3[e].size + (-1)]]
<1>1. l \in Nat /\ 1 \in 1..l /\ e \in DOMAIN d /\ c[1] \in DOMAIN d /\ v[1] \in DOMAIN d
      /\ d[c[1]] = Element(v[1], Nth(c, 2)) /\ d[v[1]] = Text(t[1])
      /\ d[e] = Queue(Nth(c, 1), Nth(c, l), d[e].size)
  <2>1. l \in Nat /\ 1 \in 1..l
    BY DEF Queued, Distinct
  <2>2. 1 + 1 = 2
    OBVIOUS
  <2> QED BY <2>1, <2>2 DEF Queued
<1>2. c[1] # v[1] /\ c[1] # e /\ v[1] # e
  <2>1. d[e].kind = "queue" /\ d[c[1]].kind = "element" /\ d[v[1]].kind = "string"
    BY <1>1 DEF Queue, Element, Text
  <2> QED BY <2>1
<1>3. Run(k, q_remove_head(k0, e)) = k4
  <2>1. /\ Removable(k0, e) /\ Data(k0, e).head = c[1] /\ IsElement(k0, c[1])
        /\ Data(k0, c[1]).value = v[1] /\ Data(k0, c[1]).next = Nth(c, 2)
    <3>1. Nth(c, 1) = c[1] /\ 1 + 1 = 2
      BY <1>1 DEF Nth
    <3> QED BY <1>1, <3>1, QueueFound
  <2>2. q_remove_head(k0, e) = (A \o B1) \o <<w, x>>
    BY <2>1 DEF q_remove_head
  <2>3. Sequence(A) /\ Sequence(B1) /\ Sequence(<<w, x>>)
    BY Singles, Calls
  <2> HIDE DEF A, B1, w, x
  <2>4. Sequence(A \o B1) /\ Run(k, A \o B1) = k2
    BY <2>3, Joined, RunJoined
  <2> QED BY <2>2, <2>3, <2>4, RunJoined, RunTwo
<1>4. Holds(k1, d1) /\ Keeps(k, k1)
  BY <1>1, FreeHolds
<1>5. DOMAIN d1 = DOMAIN d \ {v[1]} /\ DOMAIN d2 = DOMAIN d \ {c[1], v[1]}
      /\ \A y \in DOMAIN d2 : d2[y] = d[y]
  BY DEF Less
<1>6. Holds(k2, d2) /\ Keeps(k1, k2)
  <2>1. k1.noallocate_mode = FALSE
    BY <1>4 DEF Keeps
  <2>2. c[1] \in DOMAIN d1
    BY <1>1, <1>2, <1>5
  <2> HIDE DEF d1, k1
  <2> QED BY <1>4, <2>1, <2>2, FreeHolds
<1>7. e \in DOMAIN d2 /\ d2[e] = d[e]
  BY <1>1, <1>2, <1>5
<1> HIDE DEF k1, k2, d1, d2
<1>8. Holds(k3, d3) /\ Keeps(k2, k3)
  BY <1>6, <1>7, WriteHolds
<1>9. e \in DOMAIN d3
  BY <1>7
<1> HIDE DEF k3
<1>10. Holds(k4, d4) /\ Keeps(k3, k4)
  <2> HIDE DEF d3
  <2> QED BY <1>8, <1>9, WriteHolds
<1>11. DOMAIN d4 = DOMAIN d \ {c[1], v[1]} /\ \A y \in DOMAIN d4 \ {e} : d4[y] = d[y]
  BY <1>5
<1>12. d4[e] = Queue(Nth(c, 2), Nth(c, l), d4[e].size)
  <2>1. d3[e] = Queue(Nth(c, 2), Nth(c, l), d3[e].size)
    BY <1>1, <1>7 DEF Queue
  <2> HIDE DEF d3
  <2> QED BY <1>9, <2>1 DEF Queue
<1> HIDE DEF d4, k4
<1>13. Keeps(k, k4)
  BY <1>4, <1>6, <1>8, <1>10, KeepsTwice
<1>14. k4.lost = FALSE /\ (Removable(k4, e) <=> l > 1)
  <2>1. k4.lost = FALSE /\ e # NULL /\ Data(k4, e) = d4[e]
    <3>1. e \in DOMAIN d4
      BY <1>1, <1>2, <1>11
    <3>2. Holds(k4, d4)
      BY <1>10
    <3> QED BY <3>1, <3>2, HeldAt
  <2>2. Data(k4, e).head = Nth(c, 2)
    BY <1>12, <2>1 DEF Queue
  <2>3. Nth(c, 2) # NULL <=> l > 1
    <3>1. 2 \in 1..l => c[2] # NULL
      BY HarnessAssumption DEF Queued, Distinct
    <3> QED BY <1>1, <3>1 DEF Nth
  <2> QED BY <2>1, <2>2, <2>3 DEF Removable
<1>15. ASSUME l > 1 PROVE Queued(d4, e, Cut(c, 1), Cut(v, 1), Cut(t, 1))
  <2>1. DOMAIN d \subseteq Addrs
    BY HeldIsData
  <2> QED BY <1>11, <1>12, <1>15, <2>1, QueuedLess
<1> QED BY <1>3, <1>10, <1>13, <1>14, <1>15

\* An insertion whose second allocation fails.
LEMMA NotInserted ==
  ASSUME FreeIsNoBlock, NEW k, NEW d, Holds(k, d), k.noallocate_mode = FALSE, NEW a \in Addrs \ DOMAIN d
  PROVE  LET r == Run(k, test_malloc(a) \o test_free(a))
         IN Holds(r, d) /\ Keeps(k, r)
<1> DEFINE k1 == Run(k, test_malloc(a))
           k2 == Run(k1, test_free(a))
           d1 == With(d, a, FilledData)
           d2 == Less(d1, a)
<1>1. Run(k, test_malloc(a) \o test_free(a)) = k2
  BY Calls, RunJoined
<1>2. Holds(k1, d1) /\ Keeps(k, k1)
  BY MallocHolds
<1>3. Holds(k2, d2) /\ Keeps(k1, k2)
  <2>1. a \in DOMAIN d1
    BY DEF With
  <2>2. k1.noallocate_mode = FALSE
    BY <1>2 DEF Keeps
  <2> HIDE DEF k1, d1
  <2> QED BY <1>2, <2>1, <2>2, FreeHolds
<1>4. d2 = d
  <2>1. d = [x \in DOMAIN d |-> d[x]]
    BY DEF Holds, Contents
  <2>2. DOMAIN d2 = DOMAIN d /\ \A x \in DOMAIN d : d2[x] = d[x]
    BY DEF With, Less
  <2>3. d2 = [x \in DOMAIN d2 |-> d2[x]]
    BY DEF Less
  <2> HIDE DEF d2
  <2> QED BY <2>1, <2>2, <2>3
<1> HIDE DEF k1, k2, d2
<1> QED BY <1>1, <1>2, <1>3, <1>4, KeepsTwice

\* A new queue.
LEMMA Created ==
  ASSUME FreeIsNoBlock, NEW k, NEW d, Holds(k, d), DOMAIN d = {}, k.noallocate_mode = FALSE, NEW a \in Addrs
  PROVE  LET r == Run(k, q_new(a))
         IN Keeps(k, r) /\ \E n : Holds(r, n) /\ Queued(n, a, <<>>, <<>>, <<>>)
<1> DEFINE k1 == Run(k, test_malloc(a))
           w == Store("data", a, Queue(NULL, NULL, 0))
           k2 == Execute(k1, w)
           d1 == With(d, a, FilledData)
           d2 == [d1 EXCEPT ![a] = Queue(NULL, NULL, 0)]
<1>1. Run(k, q_new(a)) = k2
  <2>1. q_new(a) = test_malloc(a) \o <<w>>
    BY HarnessAssumption DEF q_new
  <2> HIDE DEF w
  <2>2. Sequence(test_malloc(a)) /\ Sequence(<<w>>)
    BY Calls, Singles
  <2>3. Run(k, test_malloc(a) \o <<w>>) = Run(Run(k, test_malloc(a)), <<w>>)
    BY <2>2, RunJoined
  <2> QED BY <2>1, <2>3, RunOne
<1>2. Holds(k1, d1) /\ Keeps(k, k1)
  BY MallocHolds
<1>3. DOMAIN d1 = {a}
  BY DEF With
<1> HIDE DEF k1, d1
<1>4. Holds(k2, d2) /\ Keeps(k1, k2)
  BY <1>2, <1>3, WriteHolds
<1>5. DOMAIN d2 = {a} /\ d2[a] = Queue(NULL, NULL, 0)
  BY <1>3
<1> HIDE DEF d2, k2
<1>6. Queued(d2, a, <<>>, <<>>, <<>>)
  <2>1. Distinct(<<>>) /\ Sequence(<<>>) /\ Len(<<>>) = 0 /\ Nth(<<>>, 1) = NULL /\ Nth(<<>>, 0) = NULL
    BY DEF Distinct, Sequence, Nth
  <2>2. d2[a] = Queue(NULL, NULL, d2[a].size)
    BY <1>5 DEF Queue
  <2> QED BY <1>5, <2>1, <2>2 DEF Queued
<1> QED BY <1>1, <1>2, <1>4, <1>6, KeepsTwice

\* Programs that are executed one after the other.
LEMMA RunAlong ==
  ASSUME NEW k, NEW ps, Len(ps) \in Nat, \A i \in 1..Len(ps) : Sequence(ps[i]), ps = <<>> \/ Len(ps) # 0
  PROVE  \E r : /\ r[0] = k /\ r[Len(ps)] = Run(k, FlattenSeq(ps))
                /\ \A i \in 1..Len(ps) : r[i] = Run(r[i - 1], ps[i])
<1> DEFINE l == Len(ps)
<1>1. CASE l = 0
  <2>1. FlattenSeq(ps) = <<>>
    BY <1>1 DEF FlattenSeq
  <2> DEFINE r == [i \in {0} |-> k]
  <2>2. r[0] = k /\ r[l] = Run(k, FlattenSeq(ps)) /\ \A i \in 1..l : r[i] = Run(r[i - 1], ps[i])
    BY <1>1, <2>1, RunNothing
  <2> QED BY <2>2
<1>2. CASE l # 0
  <2>1. l \in Nat \ {0}
    BY <1>2
  <2>2. PICK f : /\ FlattenSeq(ps) = f[l]
                 /\ \A i \in 1..l : Sequence(f[i])
                 /\ \A i \in 1..l : f[i] = IF i = 1 THEN ps[i] ELSE f[i - 1] \o ps[i]
    BY <2>1, FlattenedBy
  <2> DEFINE r == [i \in 0..l |-> IF i = 0 THEN k ELSE Run(k, f[i])]
  <2>3. r[0] = k /\ r[l] = Run(k, FlattenSeq(ps))
    BY <2>1, <2>2
  <2>4. ASSUME NEW i \in 1..l PROVE r[i] = Run(r[i - 1], ps[i])
    <3>1. CASE i = 1
      BY <2>2, <3>1
    <3>2. CASE i # 1
      <4>1. i - 1 \in 1..l /\ i - 1 # 0 /\ i # 0 /\ i \in 0..l /\ i - 1 \in 0..l
        BY <2>1, <3>2
      <4>2. Run(k, f[i - 1] \o ps[i]) = Run(Run(k, f[i - 1]), ps[i])
        BY <2>2, <4>1, RunJoined
      <4>3. r[i] = Run(k, f[i]) /\ r[i - 1] = Run(k, f[i - 1]) /\ f[i] = f[i - 1] \o ps[i]
        BY <2>2, <3>2, <4>1
      <4> HIDE DEF r
      <4> QED BY <4>2, <4>3
    <3> QED BY <3>1, <3>2
  <2> HIDE DEF r
  <2> QED BY <2>3, <2>4
<1> QED BY <1>1, <1>2

\* The first i elements of h.
Heads(h, i) == {h[j] : j \in 1..i}
LEMMA HeadsIs ==
  ASSUME NEW h, NEW i \in Nat
  PROVE  Heads(h, 0) = {} /\ Heads(h, i + 1) = Heads(h, i) \cup {h[i + 1]}
BY DEF Heads

LEMMA HoldsNothing ==
  ASSUME NEW k, NEW d, Holds(k, d), DOMAIN d = {}
  PROVE  k.allocated_count = 0
<1>1. PICK h : Listed(k, h) /\ Live(k) = {}
  BY DEF Holds, Contents
<1>2. Len(h) \in Nat /\ \A i \in 1..Len(h) : h[i] \in Live(k)
  BY <1>1, ListedBlocks DEF Listed, Distinct
<1>3. ~(1 \in 1..Len(h))
  BY <1>1, <1>2
<1> QED BY <1>1, <1>2, <1>3 DEF Listed

\* The elements are freed one after the other, each after its value.
Remains(k, r, e) == Keeps(k, r) /\ \E n : Holds(r, n) /\ DOMAIN n = e
FreesAlong(r, c, v) ==
  \A i \in 1..Len(c) : r[i] = Run(Run(r[i - 1], test_free(v[i])), test_free(c[i]))

LEMMA ElementsFreed ==
  ASSUME FreeIsNoBlock, NEW k, NEW d, Holds(k, d), k.noallocate_mode = FALSE,
         NEW e, NEW c, NEW v, NEW t, Queued(d, e, c, v, t),
         NEW r, r[0] = k, FreesAlong(r, c, v)
  PROVE  Remains(k, r[Len(c)], {e})
<1> DEFINE l == Len(c)
           Gone(i) == Heads(c, i) \cup Heads(v, i)
           Safe(i) == Keeps(k, r[i]) /\ \E n : Holds(r[i], n) /\ DOMAIN n = DOMAIN d \ Gone(i)
           Good == {i \in Nat : i <= l => Safe(i)}
<1>1. /\ l \in Nat /\ e \in DOMAIN d
      /\ \A i \in 1..l : /\ c[i] \in DOMAIN d /\ d[c[i]] = Element(v[i], Nth(c, i + 1))
                         /\ v[i] \in DOMAIN d /\ d[v[i]] = Text(t[i])
      /\ \A x \in DOMAIN d : x = e \/ \E i \in 1..l : x = c[i] \/ x = v[i]
      /\ d[e] = Queue(Nth(c, 1), Nth(c, l), d[e].size)
      /\ \A i, j \in 1..l : (c[i] = c[j] => i = j) /\ (v[i] = v[j] => i = j)
  BY DEF Queued, Distinct
<1>2. \A i, j \in 1..l : c[i] # e /\ v[i] # e /\ c[i] # v[j]
  <2>1. \A x1, y1, z1 : Queue(x1, y1, z1).kind = "queue" /\ Element(x1, y1).kind = "element" /\ Text(x1).kind = "string"
    BY DEF Queue, Element, Text
  <2>2. d[e].kind = "queue"
    BY <1>1, <2>1
  <2>3. \A i \in 1..l : d[c[i]].kind = "element" /\ d[v[i]].kind = "string"
    BY <1>1, <2>1
  <2> HIDE DEF l
  <2> QED BY <2>2, <2>3
<1>3. 0 \in Good
  <2>1. Gone(0) = {}
    BY HeadsIs
  <2>2. Keeps(k, k)
    BY Marks DEF Holds, Sane
  <2> HIDE DEF Gone
  <2>3. Safe(0)
    BY <2>1, <2>2
  <2> HIDE DEF Safe
  <2> QED BY <2>3
<1>4. ASSUME NEW i \in Nat, i \in Good PROVE i + 1 \in Good
  <2> SUFFICES ASSUME i + 1 <= l PROVE Safe(i + 1)
    <3> HIDE DEF Safe
    <3> QED OBVIOUS
  <2>0. Safe(i)
    <3> HIDE DEF Safe
    <3> QED BY <1>1, <1>4
  <2>1. i + 1 \in 1..l /\ i <= l /\ (i + 1) - 1 = i
    BY <1>1
  <2>2. PICK n : Holds(r[i], n) /\ DOMAIN n = DOMAIN d \ Gone(i)
    BY <2>0
  <2>3. Keeps(k, r[i]) /\ r[i].noallocate_mode = FALSE
    BY <2>0 DEF Keeps
  <2> DEFINE x == v[i + 1]
             y == c[i + 1]
             k1 == Run(r[i], test_free(x))
             k2 == Run(k1, test_free(y))
             n1 == Less(n, x)
             n2 == Less(n1, y)
  <2>4. r[i + 1] = k2
    BY <2>1 DEF FreesAlong
  <2>5. x \in DOMAIN n /\ y \in DOMAIN n /\ x # y
    <3>1. x \in DOMAIN d /\ y \in DOMAIN d /\ x # y
      BY <1>1, <1>2, <2>1
    <3>2. \A j \in 1..i : j \in 1..l /\ j # i + 1
      BY <2>1
    <3>3. /\ \A j \in 1..i : c[j] # x /\ v[j] # x
          /\ \A j \in 1..i : c[j] # y /\ v[j] # y
      BY <1>1, <1>2, <2>1, <3>2
    <3>4. x \notin Gone(i) /\ y \notin Gone(i)
      BY <3>3 DEF Heads
    <3> QED BY <2>2, <3>1, <3>4
  <2>6. Holds(k1, n1) /\ Keeps(r[i], k1)
    BY <2>2, <2>3, <2>5, FreeHolds
  <2>7. DOMAIN n1 = DOMAIN n \ {x} /\ DOMAIN n2 = DOMAIN n \ {x, y}
    BY DEF Less
  <2>8. k1.noallocate_mode = FALSE /\ y \in DOMAIN n1
    BY <2>3, <2>5, <2>6, <2>7 DEF Keeps
  <2> HIDE DEF k1, n1
  <2>9. Holds(k2, n2) /\ Keeps(k1, k2)
    BY <2>6, <2>8, FreeHolds
  <2>10. DOMAIN n2 = DOMAIN d \ Gone(i + 1)
    <3>1. Gone(i + 1) = Gone(i) \cup {x, y}
      <4>1. Heads(c, i + 1) = Heads(c, i) \cup {y} /\ Heads(v, i + 1) = Heads(v, i) \cup {x}
        BY HeadsIs
      <4> HIDE DEF x, y
      <4> QED BY <4>1
    <3> HIDE DEF Gone, n2, x, y
    <3> QED BY <2>2, <2>7, <3>1
  <2> HIDE DEF k2, n2, Gone
  <2>11. Keeps(k, k2)
    BY <2>3, <2>6, <2>9, KeepsTwice
  <2> QED BY <2>4, <2>9, <2>10, <2>11
<1>5. l \in Good
  <2> HIDE DEF Good
  <2> QED BY <1>1, <1>3, <1>4, Induct
<1>6. DOMAIN d \ Gone(l) = {e}
  <2> HIDE DEF l
  <2>1. \A x : x \in Heads(c, l) <=> \E i \in 1..l : x = c[i]
    BY DEF Heads
  <2>2. \A x : x \in Heads(v, l) <=> \E i \in 1..l : x = v[i]
    BY DEF Heads
  <2>3. e \notin Heads(c, l) /\ e \notin Heads(v, l)
    BY <1>2, <2>1, <2>2
  <2>4. \A x \in DOMAIN d : x = e \/ x \in Heads(c, l) \/ x \in Heads(v, l)
    BY <1>1, <2>1, <2>2
  <2> QED BY <1>1, <2>3, <2>4
<1> HIDE DEF Gone
<1>7. Safe(l)
  <2> HIDE DEF Safe
  <2> QED BY <1>1, <1>5
<1> QED BY <1>6, <1>7 DEF Remains

LEMMA Emptied ==
  ASSUME FreeIsNoBlock, NEW k0, NEW k, NEW d, Holds(k0, d), Holds(k, d), k.noallocate_mode = FALSE,
         NEW e, NEW c, NEW v, NEW t, Queued(d, e, c, v, t)
  PROVE  LET r == Run(k, q_free(k0, e))
         IN Keeps(k, r) /\ \E n : Holds(r, n) /\ DOMAIN n = {}
<1> DEFINE l == Len(c)
           Both(i) == test_free(v[i]) \o test_free(c[i])
           ps == [i \in 1..l |-> Both(i)]
           F == FlattenSeq(ps)
           k1 == Run(k, F)
           k2 == Run(k1, test_free(e))
<1>1. Sequence(c) /\ l \in Nat /\ DOMAIN c = 1..l
  BY DEF Queued, Distinct, Sequence
<1>2. Len(ps) = l /\ (\A i \in 1..Len(ps) : ps[i] = Both(i)) /\ (l = 0 => ps = <<>>)
  BY <1>1
<1>3. \A i : Sequence(Both(i))
  BY Calls, Joined
<1>4. q_free(k0, e) = (F \o <<>>) \o test_free(e)
  <2>1. /\ e # NULL /\ Chain(k0, Data(k0, e).head) = c /\ Stray(k0, Data(k0, e).head) = <<>>
        /\ \A i \in 1..l : Data(k0, c[i]).value = v[i]
    BY QueueFound
  <2>2. q_free(k0, e) = FlattenSeq([i \in DOMAIN c |-> test_free(Data(k0, c[i]).value) \o test_free(c[i])])
                       \o <<>> \o test_free(e)
    BY <2>1 DEF q_free
  <2>3. [i \in DOMAIN c |-> test_free(Data(k0, c[i]).value) \o test_free(c[i])] = ps
    <3>1. \A i \in 1..l : test_free(Data(k0, c[i]).value) \o test_free(c[i]) = test_free(v[i]) \o test_free(c[i])
      BY <2>1
    <3> HIDE DEF l
    <3> QED BY <1>1, <3>1
  <2> HIDE DEF ps
  <2> QED BY <2>2, <2>3
<1> HIDE DEF ps
<1>5. Sequence(F)
  <2> HIDE DEF Both
  <2> QED BY <1>1, <1>2, <1>3, Flattened
<1>6. Run(k, q_free(k0, e)) = k2
  <2> DEFINE none == <<>>
  <2>0. Sequence(none) /\ Sequence(test_free(e))
    BY Singles, Calls
  <2>a. Run(k1, none) = k1
    BY RunNothing
  <2>b. q_free(k0, e) = (F \o none) \o test_free(e)
    BY <1>4
  <2> HIDE DEF F, none
  <2>1. Sequence(F \o none)
    BY <1>5, <2>0, Joined
  <2>2. Run(k, F \o none) = Run(Run(k, F), none)
    BY <1>5, <2>0, RunJoined
  <2>3. Run(k, (F \o none) \o test_free(e)) = Run(Run(k, F \o none), test_free(e))
    BY <2>0, <2>1, RunJoined
  <2> QED BY <2>a, <2>b, <2>2, <2>3
<1>7. PICK r : /\ r[0] = k /\ r[l] = k1
               /\ \A i \in 1..l : r[i] = Run(r[i - 1], ps[i])
  <2>1. /\ Len(ps) \in Nat /\ (\A i \in 1..Len(ps) : Sequence(ps[i])) /\ (ps = <<>> \/ Len(ps) # 0)
    BY <1>1, <1>2, <1>3
  <2>2. \E r : /\ r[0] = k /\ r[Len(ps)] = Run(k, FlattenSeq(ps))
               /\ \A i \in 1..Len(ps) : r[i] = Run(r[i - 1], ps[i])
    BY <2>1, RunAlong
  <2> HIDE DEF l
  <2> QED BY <1>2, <2>2
<1>8. \A i \in 1..l : r[i] = Run(Run(r[i - 1], test_free(v[i])), test_free(c[i]))
  <2> SUFFICES ASSUME NEW i \in 1..l PROVE r[i] = Run(Run(r[i - 1], test_free(v[i])), test_free(c[i]))
    OBVIOUS
  <2>1. r[i] = Run(r[i - 1], test_free(v[i]) \o test_free(c[i]))
    BY <1>2, <1>7
  <2> QED BY <2>1, Calls, RunJoined
<1> HIDE DEF k1, F
<1>9. Keeps(k, k1) /\ \E n : Holds(k1, n) /\ DOMAIN n = {e}
  <2>1. Remains(k, r[Len(c)], {e})
    <3>1. r[0] = k /\ FreesAlong(r, c, v)
      BY <1>7, <1>8 DEF FreesAlong
    <3> QED BY <3>1, ElementsFreed
  <2> QED BY <1>7, <2>1 DEF Remains
<1>10. PICK n : Holds(k1, n) /\ DOMAIN n = {e}
  BY <1>9
<1>11. k1.noallocate_mode = FALSE
  BY <1>9 DEF Keeps
<1>12. Holds(k2, Less(n, e)) /\ Keeps(k1, k2)
  BY <1>10, <1>11, FreeHolds
<1>13. DOMAIN Less(n, e) = {}
  BY <1>10 DEF Less
<1> HIDE DEF k2
<1> QED BY <1>6, <1>9, <1>12, <1>13, KeepsTwice

\* h backwards.
Reversed(h) == [i \in 1..Len(h) |-> h[Len(h) + 1 - i]]
LEMMA ReversedIs ==
  ASSUME NEW h, Distinct(h)
  PROVE  LET g == Reversed(h)
         IN /\ Distinct(g) /\ Len(g) = Len(h)
            /\ \A i \in 1..Len(h) : g[i] = h[Len(h) + 1 - i]
            /\ \A i \in Nat : Nth(g, i) = Nth(h, Len(h) + 1 - i)
<1> DEFINE g == Reversed(h)
           l == Len(h)
<1>1. l \in Nat /\ (\A i \in 1..l : h[i] \in Addrs) /\ \A i, j \in 1..l : h[i] = h[j] => i = j
  BY DEF Distinct
<1>2. \A i \in 1..l : g[i] = h[l + 1 - i]
  BY DEF Reversed
<1>3. \A i \in 1..l : l + 1 - i \in 1..l
  BY <1>1
<1>4. g \in Seq(Addrs) /\ Len(g) = l
  <2>1. \A i \in 1..l : h[l + 1 - i] \in Addrs
    BY <1>1, <1>3
  <2>2. g \in [1..l -> Addrs]
    BY <2>1 DEF Reversed
  <2> HIDE DEF g, l
  <2> QED BY <1>1, <2>2
<1> HIDE DEF g, l
<1>5. Distinct(g)
  <2>1. ASSUME NEW i \in 1..l, NEW j \in 1..l, g[i] = g[j] PROVE i = j
    <3>1. l + 1 - i = l + 1 - j
      BY <1>1, <1>2, <1>3, <2>1
    <3> QED BY <1>1, <3>1
  <2> QED BY <1>4, <2>1 DEF Distinct
<1>6. ASSUME NEW i \in Nat PROVE Nth(g, i) = Nth(h, l + 1 - i)
  <2>1. i \in 1..l <=> l + 1 - i \in 1..l
    BY <1>1
  <2> QED BY <1>2, <1>4, <2>1 DEF Nth, l
<1> QED BY <1>2, <1>4, <1>5, <1>6 DEF g, l

LEMMA QueuedBack ==
  ASSUME NEW d, NEW e, NEW c, NEW v, NEW t, Queued(d, e, c, v, t),
         NEW n, DOMAIN n = DOMAIN d,
         n[e] = Queue(Nth(c, Len(c)), Nth(c, 1), n[e].size),
         \A i \in 1..Len(c) : n[c[i]] = Element(v[i], Nth(c, i - 1)) /\ n[v[i]] = d[v[i]]
  PROVE  Queued(n, e, Reversed(c), Reversed(v), Reversed(t))
<1> DEFINE l == Len(c)
           g == Reversed(c)
           f == Reversed(v)
           y == Reversed(t)
<1>1. /\ Distinct(c) /\ Distinct(v) /\ Len(v) = l /\ Sequence(t) /\ Len(t) = l /\ l \in Nat
      /\ e \in DOMAIN d
      /\ \A i \in 1..l : c[i] \in DOMAIN d /\ v[i] \in DOMAIN d /\ d[v[i]] = Text(t[i])
      /\ \A x \in DOMAIN d : x = e \/ \E i \in 1..l : x = c[i] \/ x = v[i]
  BY DEF Queued, Distinct
<1>2. /\ Distinct(g) /\ Len(g) = l
      /\ \A i \in 1..l : g[i] = c[l + 1 - i]
      /\ \A i \in Nat : Nth(g, i) = Nth(c, l + 1 - i)
  BY <1>1, ReversedIs
<1>3. Distinct(f) /\ Len(f) = l /\ \A i \in 1..l : f[i] = v[l + 1 - i]
  <2>1. Distinct(f) /\ Len(f) = Len(v) /\ \A i \in 1..Len(v) : f[i] = v[Len(v) + 1 - i]
    BY <1>1, ReversedIs
  <2> HIDE DEF f, l
  <2> QED BY <1>1, <2>1
<1>4. Len(y) = l /\ Sequence(y) /\ \A i \in 1..l : y[i] = t[l + 1 - i]
  BY <1>1 DEF Reversed, Sequence
<1>5. \A i \in 1..l : n[c[i]] = Element(v[i], Nth(c, i - 1)) /\ n[v[i]] = d[v[i]]
  OBVIOUS
<1>6. n[e] = Queue(Nth(c, l), Nth(c, 1), n[e].size) /\ DOMAIN n = DOMAIN d
  OBVIOUS
<1> HIDE DEF g, f, y, l
<1>7. Nth(g, 1) = Nth(c, l) /\ Nth(g, l) = Nth(c, 1)
  <2>1. 1 \in Nat /\ l \in Nat /\ l + 1 - 1 = l /\ l + 1 - l = 1
    BY <1>1
  <2> QED BY <1>2, <2>1
<1>8. ASSUME NEW i \in 1..l
      PROVE  /\ g[i] \in DOMAIN n /\ n[g[i]] = Element(f[i], Nth(g, i + 1))
             /\ f[i] \in DOMAIN n /\ n[f[i]] = Text(y[i])
  <2>1. l + 1 - i \in 1..l /\ i + 1 \in Nat /\ l + 1 - (i + 1) = (l + 1 - i) - 1
    BY <1>1
  <2> DEFINE j == l + 1 - i
  <2>2. g[i] = c[j] /\ f[i] = v[j] /\ y[i] = t[j] /\ Nth(g, i + 1) = Nth(c, j - 1)
    <3>1. Nth(g, i + 1) = Nth(c, l + 1 - (i + 1))
      BY <1>2, <2>1
    <3> QED BY <1>2, <1>3, <1>4, <2>1, <3>1
  <2>3. j \in 1..l
    BY <2>1
  <2> HIDE DEF j
  <2>4. n[c[j]] = Element(v[j], Nth(c, j - 1)) /\ n[v[j]] = d[v[j]] /\ d[v[j]] = Text(t[j])
        /\ c[j] \in DOMAIN d /\ v[j] \in DOMAIN d
    BY <1>1, <1>5, <2>3
  <2> QED BY <1>6, <2>2, <2>4
<1>9. ASSUME NEW x \in DOMAIN n PROVE x = e \/ \E i \in 1..l : x = g[i] \/ x = f[i]
  <2>1. CASE x # e
    <3>1. PICK i \in 1..l : x = c[i] \/ x = v[i]
      BY <1>1, <1>6, <2>1
    <3>2. l + 1 - i \in 1..l /\ l + 1 - (l + 1 - i) = i
      BY <1>1
    <3>3. g[l + 1 - i] = c[l + 1 - (l + 1 - i)] /\ f[l + 1 - i] = v[l + 1 - (l + 1 - i)]
      BY <1>2, <1>3, <3>2
    <3>4. g[l + 1 - i] = c[i] /\ f[l + 1 - i] = v[i]
      BY <3>2, <3>3
    <3> QED BY <3>1, <3>2, <3>4
  <2> QED BY <2>1
<1>10. n[e] = Queue(Nth(g, 1), Nth(g, l), n[e].size) /\ e \in DOMAIN n
  BY <1>1, <1>6, <1>7
<1> QED BY <1>2, <1>3, <1>4, <1>8, <1>9, <1>10 DEF Queued, g, f, y

\* The links are turned around one after the other.
Turned(d, c, v, i, n) ==
  /\ DOMAIN n = DOMAIN d
  /\ \A j \in 1..Len(c) : n[c[j]] = IF j <= i THEN Element(v[j], Nth(c, j - 1)) ELSE d[c[j]]
  /\ \A x \in DOMAIN d : (\A j \in 1..Len(c) : x # c[j]) => n[x] = d[x]

LEMMA LinksTurned ==
  ASSUME FreeIsNoBlock, NEW k, NEW d, Holds(k, d),
         NEW e, NEW c, NEW v, NEW t, Queued(d, e, c, v, t)
  PROVE  LET r == Run(k, [i \in 1..Len(c) |-> Store("link", c[i], Nth(c, i - 1))])
         IN Keeps(k, r) /\ \E n : Holds(r, n) /\ Turned(d, c, v, Len(c), n)
<1> DEFINE l == Len(c)
           w(i) == Store("link", c[i], Nth(c, i - 1))
           ps == [i \in 1..l |-> w(i)]
<1>1. /\ l \in Nat
      /\ \A i \in 1..l : c[i] \in DOMAIN d /\ d[c[i]] = Element(v[i], Nth(c, i + 1))
      /\ \A i, j \in 1..l : c[i] = c[j] => i = j
  BY DEF Queued, Distinct
<1>2. Len(ps) = l /\ \A i \in 1..l : ps[i] = w(i)
  BY <1>1
<1> HIDE DEF ps
<1>3. PICK r : Runs(r, k, ps) /\ Run(k, ps) = r[Len(ps)]
  BY <1>1, <1>2, RunIs
<1>4. r[0] = k /\ r[l] = Run(k, ps) /\ \A i \in 1..l : r[i] = Execute(r[i - 1], w(i))
  <2> HIDE DEF l, w
  <2>1. r = [n \in 0..l |-> IF n = 0 THEN k ELSE Execute(r[n - 1], ps[n])]
    BY <1>2, <1>3 DEF Runs
  <2> QED BY <1>1, <1>2, <1>3, <2>1
<1> DEFINE Safe(i) == Keeps(k, r[i]) /\ \E n : Holds(r[i], n) /\ Turned(d, c, v, i, n)
           Good == {i \in Nat : i <= l => Safe(i)}
<1>5. 0 \in Good
  <2>1. Keeps(k, k)
    BY Marks DEF Holds, Sane
  <2>2. Turned(d, c, v, 0, d)
    BY <1>1 DEF Turned
  <2>3. Safe(0)
    BY <1>4, <2>1, <2>2
  <2> HIDE DEF Safe
  <2> QED BY <2>3
<1>6. ASSUME NEW i \in Nat, i \in Good PROVE i + 1 \in Good
  <2> SUFFICES ASSUME i + 1 <= l PROVE Safe(i + 1)
    <3> HIDE DEF Safe
    <3> QED OBVIOUS
  <2>0. Safe(i)
    <3> HIDE DEF Safe
    <3> QED BY <1>1, <1>6
  <2>1. PICK n : Holds(r[i], n) /\ Turned(d, c, v, i, n)
    BY <2>0
  <2> DEFINE j == i + 1
             u == Nth(c, j - 1)
             k1 == Execute(r[i], w(j))
             n1 == [n EXCEPT ![c[j]] = [n[c[j]] EXCEPT !.next = u]]
  <2>2. j \in 1..l /\ j - 1 = i /\ ~(j <= i)
    BY <1>1
  <2>3. r[j] = k1
    BY <1>4, <2>2
  <2>4. c[j] \in DOMAIN n /\ n[c[j]] = Element(v[j], Nth(c, j + 1)) /\ n[c[j]].kind = "element"
    <3>1. n[c[j]] = d[c[j]] /\ d[c[j]] = Element(v[j], Nth(c, j + 1)) /\ c[j] \in DOMAIN n
      BY <1>1, <2>1, <2>2 DEF Turned
    <3> QED BY <3>1 DEF Element
  <2>5. Holds(k1, n1) /\ Keeps(r[i], k1)
    <3> HIDE DEF j, u
    <3> QED BY <2>1, <2>4, WriteHolds DEF u
  <2>6. Turned(d, c, v, j, n1)
    <3>0. \A x \in 1..l : x <= j <=> x <= i \/ x = j
      BY <2>2
    <3> HIDE DEF u, j
    <3>1. DOMAIN n1 = DOMAIN d /\ n1[c[j]] = Element(v[j], u) /\ \A x \in DOMAIN d : x # c[j] => n1[x] = n[x]
      BY <2>1, <2>4 DEF Turned, Element
    <3> HIDE DEF n1
    <3>2. ASSUME NEW x \in 1..l PROVE n1[c[x]] = IF x <= j THEN Element(v[x], Nth(c, x - 1)) ELSE d[c[x]]
      <4>1. CASE x = j
        BY <2>2, <3>0, <3>1, <4>1 DEF u
      <4>2. CASE x # j
        <5>1. n1[c[x]] = n[c[x]]
          BY <1>1, <2>2, <3>1, <4>2
        <5>2. n[c[x]] = IF x <= i THEN Element(v[x], Nth(c, x - 1)) ELSE d[c[x]]
          BY <2>1 DEF Turned
        <5> QED BY <3>0, <4>2, <5>1, <5>2
      <4> QED BY <4>1, <4>2
    <3>3. ASSUME NEW x \in DOMAIN d, \A z \in 1..l : x # c[z] PROVE n1[x] = d[x]
      BY <2>1, <2>2, <3>1, <3>3 DEF Turned
    <3> QED BY <3>1, <3>2, <3>3 DEF Turned
  <2>7. Keeps(k, k1)
    <3>1. Keeps(k, r[i])
      BY <2>0
    <3> HIDE DEF k1
    <3> QED BY <2>5, <3>1, KeepsTwice
  <2> HIDE DEF k1, n1
  <2> QED BY <2>3, <2>5, <2>6, <2>7
<1>7. Safe(l)
  <2>1. l \in Good
    <3> HIDE DEF Good
    <3> QED BY <1>1, <1>5, <1>6, Induct
  <2> HIDE DEF Safe
  <2> QED BY <1>1, <2>1
<1> QED BY <1>4, <1>7 DEF ps

LEMMA TurnedBack ==
  ASSUME FreeIsNoBlock, NEW k0, NEW k, NEW d, Holds(k0, d), Holds(k, d),
         NEW e, NEW c, NEW v, NEW t, Queued(d, e, c, v, t)
  PROVE  LET r == Run(k, q_reverse(k0, e))
         IN /\ Keeps(k, r)
            /\ \E n : Holds(r, n) /\ Queued(n, e, Reversed(c), Reversed(v), Reversed(t))
<1> DEFINE l == Len(c)
           ps == [i \in 1..l |-> Store("link", c[i], Nth(c, i - 1))]
           x == Store("head", e, Nth(c, l))
           y == Store("tail", e, Nth(c, 1))
           k1 == Run(k, ps)
           k2 == Execute(k1, x)
           k3 == Execute(k2, y)
<1>1. /\ l \in Nat /\ e \in DOMAIN d /\ DOMAIN c = 1..l
      /\ \A i \in 1..l : /\ c[i] \in DOMAIN d /\ d[c[i]] = Element(v[i], Nth(c, i + 1))
                         /\ v[i] \in DOMAIN d /\ d[v[i]] = Text(t[i])
      /\ d[e] = Queue(Nth(c, 1), Nth(c, l), d[e].size)
      /\ \A i, j \in 1..l : c[i] = c[j] => i = j
  BY DEF Queued, Distinct
<1>2. \A i, j \in 1..l : c[i] # e /\ v[i] # e /\ v[i] # c[j]
  <2>1. \A x1, y1, z1 : Queue(x1, y1, z1).kind = "queue" /\ Element(x1, y1).kind = "element" /\ Text(x1).kind = "string"
    BY DEF Queue, Element, Text
  <2>2. d[e].kind = "queue"
    BY <1>1, <2>1
  <2>3. \A i \in 1..l : d[c[i]].kind = "element" /\ d[v[i]].kind = "string"
    BY <1>1, <2>1
  <2> HIDE DEF l
  <2> QED BY <2>2, <2>3
<1>3. CASE l = 0
  <2>1. Run(k, q_reverse(k0, e)) = k
    <3>1. ~Removable(k0, e)
      BY <1>3, QueueFound
    <3>2. q_reverse(k0, e) = <<>>
      BY <3>1 DEF q_reverse
    <3> QED BY <3>2, RunNothing
  <2>2. Keeps(k, k)
    BY Marks DEF Holds, Sane
  <2>3. Queued(d, e, Reversed(c), Reversed(v), Reversed(t))
    <3>1. Nth(c, 1) = NULL /\ Nth(c, l) = NULL
      BY <1>3 DEF Nth
    <3>2. d[e] = Queue(Nth(c, l), Nth(c, 1), d[e].size)
      BY <1>1, <3>1
    <3>3. \A i \in 1..l : d[c[i]] = Element(v[i], Nth(c, i - 1)) /\ d[v[i]] = d[v[i]]
      BY <1>3
    <3> QED BY <3>2, <3>3, QueuedBack
  <2> QED BY <2>1, <2>2, <2>3
<1>4. CASE l # 0
  <2>1. q_reverse(k0, e) = (ps \o <<>>) \o <<x, y>>
    <3>1. /\ Removable(k0, e) /\ Chain(k0, Data(k0, e).head) = c /\ Returned(k0, Data(k0, e).head) = <<>>
          /\ Data(k0, e).head = Nth(c, 1) /\ Data(k0, e).tail = Nth(c, l)
      BY <1>4, QueueFound
    <3> DEFINE links == [i \in DOMAIN c |-> Store("link", c[i], IF i = 1 THEN NULL ELSE c[i - 1])]
    <3>2. links = ps
      <4>1. \A i \in 1..l : Nth(c, i - 1) = IF i = 1 THEN NULL ELSE c[i - 1]
        BY <1>1 DEF Nth
      <4>2. \A i \in 1..l : Store("link", c[i], IF i = 1 THEN NULL ELSE c[i - 1]) = Store("link", c[i], Nth(c, i - 1))
        BY <4>1
      <4> HIDE DEF l
      <4> QED BY <1>1, <4>2
    <3>3. q_reverse(k0, e) = links \o <<>> \o <<x, y>>
      BY <3>1 DEF q_reverse
    <3> HIDE DEF links, ps
    <3> QED BY <3>2, <3>3
  <2>2. Sequence(ps)
    BY <1>1 DEF Sequence
  <2>3. Run(k, q_reverse(k0, e)) = k3
    <3> DEFINE none == <<>>
               last == <<x, y>>
    <3>0. Sequence(none) /\ Sequence(last)
      BY Singles
    <3>a. Run(k1, none) = k1
      BY RunNothing
    <3>b. q_reverse(k0, e) = (ps \o none) \o last
      BY <2>1
    <3>c. Run(k1, last) = k3
      BY RunTwo
    <3> HIDE DEF ps, none, last, k3
    <3>1. Sequence(ps \o none)
      BY <2>2, <3>0, Joined
    <3>2. Run(k, ps \o none) = Run(Run(k, ps), none)
      BY <2>2, <3>0, RunJoined
    <3>3. Run(k, (ps \o none) \o last) = Run(Run(k, ps \o none), last)
      BY <3>0, <3>1, RunJoined
    <3> QED BY <3>a, <3>b, <3>c, <3>2, <3>3
  <2>4. Keeps(k, k1) /\ \E n : Holds(k1, n) /\ Turned(d, c, v, l, n)
    BY LinksTurned
  <2> HIDE DEF k1
  <2>5. PICK n : Holds(k1, n) /\ Turned(d, c, v, l, n)
    BY <2>4
  <2>6. /\ DOMAIN n = DOMAIN d /\ n[e] = d[e]
        /\ \A i \in 1..l : n[c[i]] = Element(v[i], Nth(c, i - 1)) /\ n[v[i]] = d[v[i]]
    BY <1>1, <1>2, <2>5 DEF Turned
  <2> DEFINE n2 == [n EXCEPT ![e] = [n[e] EXCEPT !.head = Nth(c, l)]]
             n3 == [n2 EXCEPT ![e] = [n2[e] EXCEPT !.tail = Nth(c, 1)]]
  <2>7. Holds(k2, n2) /\ Keeps(k1, k2)
    BY <1>1, <2>5, <2>6, WriteHolds
  <2>8. /\ DOMAIN n2 = DOMAIN d /\ n2[e] = Queue(Nth(c, l), Nth(c, l), n2[e].size)
        /\ \A z \in DOMAIN d : z # e => n2[z] = n[z]
    BY <1>1, <2>6 DEF Queue
  <2> HIDE DEF k2, n2
  <2>9. Holds(k3, n3) /\ Keeps(k2, k3)
    BY <1>1, <2>7, <2>8, WriteHolds
  <2>10. /\ DOMAIN n3 = DOMAIN d /\ n3[e] = Queue(Nth(c, l), Nth(c, 1), n3[e].size)
         /\ \A z \in DOMAIN d : z # e => n3[z] = n2[z]
    BY <1>1, <2>8 DEF Queue
  <2> HIDE DEF k3, n3
  <2>11. \A i \in 1..l : n3[c[i]] = Element(v[i], Nth(c, i - 1)) /\ n3[v[i]] = d[v[i]]
    BY <1>1, <1>2, <2>6, <2>8, <2>10
  <2>12. Queued(n3, e, Reversed(c), Reversed(v), Reversed(t))
    BY <2>10, <2>11, QueuedBack
  <2>13. Keeps(k, k3)
    BY <2>4, <2>7, <2>9, KeepsTwice
  <2> QED BY <2>3, <2>9, <2>12, <2>13
<1> QED BY <1>3, <1>4

-----------------------------------------------------------------------------
(***************************************************************************)
(* The commands: as long as nothing goes wrong, the memory holds the queue *)
(* e of n elements with the texts t, and no other block.                   *)
(***************************************************************************)
Fits(k, e, n, t) ==
  \E d, c, v :
    /\ Holds(k, d) /\ n = Len(c)
    /\ e = NULL => DOMAIN d = {} /\ c = <<>> /\ t = <<>>
    /\ e # NULL => Queued(d, e, c, v, t)

LEMMA FitsMarks ==
  ASSUME NEW k, NEW e, NEW n, NEW t, Fits(k, e, n, t), NEW u
  PROVE  /\ Fits(Clear(k), e, n, t) /\ Fits([k EXCEPT !.cautious_mode = u], e, n, t)
         /\ Fits([k EXCEPT !.noallocate_mode = u], e, n, t)
<1>1. PICK d, c, v : /\ Holds(k, d) /\ n = Len(c)
                     /\ e = NULL => DOMAIN d = {} /\ c = <<>> /\ t = <<>>
                     /\ e # NULL => Queued(d, e, c, v, t)
  BY DEF Fits
<1>2. Holds(Clear(k), d) /\ Holds([k EXCEPT !.cautious_mode = u], d) /\ Holds([k EXCEPT !.noallocate_mode = u], d)
  BY <1>1, MarkHolds
<1> QED BY <1>1, <1>2 DEF Fits

LEMMA FitsCount ==
  ASSUME NEW k, NEW e, NEW n, NEW t, Fits(k, e, n, t)
  PROVE  n \in Nat /\ k.lost = FALSE /\ (Removable(k, e) <=> n # 0)
<1>1. PICK d, c, v : /\ Holds(k, d) /\ n = Len(c)
                     /\ e = NULL => DOMAIN d = {} /\ c = <<>> /\ t = <<>>
                     /\ e # NULL => Queued(d, e, c, v, t)
  BY DEF Fits
<1>2. k.lost = FALSE
  BY <1>1, HeldIsData
<1>3. CASE e = NULL
  BY <1>1, <1>2, <1>3 DEF Removable
<1>4. CASE e # NULL
  <2>1. Len(c) \in Nat
    BY <1>1, <1>4 DEF Queued, Distinct
  <2>2. Removable(k, e) <=> Len(c) # 0
    BY <1>1, <1>4, QueueFound
  <2> QED BY <1>1, <1>2, <2>1, <2>2
<1> QED BY <1>3, <1>4

\* show_queue finds the last element where the count says.
LEMMA FitsShown ==
  ASSUME NEW k, NEW e, NEW n, NEW t, Fits(k, e, n, t)
  PROVE  Fits(Shown(k, e, n), e, n, t) /\ Fits(show_queue(k, e, n), e, n, t)
<1>1. Shown(k, e, n) \in {k, Clear(k)}
  <2>1. CASE ~Removable(k, e) \/ n = 0
    BY <2>1 DEF Shown
  <2>2. CASE Removable(k, e) /\ n # 0
    <3>1. PICK d, c, v : Holds(k, d) /\ n = Len(c) /\ Queued(d, e, c, v, t)
      BY <2>2 DEF Fits, Removable
    <3>2. n \in Nat
      BY FitsCount
    <3>3. Chain(k, Data(k, e).head) = c
      BY <3>1, QueueFound
    <3>4. Printed(k, e, n) = SubSeq(c, 1, Min({n}))
      <4>1. {Len(c), n} = {n}
        BY <3>1
      <4> QED BY <2>2, <3>3, <4>1 DEF Printed
    <3>5. Min({n}) = n
      <4>1. Min({n}) \in {n}
        BY <3>2, MinNat
      <4> QED BY <4>1
    <3>6. Len(Printed(k, e, n)) = n
      <4>1. c \in Seq(Addrs)
        BY <3>1 DEF Queued, Distinct
      <4>2. Len(SubSeq(c, 1, n)) = n
        BY <3>1, <3>2, <4>1
      <4> QED BY <3>4, <3>5, <4>2
    <3>7. ~(Len(Printed(k, e, n)) < n)
      BY <3>2, <3>6
    <3> QED BY <2>2, <3>7 DEF Shown
  <2> QED BY <2>1, <2>2
<1>2. Fits(Clear(k), e, n, t)
  BY FitsMarks
<1>3. Fits(Shown(k, e, n), e, n, t)
  BY <1>1, <1>2
<1> QED BY <1>3 DEF show_queue

LEMMA OutcomeDone ==
  ASSUME NEW k, NEW program, NEW loops, NEW o \in Outcomes(k, program, loops), o.done
  PROVE  o.m = Run(k, program)
BY DEF Outcomes

LEMMA ReleasedFits ==
  ASSUME FreeIsNoBlock, NEW k, k.noallocate_mode = FALSE, NEW t, Fits(k, q, qcnt, t),
         NEW o \in Released(k), o.done
  PROVE  Fits(o.m, NULL, 0, <<>>) /\ Freed(o)
<1> DEFINE k1 == [k EXCEPT !.cautious_mode = qcnt <= BIG_QUEUE]
           k2 == Run(k1, q_free(k, q))
           k3 == [k2 EXCEPT !.cautious_mode = TRUE]
<1>1. PICK r \in Outcomes(k1, q_free(k, q), Cyclic(k, q)) : o = [r EXCEPT !.m.cautious_mode = TRUE]
  BY DEF Released
<1>2. DOMAIN r = {"m", "done"}
  BY <1>1 DEF Outcomes
<1>3. r.done
  BY <1>1, <1>2
<1>4. r.m = k2
  BY <1>1, <1>3, OutcomeDone
<1>5. o.m = k3
  BY <1>1, <1>2, <1>4
<1>6. PICK d, c, v : /\ Holds(k, d) /\ qcnt = Len(c)
                     /\ q = NULL => DOMAIN d = {} /\ c = <<>> /\ t = <<>>
                     /\ q # NULL => Queued(d, q, c, v, t)
  BY DEF Fits
<1>7. k1.noallocate_mode = FALSE /\ Holds(k1, d)
  <2>1. Holds(k1, d)
    BY <1>6, MarkHolds
  <2>2. k1.noallocate_mode = k.noallocate_mode
    BY <1>6 DEF Holds, Sane, Memory, Fields
  <2> QED BY <2>1, <2>2
<1> HIDE DEF k1
<1>8. \E n : Holds(k2, n) /\ DOMAIN n = {}
  <2>1. CASE q = NULL
    <3>1. k2 = k1
      BY <2>1, RunNothing DEF q_free
    <3> QED BY <1>6, <1>7, <2>1, <3>1
  <2>2. CASE q # NULL
    BY <1>6, <1>7, <2>2, Emptied
  <2> QED BY <2>1, <2>2
<1> HIDE DEF k2
<1>9. PICK n : Holds(k2, n) /\ DOMAIN n = {}
  BY <1>8
<1>10. Holds(k3, n)
  BY <1>9, MarkHolds
<1> HIDE DEF k3
<1>11. k3.allocated_count = 0
  BY <1>9, <1>10, HoldsNothing
<1>12. Fits(k3, NULL, 0, <<>>)
  <2>1. Len(<<>>) = 0
    OBVIOUS
  <2> QED BY <1>9, <1>10, <2>1 DEF Fits
<1> QED BY <1>5, <1>11, <1>12 DEF Freed

\* A command that ends.
LEMMA ReturnIs ==
  ASSUME NEW c, NEW k, NEW ok, NEW bad, Return(c, k, ok, bad)
  PROVE  m' = k /\ cmd'.name = NoWord
BY DEF Return, Settle, Line

LEMMA do_freeFits ==
  ASSUME FreeIsNoBlock, Modes(m), NEW t, Fits(m, q, qcnt, t), NEW c, do_free(c), trusted'
  PROVE  Fits(m', q', qcnt', <<>>) /\ q' = NULL /\ cmd'.name = NoWord /\ trusted
<1>1. PICK o \in Released(Clear(m)) :
        /\ Return(c, Left(o), Freed(o) /\ ~o.m.error, Asked(o.m.error))
        /\ q' = NULL /\ qcnt' = 0 /\ trusted' = (trusted /\ o.done)
  BY DEF do_free
<1>2. Fits(Clear(m), q, qcnt, t)
  BY FitsMarks
<1>3. Clear(m).noallocate_mode = FALSE
  BY MarkModes DEF Modes
<1>4. o.done
  BY <1>1
<1>5. Fits(o.m, NULL, 0, <<>>) /\ Freed(o)
  BY <1>2, <1>3, <1>4, ReleasedFits
<1>6. Fits(Left(o), NULL, 0, <<>>)
  <2>1. Left(o) = Clear(o.m)
    BY <1>5 DEF Left
  <2>2. Fits(Clear(o.m), NULL, 0, <<>>)
    BY <1>5, FitsMarks
  <2> QED BY <2>1, <2>2
<1>7. m' = Left(o) /\ cmd'.name = NoWord
  BY <1>1, ReturnIs
<1> QED BY <1>1, <1>6, <1>7

\* An allocation returns an address that is free, if there is one, or fails.
LEMMA OfferedIs ==
  ASSUME NEW taken, Unused(m) \ taken # {}, NEW a \in Offered(taken)
  PROVE  a = NULL \/ a \in Unused(m) \ taken
<1> DEFINE T == Unused(m) \ taken
<1>1. T \subseteq Addrs
  BY DEF Unused
<1>2. IsFiniteSet(T) /\ T \in SUBSET Nat /\ T # {}
  BY <1>1, HarnessAssumption, FS_Subset
<1> HIDE DEF T
<1>3. Min(T) \in T /\ Max(T) \in T
  BY <1>2, MinNat, MaxNat
<1>4. a \in {Min(T), Max(T), NULL}
  BY DEF Offered, T
<1> QED BY <1>3, <1>4 DEF T

LEMMA do_newFits ==
  ASSUME FreeIsNoBlock, Modes(m), NEW t, Fits(m, q, qcnt, t), Unused(m) # {}, NEW c, do_new(c), trusted'
  PROVE  Fits(m', q', qcnt', <<>>) /\ cmd'.name = NoWord /\ trusted
<1>1. PICK o \in IF q = NULL THEN {[m |-> m, done |-> TRUE]} ELSE Released(Clear(m)), a \in Offered({}) :
        \E n \in Outcomes(Clear(o.m), q_new(a), FALSE) :
          /\ \E ok, bad : Return(c, Clear(n.m), ok, bad)
          /\ q' = IF n.done THEN a ELSE NULL
          /\ qcnt' = 0 /\ trusted' = (trusted /\ o.done /\ n.done)
  BY DEF do_new
<1>2. PICK n \in Outcomes(Clear(o.m), q_new(a), FALSE) :
        /\ \E ok, bad : Return(c, Clear(n.m), ok, bad)
        /\ q' = IF n.done THEN a ELSE NULL
        /\ qcnt' = 0 /\ trusted' = (trusted /\ o.done /\ n.done)
  BY <1>1
<1>3. trusted /\ o.done /\ n.done /\ q' = a /\ qcnt' = 0 /\ m' = Clear(n.m) /\ cmd'.name = NoWord
  BY <1>2, ReturnIs
<1>4. Modes(o.m)
  <2>1. Modes(Clear(m))
    BY MarkModes
  <2> QED BY <1>1, <2>1, ReleasedModes
<1>5. \E d : Holds(o.m, d) /\ DOMAIN d = {}
  <2>1. CASE q = NULL
    <3>1. o.m = m
      BY <1>1, <2>1
    <3> QED BY <2>1, <3>1 DEF Fits
  <2>2. CASE q # NULL
    <3>1. Fits(Clear(m), q, qcnt, t)
      BY FitsMarks
    <3>2. Clear(m).noallocate_mode = FALSE /\ o \in Released(Clear(m))
      BY <1>1, <2>2, MarkModes DEF Modes
    <3>3. Fits(o.m, NULL, 0, <<>>)
      BY <1>3, <3>1, <3>2, ReleasedFits
    <3> QED BY <3>3 DEF Fits
  <2> QED BY <2>1, <2>2
<1> DEFINE k == Clear(o.m)
<1>6. PICK d : Holds(k, d) /\ DOMAIN d = {}
  BY <1>5, MarkHolds
<1>7. k.noallocate_mode = FALSE
  BY <1>4, MarkModes DEF Modes
<1> HIDE DEF k
<1>8. n.m = Run(k, q_new(a))
  BY <1>2, <1>3, OutcomeDone DEF k
<1>9. Fits(n.m, a, 0, <<>>)
  <2>0. Len(<<>>) = 0
    OBVIOUS
  <2>1. CASE a = NULL
    <3>1. n.m = k
      BY <1>8, <2>1, RunNothing DEF q_new
    <3> QED BY <1>6, <2>0, <2>1, <3>1 DEF Fits
  <2>2. CASE a # NULL
    <3>1. a \in Addrs
      <4>1. Unused(m) \ {} # {}
        OBVIOUS
      <4> QED BY <1>1, <2>2, <4>1, OfferedIs DEF Unused
    <3>2. PICK f : Holds(n.m, f) /\ Queued(f, a, <<>>, <<>>, <<>>)
      BY <1>6, <1>7, <1>8, <3>1, Created
    <3> QED BY <2>0, <2>2, <3>2 DEF Fits
  <2> QED BY <2>1, <2>2
<1>10. Fits(Clear(n.m), a, 0, <<>>)
  BY <1>9, FitsMarks
<1> QED BY <1>3, <1>10

LEMMA do_sizeFits ==
  ASSUME NEW t, Fits(m, q, qcnt, t), NEW c, do_size(c), trusted'
  PROVE  Fits(m', q', qcnt', t) /\ q' = q /\ cmd'.name = NoWord /\ trusted
<1>1. /\ \E ok, bad : Return(c, show_queue(Clear(m), q, qcnt), ok, bad)
      /\ trusted /\ UNCHANGED queue
  BY DEF do_size
<1>2. Fits(show_queue(Clear(m), q, qcnt), q, qcnt, t)
  BY FitsMarks, FitsShown
<1>3. m' = show_queue(Clear(m), q, qcnt) /\ cmd'.name = NoWord
  BY <1>1, ReturnIs
<1> QED BY <1>1, <1>2, <1>3 DEF queue

LEMMA do_showFits ==
  ASSUME NEW t, Fits(m, q, qcnt, t), NEW c, do_show(c), trusted'
  PROVE  Fits(m', q', qcnt', t) /\ q' = q /\ cmd'.name = NoWord /\ trusted
<1>1. /\ \E ok, bad : Return(c, Shown(m, q, qcnt), ok, bad)
      /\ trusted /\ UNCHANGED queue
  BY DEF do_show
<1>2. Fits(Shown(m, q, qcnt), q, qcnt, t)
  BY FitsShown
<1>3. m' = Shown(m, q, qcnt) /\ cmd'.name = NoWord
  BY <1>1, ReturnIs
<1> QED BY <1>1, <1>2, <1>3 DEF queue

LEMMA do_reverseFits ==
  ASSUME FreeIsNoBlock, Modes(m), NEW t, Fits(m, q, qcnt, t), NEW c, do_reverse(c), trusted'
  PROVE  /\ Fits(m', q', qcnt', IF q = NULL THEN t ELSE Reversed(t)) /\ q' = q
         /\ cmd'.name = NoWord /\ trusted
<1> DEFINE start == [Clear(m) EXCEPT !.noallocate_mode = TRUE]
           back(o) == [o.m EXCEPT !.noallocate_mode = FALSE]
           y == IF q = NULL THEN t ELSE Reversed(t)
<1>1. PICK o \in Outcomes(start, q_reverse(m, q), FALSE) :
        /\ \E ok, bad : Return(c, Clear(show_queue(back(o), q, qcnt)), ok, bad)
        /\ trusted' = (trusted /\ o.done) /\ UNCHANGED queue
  BY DEF do_reverse
<1>2. PICK d, g, v : /\ Holds(m, d) /\ qcnt = Len(g)
                     /\ q = NULL => DOMAIN d = {} /\ g = <<>> /\ t = <<>>
                     /\ q # NULL => Queued(d, q, g, v, t)
  BY DEF Fits
<1>3. Holds(start, d)
  BY <1>2, MarkHolds
<1> HIDE DEF start
<1>4. o.m = Run(start, q_reverse(m, q))
  BY <1>1, OutcomeDone
<1>5. Fits(o.m, q, qcnt, y)
  <2>1. CASE q = NULL
    <3>1. q_reverse(m, q) = <<>>
      BY <2>1 DEF q_reverse, Removable
    <3>2. o.m = start
      BY <1>4, <3>1, RunNothing
    <3> QED BY <1>2, <1>3, <2>1, <3>2 DEF Fits
  <2>2. CASE q # NULL
    <3>1. Queued(d, q, g, v, t)
      BY <1>2, <2>2
    <3>2. \E n : Holds(o.m, n) /\ Queued(n, q, Reversed(g), Reversed(v), Reversed(t))
      BY <1>2, <1>3, <1>4, <3>1, TurnedBack
    <3>3. Len(Reversed(g)) = Len(g)
      BY <3>1, ReversedIs DEF Queued
    <3> QED BY <1>2, <2>2, <3>2, <3>3 DEF Fits
  <2> QED BY <2>1, <2>2
<1>6. Fits(back(o), q, qcnt, y)
  BY <1>5, FitsMarks
<1> HIDE DEF back, y
<1>7. Fits(Clear(show_queue(back(o), q, qcnt)), q, qcnt, y)
  <2>1. Fits(show_queue(back(o), q, qcnt), q, qcnt, y)
    BY <1>6, FitsShown
  <2> QED BY <2>1, FitsMarks
<1>8. m' = Clear(show_queue(back(o), q, qcnt)) /\ cmd'.name = NoWord
  BY <1>1, ReturnIs
<1> QED BY <1>1, <1>7, <1>8 DEF queue, y

LEMMA do_remove_headFits ==
  ASSUME FreeIsNoBlock, Modes(m), NEW t, Fits(m, q, qcnt, t), NEW c, do_remove_head(c), trusted'
  PROVE  /\ q' = q /\ cmd'.name = NoWord /\ trusted
         /\ \/ Fits(m', q', qcnt', t)
            \/ q # NULL /\ qcnt # 0 /\ Fits(m', q', qcnt', Cut(t, 1))
<1> DEFINE start == Clear(m)
<1>1. PICK o \in Outcomes(start, q_remove_head(m, q), FALSE) :
        LET removed == o.done /\ Removable(m, q)
            l == qcnt - IF removed THEN 1 ELSE 0
            end == show_queue(o.m, q, l)
        IN /\ qcnt' = l /\ q' = q
           /\ \E k, ok, bad : Return(c, k, ok, bad) /\ k \in {end, Clear(end)}
           /\ trusted' = (trusted /\ o.done /\ (removed => Removable(o.m, q)))
  BY DEF do_remove_head
<1> DEFINE l == qcnt - IF Removable(m, q) THEN 1 ELSE 0
           end == show_queue(o.m, q, l)
<1>2. /\ trusted /\ o.done /\ (Removable(m, q) => Removable(o.m, q)) /\ qcnt' = l /\ q' = q
      /\ \E k, ok, bad : Return(c, k, ok, bad) /\ k \in {end, Clear(end)}
  BY <1>1
<1>3. m' \in {end, Clear(end)} /\ cmd'.name = NoWord
  BY <1>2, ReturnIs
<1>4. o.m = Run(start, q_remove_head(m, q))
  BY <1>1, <1>2, OutcomeDone
<1>5. PICK d, g, v : /\ Holds(m, d) /\ qcnt = Len(g)
                     /\ q = NULL => DOMAIN d = {} /\ g = <<>> /\ t = <<>>
                     /\ q # NULL => Queued(d, q, g, v, t)
  BY DEF Fits
<1>6. Holds(start, d) /\ start.noallocate_mode = FALSE
  BY <1>5, MarkHolds, MarkModes DEF Modes
<1> HIDE DEF start
<1>7. qcnt \in Nat /\ (Removable(m, q) <=> qcnt # 0)
  BY FitsCount
<1>8. ASSUME NEW y, Fits(o.m, q, l, y) PROVE Fits(m', q', qcnt', y)
  <2> HIDE DEF l
  <2>1. Fits(end, q, l, y)
    BY <1>8, FitsShown
  <2> HIDE DEF end
  <2>2. Fits(Clear(end), q, l, y)
    BY <2>1, FitsMarks
  <2> QED BY <1>2, <1>3, <2>1, <2>2
<1>9. CASE ~Removable(m, q)
  <2>1. o.m = start
    BY <1>4, <1>9, RunNothing DEF q_remove_head
  <2>2. l = qcnt
    BY <1>7, <1>9
  <2>3. Fits(o.m, q, l, t)
    BY <1>5, <1>6, <2>1, <2>2 DEF Fits
  <2> QED BY <1>2, <1>3, <1>8, <2>3
<1>10. CASE Removable(m, q)
  <2>1. q # NULL /\ Queued(d, q, g, v, t) /\ Len(g) # 0
    BY <1>5, <1>7, <1>10 DEF Removable
  <2> DEFINE r == Run(start, q_remove_head(m, q))
  <2>2. /\ Removable(r, q) <=> Len(g) > 1
        /\ Len(g) > 1 =>
             \E n : Holds(r, n) /\ Queued(n, q, Cut(g, 1), Cut(v, 1), Cut(t, 1))
    BY <1>5, <1>6, <2>1, Removed
  <2> HIDE DEF r
  <2>3. Len(g) > 1
    BY <1>2, <1>4, <1>10, <2>2 DEF r
  <2>4. PICK n : Holds(r, n) /\ Queued(n, q, Cut(g, 1), Cut(v, 1), Cut(t, 1))
    BY <2>2, <2>3
  <2>5. Len(Cut(g, 1)) = l
    <3>1. Distinct(g) /\ 1 \in 1..Len(g)
      BY <1>5, <1>7, <2>1, <2>3 DEF Queued
    <3>2. Len(Cut(g, 1)) = Len(g) - 1
      BY <3>1, CutIs
    <3> QED BY <1>5, <1>10, <3>2
  <2>6. Fits(r, q, l, Cut(t, 1))
    <3> HIDE DEF l
    <3> QED BY <2>1, <2>4, <2>5 DEF Fits
  <2>7. Fits(o.m, q, l, Cut(t, 1))
    BY <1>4, <2>6 DEF r
  <2>8. Fits(m', q', qcnt', Cut(t, 1))
    <3> HIDE DEF l
    <3> QED BY <1>8, <2>7
  <2> QED BY <1>2, <1>3, <1>7, <1>10, <2>1, <2>8
<1> QED BY <1>9, <1>10

\* An insertion: the memory that its turn leaves, with the texts y.
Grows(c, t, y) == y = IF c.name = "ih" THEN Before(t, c.s) ELSE Behind(t, c.s)
Room(k, n) == Cardinality(Unused(k)) >= n

TurnLeaves(k, n, t, c, a, u, r) ==
  /\ Unused(k) \ {a, u} \subseteq Unused(r)
  /\ IF q # NULL /\ a # NULL /\ u # NULL
     THEN Removable(r, q) /\ \E y : Grows(c, t, y) /\ Fits(r, q, n + 1, y)
     ELSE Fits(r, q, n, t)

LEMMA InsertedFits ==
  ASSUME FreeIsNoBlock, NEW k, NEW n, NEW t, Fits(k, q, n, t), k.noallocate_mode = FALSE, NEW c,
         NEW a, a = NULL \/ a \in Unused(k),
         NEW u, u = NULL \/ u \in Unused(k) \ {a},
         NEW r, r = Run(k, IF c.name = "ih" THEN q_insert_head(k, q, c.s, a, u)
                                            ELSE q_insert_tail(k, q, c.s, a, u))
  PROVE  TurnLeaves(k, n, t, c, a, u, r)
<1>1. PICK d, g, v : /\ Holds(k, d) /\ n = Len(g)
                     /\ q = NULL => DOMAIN d = {} /\ g = <<>> /\ t = <<>>
                     /\ q # NULL => Queued(d, q, g, v, t)
  BY DEF Fits
<1>2. DOMAIN d = Live(k) /\ Live(k) \subseteq Addrs /\ Unused(k) = Addrs \ DOMAIN d
  BY <1>1, HeldIsData DEF Unused, Live
<1>3. ASSUME NEW f, Holds(r, f) PROVE Unused(r) = Addrs \ DOMAIN f
  BY <1>3, HeldIsData DEF Unused
<1>4. CASE q = NULL \/ a = NULL
  <2>1. r = k
    BY <1>4, RunNothing DEF q_insert_head, q_insert_tail, Inserted
  <2> QED BY <1>4, <2>1 DEF TurnLeaves
<1>5. CASE q # NULL /\ a # NULL /\ u = NULL
  <2>1. r = Run(k, test_malloc(a) \o test_free(a))
    BY <1>5 DEF q_insert_head, q_insert_tail, Inserted
  <2>2. a \in Addrs \ DOMAIN d
    BY <1>2, <1>5
  <2>3. Holds(r, d)
    BY <1>1, <2>1, <2>2, NotInserted
  <2>4. Fits(r, q, n, t)
    BY <1>1, <1>5, <2>3 DEF Fits
  <2> QED BY <1>2, <1>3, <1>5, <2>3, <2>4 DEF TurnLeaves
<1>6. CASE q # NULL /\ a # NULL /\ u # NULL
  <2>0. Holds(k, d)
    BY <1>1
  <2>1. a \in Addrs \ DOMAIN d /\ u \in Addrs \ DOMAIN d /\ a # u
    BY <1>2, <1>6
  <2>2. Queued(d, q, g, v, t)
    BY <1>1, <1>6
  <2>3. PICK f, h, w, y :
          /\ Holds(r, f) /\ DOMAIN f = DOMAIN d \cup {a, u}
          /\ Queued(f, q, h, w, y) /\ Len(h) = n + 1 /\ Grows(c, t, y)
    <3>0. \A i \in 1..Len(g) : g[i] # a
      BY <2>1, <2>2 DEF Queued
    <3>1. CASE c.name = "ih"
      <4>1. \E f : /\ Holds(r, f) /\ DOMAIN f = DOMAIN d \cup {a, u}
                   /\ Queued(f, q, Before(g, a), Before(v, u), Before(t, c.s))
        <5>1. r = Run(k, q_insert_head(k, q, c.s, a, u))
          BY <3>1
        <5> DEFINE str == c.s
                   z == Run(k, q_insert_head(k, q, str, a, u))
        <5> HIDE DEF str
        <5>2. Grown(k, z, d, a, u, q, Before(g, a), Before(v, u), Before(t, str))
          BY <2>0, <2>1, <2>2, InsertedHead
        <5> HIDE DEF z
        <5> QED BY <5>1, <5>2 DEF z, str, Grown
      <4>2. Len(Before(g, a)) = n + 1
        <5>1. Distinct(g)
          BY <2>2 DEF Queued
        <5> QED BY <1>1, <2>1, <3>0, <5>1, BeforeIs
      <4>3. Grows(c, t, Before(t, c.s))
        BY <3>1 DEF Grows
      <4> QED BY <4>1, <4>2, <4>3
    <3>2. CASE c.name # "ih"
      <4>1. \E f : /\ Holds(r, f) /\ DOMAIN f = DOMAIN d \cup {a, u}
                   /\ Queued(f, q, Behind(g, a), Behind(v, u), Behind(t, c.s))
        <5>1. r = Run(k, q_insert_tail(k, q, c.s, a, u))
          BY <3>2
        <5> DEFINE str == c.s
                   z == Run(k, q_insert_tail(k, q, str, a, u))
        <5> HIDE DEF str
        <5>2. Grown(k, z, d, a, u, q, Behind(g, a), Behind(v, u), Behind(t, str))
          BY <2>0, <2>1, <2>2, InsertedTail
        <5> HIDE DEF z
        <5> QED BY <5>1, <5>2 DEF z, str, Grown
      <4>2. Len(Behind(g, a)) = n + 1
        <5>1. Distinct(g)
          BY <2>2 DEF Queued
        <5> QED BY <1>1, <2>1, <3>0, <5>1, BehindIs
      <4>3. Grows(c, t, Behind(t, c.s))
        BY <3>2 DEF Grows
      <4> QED BY <4>1, <4>2, <4>3
    <3> QED BY <3>1, <3>2
  <2>4. Fits(r, q, n + 1, y)
    BY <1>6, <2>3 DEF Fits
  <2>5. Removable(r, q)
    <3>1. n \in Nat
      BY FitsCount
    <3>2. Removable(r, q) <=> n + 1 # 0
      BY <2>4, FitsCount
    <3> QED BY <3>1, <3>2
  <2>6. Unused(r) = Addrs \ (DOMAIN d \cup {a, u})
    BY <1>3, <2>3
  <2> QED BY <1>2, <1>6, <2>3, <2>4, <2>5, <2>6 DEF TurnLeaves
<1> QED BY <1>4, <1>5, <1>6

\* Two blocks less.
LEMMA RoomLeft ==
  ASSUME NEW T, IsFiniteSet(T), NEW a
  PROVE  Cardinality(T) \in Nat /\ IsFiniteSet(T \ {a}) /\ Cardinality(T \ {a}) >= Cardinality(T) - 1
<1>1. Cardinality(T) \in Nat
  BY FS_CardinalityType
<1>2. CASE a \in T
  <2>1. IsFiniteSet(T \ {a}) /\ Cardinality(T \ {a}) = Cardinality(T) - 1
    BY <1>2, FS_RemoveElement
  <2> QED BY <1>1, <2>1
<1>3. CASE a \notin T
  <2>1. T \ {a} = T
    BY <1>3
  <2> QED BY <1>1, <2>1
<1> QED BY <1>2, <1>3

LEMMA RoomFor ==
  ASSUME NEW k, NEW n \in Nat, Room(k, n + 2)
  PROVE  /\ Unused(k) # {} /\ \A a : Unused(k) \ {a} # {}
         /\ \A a, u, r : Unused(k) \ {a, u} \subseteq Unused(r) => Room(r, n)
<1>0. \A r : IsFiniteSet(Unused(r))
  BY HarnessAssumption, FS_Subset DEF Unused
<1> DEFINE T == Unused(k)
<1>1. IsFiniteSet(T) /\ Cardinality(T) >= n + 2
  BY <1>0 DEF Room
<1> HIDE DEF T
<1>2. T # {} /\ \A a : T \ {a} # {}
  <2>1. Cardinality({}) = 0
    BY FS_EmptySet
  <2>2. T # {}
    BY <1>1, <2>1
  <2>3. ASSUME NEW a PROVE T \ {a} # {}
    <3>1. Cardinality(T \ {a}) >= Cardinality(T) - 1 /\ Cardinality(T) \in Nat
      BY <1>1, RoomLeft
    <3>2. Cardinality(T \ {a}) # 0
      BY <1>1, <3>1
    <3> QED BY <2>1, <3>2
  <2> QED BY <2>2, <2>3
<1>3. ASSUME NEW a, NEW u, NEW r, T \ {a, u} \subseteq Unused(r) PROVE Cardinality(Unused(r)) >= n
  <2>1. Cardinality(T) \in Nat /\ IsFiniteSet(T \ {a}) /\ Cardinality(T \ {a}) >= Cardinality(T) - 1
    BY <1>1, RoomLeft
  <2> DEFINE W == T \ {a}
  <2> HIDE DEF W
  <2>2. Cardinality(W) \in Nat /\ IsFiniteSet(W \ {u}) /\ Cardinality(W \ {u}) >= Cardinality(W) - 1
    BY <2>1, RoomLeft DEF W
  <2>3. W \ {u} \subseteq Unused(r)
    BY <1>3 DEF W
  <2>4. Cardinality(W \ {u}) <= Cardinality(Unused(r)) /\ Cardinality(W \ {u}) \in Nat /\ Cardinality(Unused(r)) \in Nat
    BY <1>0, <2>2, <2>3, FS_Subset, FS_CardinalityType
  <2>5. Cardinality(W) >= Cardinality(T) - 1
    BY <2>1 DEF W
  <2> QED BY <1>1, <2>1, <2>2, <2>4, <2>5
<1> QED BY <1>2, <1>3 DEF T, Room

\* What a command that goes on still needs.
Goes(c, k) == c.name # NoWord => c.n \in Nat \ {0} /\ Room(k, 2 * c.n)

LEMMA InsertFits ==
  ASSUME FreeIsNoBlock, Modes(m), NEW t, Fits(m, q, qcnt, t), NEW c, Shape(c), c.name # NoWord, Goes(c, m),
         Insert(c), trusted'
  PROVE  /\ q' = q /\ Goes(cmd', m') /\ trusted
         /\ cmd'.name # NoWord => cmd'.name = c.name /\ cmd'.s = c.s
         /\ \/ Fits(m', q', qcnt', t)
            \/ q # NULL /\ \E y : Grows(c, t, y) /\ Fits(m', q', qcnt', y)
<1> DEFINE program(a, u) == IF c.name = "ih" THEN q_insert_head(m, q, c.s, a, u)
                                             ELSE q_insert_tail(m, q, c.s, a, u)
<1>1. PICK a \in Offered({}) : \E u \in IF a = NULL THEN {NULL} ELSE Offered({a}) :
        \E o \in Outcomes(m, program(a, u), FALSE) : Turn(c, a, u, o)
  BY DEF Insert
<1>2. PICK u \in IF a = NULL THEN {NULL} ELSE Offered({a}) :
        \E o \in Outcomes(m, program(a, u), FALSE) : Turn(c, a, u, o)
  BY <1>1
<1>3. PICK o \in Outcomes(m, program(a, u), FALSE) : Turn(c, a, u, o)
  BY <1>2
<1>4. c.n \in Nat \ {0} /\ Room(m, 2 * c.n)
  BY DEF Goes
<1>5. 2 * (c.n - 1) \in Nat /\ 2 * c.n = 2 * (c.n - 1) + 2
  BY <1>4
<1>6. /\ Unused(m) # {} /\ \A x : Unused(m) \ {x} # {}
      /\ \A x, y, r : Unused(m) \ {x, y} \subseteq Unused(r) => Room(r, 2 * (c.n - 1))
  <2> DEFINE n == 2 * (c.n - 1)
  <2>1. n \in Nat /\ Room(m, n + 2)
    BY <1>4, <1>5
  <2> HIDE DEF n
  <2>2. /\ Unused(m) # {} /\ \A x : Unused(m) \ {x} # {}
        /\ \A x, y, r : Unused(m) \ {x, y} \subseteq Unused(r) => Room(r, n)
    BY <2>1, RoomFor
  <2> QED BY <2>2 DEF n
<1>7. (a = NULL \/ a \in Unused(m)) /\ (u = NULL \/ u \in Unused(m) \ {a})
  <2>1. Unused(m) \ {} # {} /\ Unused(m) \ {a} # {}
    BY <1>6
  <2>2. a = NULL \/ a \in Unused(m)
    BY <1>1, <2>1, OfferedIs
  <2>3. u = NULL \/ u \in Unused(m) \ {a}
    BY <1>2, <2>1, OfferedIs
  <2> QED BY <2>2, <2>3
<1> DEFINE full == q # NULL /\ a # NULL /\ u # NULL
           n1 == IF full THEN qcnt + 1 ELSE qcnt
<1>8. o.done /\ trusted
  BY <1>3 DEF Turn
<1>9. o.m = Run(m, program(a, u))
  <2> HIDE DEF program
  <2> QED BY <1>3, <1>8, OutcomeDone
<1>10. /\ Unused(m) \ {a, u} \subseteq Unused(o.m)
       /\ IF full THEN Removable(o.m, q) /\ \E y : Grows(c, t, y) /\ Fits(o.m, q, qcnt + 1, y)
                  ELSE Fits(o.m, q, qcnt, t)
  <2>1. m.noallocate_mode = FALSE
    BY DEF Modes
  <2> DEFINE r == o.m
  <2>2. r = Run(m, program(a, u))
    BY <1>9
  <2> HIDE DEF r
  <2>3. TurnLeaves(m, qcnt, t, c, a, u, r)
    BY <1>7, <2>1, <2>2, InsertedFits
  <2> QED BY <2>3 DEF r, TurnLeaves
<1>11. PICK y : Fits(o.m, q, n1, y) /\ (y = t \/ (q # NULL /\ Grows(c, t, y)))
  <2>1. CASE full
    <3>1. q # NULL /\ n1 = qcnt + 1 /\ \E y : Grows(c, t, y) /\ Fits(o.m, q, qcnt + 1, y)
      BY <1>10, <2>1
    <3> HIDE DEF n1
    <3> QED BY <3>1
  <2>2. CASE ~full
    <3>1. Fits(o.m, q, n1, t) /\ t = t
      BY <1>10, <2>2
    <3> HIDE DEF n1
    <3> QED BY <3>1, Zenon
  <2> QED BY <2>1, <2>2
<1>12. /\ qcnt' = n1 /\ q' = q
       /\ \/ c.n > 1 /\ Settle(o.m) /\ cmd' = [c EXCEPT !.n = @ - 1]
          \/ \E ok, bad : Return(c, show_queue(Clear(o.m), q, n1), ok, bad)
  <2>1. /\ qcnt' = qcnt + (IF full THEN 1 ELSE 0) /\ q' = q
        /\ \/ c.n > 1 /\ Settle(o.m) /\ cmd' = [c EXCEPT !.n = @ - 1]
           \/ \E ok, bad : Return(c, show_queue(Clear(o.m), q, qcnt + (IF full THEN 1 ELSE 0)), ok, bad)
    BY <1>3, <1>8 DEF Turn
  <2>2. qcnt + (IF full THEN 1 ELSE 0) = n1
    <3>1. qcnt \in Nat
      BY FitsCount
    <3> HIDE DEF full
    <3> QED BY <3>1
  <2> HIDE DEF n1, full
  <2> QED BY <2>1, <2>2
<1> HIDE DEF n1, full
<1>13. CASE c.n > 1 /\ Settle(o.m) /\ cmd' = [c EXCEPT !.n = @ - 1]
  <2>1. m' = o.m
    BY <1>13 DEF Settle
  <2>2. Fits(m', q', qcnt', y)
    BY <1>11, <1>12, <2>1
  <2>3. cmd'.name = c.name /\ cmd'.s = c.s /\ cmd'.n = c.n - 1
    BY <1>13 DEF Shape
  <2>4. Room(m', 2 * (c.n - 1))
    BY <1>6, <1>10, <2>1
  <2>5. Goes(cmd', m')
    BY <1>4, <1>13, <2>3, <2>4 DEF Goes
  <2> QED BY <1>8, <1>11, <1>12, <2>2, <2>3, <2>5
<1>14. CASE \E ok, bad : Return(c, show_queue(Clear(o.m), q, n1), ok, bad)
  <2>1. m' = show_queue(Clear(o.m), q, n1) /\ cmd'.name = NoWord
    BY <1>14, ReturnIs
  <2>2. Fits(Clear(o.m), q, n1, y)
    BY <1>11, FitsMarks
  <2>3. Fits(show_queue(Clear(o.m), q, n1), q, n1, y)
    BY <2>2, FitsShown
  <2>4. Fits(m', q', qcnt', y)
    BY <1>12, <2>1, <2>3
  <2> QED BY <1>8, <1>11, <1>12, <2>1, <2>4 DEF Goes
<1> QED BY <1>12, <1>13, <1>14

-----------------------------------------------------------------------------
(***************************************************************************)
(* A step of the program: while it can be trusted, one queue that fits the *)
(* memory becomes another.                                                 *)
(***************************************************************************)
LEMMA TrustStep == ASSUME [QtestNext]_qtestVars, trusted' PROVE trusted
<1>1. CASE ReadLine
  <2>1. PICK c \in Commands : \/ Interpret(c)
                              \/ \E n : InterpretOwn(c, n)
                              \/ StartInsert(c)
                              \/ do_quit_cmd(c)
    BY <1>1 DEF ReadLine
  <2>2. CASE Interpret(c)
    BY <2>2 DEF Interpret, do_new, do_free, do_remove_head, do_reverse, do_size, do_show
  <2>3. CASE ~Interpret(c)
    BY <2>1, <2>3 DEF InterpretOwn, StartInsert, do_quit_cmd
  <2> QED BY <2>2, <2>3
<1>2. CASE NextInsert
  <2>1. \E a, u, o : Turn(cmd, a, u, o)
    BY <1>2, Zenon DEF NextInsert, Insert
  <2>2. ASSUME NEW a, NEW u, NEW o, Turn(cmd, a, u, o) PROVE trusted
    BY <2>2 DEF Turn
  <2> QED BY <2>1, <2>2
<1>3. CASE EndOfFile
  BY <1>3 DEF EndOfFile
<1>4. CASE Finish
  BY <1>4 DEF Finish
<1>5. CASE UNCHANGED qtestVars
  BY <1>5 DEF qtestVars
<1> QED BY <1>1, <1>2, <1>3, <1>4, <1>5 DEF QtestNext

\* How the texts t of the queue become the texts y.
Becomes(t, y) ==
  \/ q' = q /\ y = t
  \/ y = <<>>
  \/ /\ q # NULL /\ q' = q
     /\ \/ qcnt # 0 /\ y = Cut(t, 1)
        \/ y = Reversed(t)
        \/ cmd.name # NoWord /\ Grows(cmd, t, y)

\* An insertion that goes on is one of the commands.
FromLine(c) == c.name # NoWord => \E l \in Commands : l.name \in {"ih", "it"} /\ l.s = c.s

FitsNext(t) ==
  /\ Goes(cmd', m') /\ FromLine(cmd)'
  /\ \E y : Fits(m', q', qcnt', y) /\ Becomes(t, y)

LEMMA InterpretFits ==
  ASSUME FreeIsNoBlock, Modes(m), NEW t, Fits(m, q, qcnt, t), NEW c, Interpret(c), trusted'
  PROVE  FitsNext(t)
<1>1. CASE do_free(c)
  BY <1>1, do_freeFits DEF FitsNext, Becomes, Goes, FromLine
<1>2. CASE Unused(m) # {} /\ do_new(c)
  BY <1>2, do_newFits DEF FitsNext, Becomes, Goes, FromLine
<1>3. CASE do_remove_head(c)
  BY <1>3, do_remove_headFits DEF FitsNext, Becomes, Goes, FromLine
<1>4. CASE do_reverse(c)
  <2>1. /\ Fits(m', q', qcnt', IF q = NULL THEN t ELSE Reversed(t)) /\ q' = q /\ cmd'.name = NoWord
    BY <1>4, do_reverseFits
  <2>2. CASE q = NULL
    BY <2>1, <2>2 DEF FitsNext, Becomes, Goes, FromLine
  <2>3. CASE q # NULL
    BY <2>1, <2>3 DEF FitsNext, Becomes, Goes, FromLine
  <2> QED BY <2>2, <2>3
<1>5. CASE do_size(c)
  BY <1>5, do_sizeFits DEF FitsNext, Becomes, Goes, FromLine
<1>6. CASE do_show(c)
  BY <1>6, do_showFits DEF FitsNext, Becomes, Goes, FromLine
<1> QED BY <1>1, <1>2, <1>3, <1>4, <1>5, <1>6 DEF Interpret

LEMMA FitsStep ==
  ASSUME FreeIsNoBlock, Modes(m), Shape(cmd), Goes(cmd, m), FromLine(cmd), NEW t, Fits(m, q, qcnt, t),
         [QtestNext]_qtestVars, trusted'
  PROVE  FitsNext(t)
<1>0. ASSUME UNCHANGED <<m, queue, cmd>> PROVE FitsNext(t)
  BY <1>0 DEF FitsNext, Becomes, FromLine, queue
<1>1. CASE ReadLine
  <2>1. PICK c \in Commands : \/ Interpret(c)
                              \/ \E n : InterpretOwn(c, n)
                              \/ StartInsert(c)
                              \/ do_quit_cmd(c)
    BY <1>1 DEF ReadLine
  <2>2. CASE Interpret(c)
    BY <2>2, InterpretFits
  <2>3. CASE \E n : InterpretOwn(c, n)
    BY <1>0, <2>3 DEF InterpretOwn
  <2>4. CASE StartInsert(c)
    <3>1. /\ c.name \in {"ih", "it"} /\ c.n > 0 /\ Cardinality(Unused(m)) >= 2 * c.n
          /\ cmd' = c /\ m' = Clear(m) /\ q' = q /\ qcnt' = qcnt
      BY <2>4 DEF StartInsert, queue
    <3>2. c.n \in Nat
      BY QtestAssumption
    <3>3. Fits(m', q', qcnt', t)
      BY <3>1, FitsMarks
    <3>4. Unused(m') = Unused(m)
      BY <3>1 DEF Unused, Live, Clear
    <3>5. Goes(cmd', m')
      BY <3>1, <3>2, <3>4 DEF Goes, Room
    <3>6. FromLine(cmd)'
      BY <3>1 DEF FromLine
    <3> QED BY <3>1, <3>3, <3>5, <3>6 DEF FitsNext, Becomes
  <2>5. CASE do_quit_cmd(c)
    BY <2>5 DEF do_quit_cmd
  <2> QED BY <2>1, <2>2, <2>3, <2>4, <2>5
<1>2. CASE NextInsert
  <2>1. cmd.name # NoWord /\ Insert(cmd)
    BY <1>2 DEF NextInsert
  <2>2. /\ q' = q /\ Goes(cmd', m')
        /\ cmd'.name # NoWord => cmd'.name = cmd.name /\ cmd'.s = cmd.s
        /\ \/ Fits(m', q', qcnt', t)
           \/ q # NULL /\ \E y : Grows(cmd, t, y) /\ Fits(m', q', qcnt', y)
    BY <2>1, InsertFits
  <2>3. FromLine(cmd)'
    BY <2>1, <2>2 DEF FromLine
  <2>4. CASE Fits(m', q', qcnt', t)
    BY <2>2, <2>3, <2>4 DEF FitsNext, Becomes
  <2>5. CASE q # NULL /\ \E y : Grows(cmd, t, y) /\ Fits(m', q', qcnt', y)
    BY <2>1, <2>2, <2>3, <2>5 DEF FitsNext, Becomes
  <2> QED BY <2>2, <2>4, <2>5
<1>3. CASE EndOfFile
  BY <1>0, <1>3 DEF EndOfFile
<1>4. CASE Finish
  BY <1>4 DEF Finish
<1>5. CASE UNCHANGED qtestVars
  BY <1>0, <1>5 DEF qtestVars
<1> QED BY <1>1, <1>2, <1>3, <1>4, <1>5 DEF QtestNext

\* No queue is in the memory the program starts with.
LEMMA FitsNothing == Fits(NoMemory, NULL, 0, <<>>)
<1>1. Sane(NoMemory)
  BY DEF Sane, NoMemory, Memory, Fields, Live
<1>2. Live(NoMemory) = {}
  BY DEF NoMemory, Live
<1>3. Listed(NoMemory, <<>>)
  <2>1. Len(<<>>) = 0 /\ <<>> \in Seq(Addrs) /\ Nth(<<>>, 1) = NULL
    BY DEF Nth
  <2>2. Distinct(<<>>)
    BY <2>1 DEF Distinct
  <2>4. NoMemory.allocated = NULL /\ NoMemory.allocated_count = 0
    BY DEF NoMemory
  <2> DEFINE none == <<>>
  <2>5. Len(none) = 0 /\ Distinct(none) /\ Nth(none, 1) = NULL /\ 1..0 = {}
    BY <2>1, <2>2
  <2> HIDE DEF none
  <2>6. Listed(NoMemory, none)
    BY <1>2, <2>4, <2>5 DEF Listed
  <2> QED BY <2>6 DEF none
<1>4. Holds(NoMemory, Contents(NoMemory)) /\ DOMAIN Contents(NoMemory) = {}
  BY <1>1, <1>2, <1>3 DEF Holds, Contents
<1>5. Len(<<>>) = 0
  OBVIOUS
<1> QED BY <1>4, <1>5, Zenon DEF Fits

\* The inductive invariant of the queue.
Fitting ==
  /\ Modes(m) /\ Balanced
  /\ trusted => Goes(cmd, m) /\ FromLine(cmd) /\ \E t : Fits(m, q, qcnt, t)

LEMMA FittingInit == ASSUME QtestInit PROVE Fitting
<1>1. m = NoMemory /\ q = NULL /\ qcnt = 0 /\ cmd.name = NoWord
  BY DEF QtestInit, Line
<1>2. Fits(m, q, qcnt, <<>>)
  BY <1>1, FitsNothing
<1> QED BY <1>1, <1>2, ModesInit, BalancedInit DEF Goes, FromLine, Fitting

LEMMA FittingStep == FreeIsNoBlock /\ Fitting /\ [QtestNext]_qtestVars => Fitting'
<1> SUFFICES ASSUME FreeIsNoBlock, Fitting, [QtestNext]_qtestVars PROVE Fitting'
  OBVIOUS
<1>1. Modes(m)' /\ Balanced'
  BY ModesStep, BalancedStep DEF Fitting
<1>2. ASSUME trusted' PROVE Goes(cmd', m') /\ FromLine(cmd)' /\ \E t : Fits(m', q', qcnt', t)
  <2>1. trusted
    BY <1>2, TrustStep
  <2>2. PICK t : Fits(m, q, qcnt, t)
    BY <2>1 DEF Fitting
  <2>3. Modes(m) /\ Shape(cmd) /\ Goes(cmd, m) /\ FromLine(cmd)
    BY <2>1 DEF Fitting, Balanced
  <2>4. FitsNext(t)
    BY <1>2, <2>2, <2>3, FitsStep
  <2> QED BY <2>4 DEF FitsNext
<1> QED BY <1>1, <1>2 DEF Fitting

-----------------------------------------------------------------------------
\* The list half of Accounted.
LEMMA ListAccounted ==
  ASSUME NEW k, NEW h, Listed(k, h)
  PROVE  /\ Blocks(k, k.allocated) = h
         /\ ToSet(h) = Live(k) /\ Len(h) = k.allocated_count
         /\ \A i \in DOMAIN h : k.blk[h[i]].prev = IF i = 1 THEN NULL ELSE h[i - 1]
<1>1. Len(h) \in Nat /\ DOMAIN h = 1..Len(h)
  BY DEF Listed, Distinct
<1>2. ToSet(h) = Live(k)
  <2>1. \A a : a \in Live(k) => a \in Addrs
    BY DEF Live
  <2>2. \A i \in 1..Len(h) : h[i] \in Addrs /\ h[i] \in Live(k)
    BY ListedBlocks
  <2>3. \A a \in Live(k) : \E i \in 1..Len(h) : h[i] = a
    BY <2>1 DEF Listed
  <2> QED BY <1>1, <2>2, <2>3 DEF ToSet
<1>3. ASSUME NEW i \in 1..Len(h) PROVE k.blk[h[i]].prev = IF i = 1 THEN NULL ELSE h[i - 1]
  <2>1. k.blk[h[i]].prev = Nth(h, i - 1)
    BY ListedBlocks
  <2>2. Nth(h, i - 1) = IF i = 1 THEN NULL ELSE h[i - 1]
    <3>1. i - 1 \in 1..Len(h) <=> i # 1
      BY <1>1
    <3> QED BY <3>1 DEF Nth
  <2> QED BY <2>1, <2>2
<1>4. Blocks(k, k.allocated) = h
  BY BlocksListed
<1>5. Len(h) = k.allocated_count
  BY DEF Listed
<1> QED BY <1>1, <1>2, <1>3, <1>4, <1>5

\* The blocks are those of the queue.
LEMMA QueueAccounted ==
  ASSUME NEW k, NEW e, NEW n, NEW t, Fits(k, e, n, t)
  PROVE  LET chain == IF e = NULL THEN <<>> ELSE Chain(k, Data(k, e).head)
         IN Live(k) = ({e} \ {NULL}) \cup UNION {{x, Data(k, x).value} : x \in ToSet(chain)}
<1> DEFINE chain == IF e = NULL THEN <<>> ELSE Chain(k, Data(k, e).head)
           both == UNION {{x, Data(k, x).value} : x \in ToSet(chain)}
<1>1. PICK d, c, v : /\ Holds(k, d)
                     /\ e = NULL => DOMAIN d = {} /\ c = <<>>
                     /\ e # NULL => Queued(d, e, c, v, t)
  BY DEF Fits
<1>2. DOMAIN d = Live(k)
  BY <1>1, HeldIsData
<1>3. CASE e = NULL
  <2>1. chain = <<>>
    BY <1>3
  <2>2. ToSet(chain) = {}
    BY <2>1 DEF ToSet
  <2> HIDE DEF chain
  <2>3. both = {} /\ {e} \ {NULL} = {} /\ Live(k) = {}
    BY <1>1, <1>2, <1>3, <2>2
  <2> QED BY <2>3 DEF chain
<1>4. CASE e # NULL
  <2>1. /\ chain = c
        /\ \A i \in 1..Len(c) : Data(k, c[i]).value = v[i]
    BY <1>1, <1>4, QueueFound
  <2>2. /\ DOMAIN c = 1..Len(c) /\ e \in Live(k)
        /\ \A i \in 1..Len(c) : c[i] \in Live(k) /\ v[i] \in Live(k)
        /\ \A x \in Live(k) : x = e \/ \E i \in 1..Len(c) : x = c[i] \/ x = v[i]
    BY <1>1, <1>2, <1>4 DEF Queued, Distinct
  <2> HIDE DEF chain
  <2>3. \A x : x \in both <=> \E i \in 1..Len(c) : x = c[i] \/ x = v[i]
    <3>1. \A z : z \in ToSet(chain) <=> \E i \in 1..Len(c) : z = c[i]
      BY <2>1, <2>2 DEF ToSet
    <3>2. \A x : x \in both <=> \E z \in ToSet(chain) : x = z \/ x = Data(k, z).value
      OBVIOUS
    <3> QED BY <2>1, <3>1, <3>2
  <2> HIDE DEF both
  <2>4. Live(k) = {e} \cup both
    BY <2>2, <2>3
  <2> QED BY <1>4, <2>4 DEF both, chain
<1> QED BY <1>3, <1>4

\* While no time limit has struck and no removal has emptied the queue, the list of
\* allocated blocks is linked both ways, its length is the count, and its blocks are
\* those of the queue; and a program that exits with 0 has given everything back.
THEOREM BlocksAccounted == FreeIsNoBlock => (QtestSpec => []Accounted)
<1> SUFFICES ASSUME FreeIsNoBlock PROVE QtestSpec => []Accounted
  OBVIOUS
<1>1. QtestInit => Fitting
  BY FittingInit
<1>2. Fitting => Accounted
  <2> SUFFICES ASSUME Fitting PROVE Accounted
    OBVIOUS
  <2> DEFINE list == Blocks(m, m.allocated)
             chain == IF q = NULL THEN <<>> ELSE Chain(m, Data(m, q).head)
  <2>1. GivenBack
    BY DEF Fitting, Balanced
  <2>2. ASSUME trusted
        PROVE  /\ ToSet(list) = Live(m) /\ Len(list) = m.allocated_count
               /\ \A i \in DOMAIN list : m.blk[list[i]].prev = IF i = 1 THEN NULL ELSE list[i - 1]
               /\ Live(m) = ({q} \ {NULL}) \cup UNION {{e, Data(m, e).value} : e \in ToSet(chain)}
    <3>1. PICK t : Fits(m, q, qcnt, t)
      BY <2>2 DEF Fitting
    <3>2. PICK h : Listed(m, h)
      BY <3>1 DEF Fits, Holds
    <3>3. list = h
      BY <3>2, ListAccounted
    <3> HIDE DEF list
    <3>4. /\ ToSet(list) = Live(m) /\ Len(list) = m.allocated_count
          /\ \A i \in DOMAIN list : m.blk[list[i]].prev = IF i = 1 THEN NULL ELSE list[i - 1]
      BY <3>2, <3>3, ListAccounted
    <3>5. Live(m) = ({q} \ {NULL}) \cup UNION {{e, Data(m, e).value} : e \in ToSet(chain)}
      BY <3>1, QueueAccounted
    <3> QED BY <3>4, <3>5
  <2> QED BY <2>1, <2>2, Zenon DEF Accounted
<1>3. Fitting /\ [QtestNext]_qtestVars => Fitting'
  BY FittingStep
<1> QED BY <1>1, <1>2, <1>3, PTL DEF QtestSpec

-----------------------------------------------------------------------------
(***************************************************************************)
(* The linked list implements Deque.                                       *)
(***************************************************************************)
NoQueueIsNone == \A t : Sequence(t) => t # NoQueue

\* The sequence of the refinement, in a memory k.
Texts(k, e, r) ==
  IF e = NULL \/ ~r THEN NoQueue
  ELSE LET chain == Chain(k, Data(k, e).head)
       IN [i \in DOMAIN chain |-> Data(k, Data(k, chain[i]).value).s]

LEMMA TextsAre ==
  ASSUME NEW k, NEW e, NEW n, NEW t, Fits(k, e, n, t), NEW r, r
  PROVE  /\ Texts(k, e, r) = IF e = NULL THEN NoQueue ELSE t
         /\ Sequence(t) /\ Len(t) = n
<1>1. PICK d, c, v : /\ Holds(k, d) /\ n = Len(c)
                     /\ e = NULL => c = <<>> /\ t = <<>>
                     /\ e # NULL => Queued(d, e, c, v, t)
  BY DEF Fits
<1>2. CASE e = NULL
  <2>1. Sequence(<<>>) /\ Len(<<>>) = 0
    BY DEF Sequence
  <2> QED BY <1>1, <1>2, <2>1 DEF Texts
<1>3. CASE e # NULL
  <2>1. /\ Chain(k, Data(k, e).head) = c
        /\ \A i \in 1..Len(c) : Data(k, c[i]).value = v[i] /\ Data(k, v[i]) = Text(t[i])
    BY <1>1, <1>3, QueueFound
  <2>2. Sequence(t) /\ Len(t) = Len(c) /\ DOMAIN c = 1..Len(c)
    BY <1>1, <1>3 DEF Queued, Distinct
  <2>3. Texts(k, e, r) = [i \in 1..Len(c) |-> Data(k, Data(k, c[i]).value).s]
    BY <1>3, <2>1, <2>2 DEF Texts
  <2>4. \A i \in 1..Len(c) : Data(k, Data(k, c[i]).value).s = t[i]
    <3>1. \A x : Text(x).s = x
      BY DEF Text
    <3> QED BY <2>1, <3>1
  <2>5. [i \in 1..Len(c) |-> Data(k, Data(k, c[i]).value).s] = [i \in 1..Len(c) |-> t[i]]
    BY <2>4
  <2>6. t = [i \in 1..Len(c) |-> t[i]]
    BY <2>2 DEF Sequence
  <2>7. Texts(k, e, r) = t
    BY <2>3, <2>5, <2>6
  <2> QED BY <1>1, <1>3, <2>2, <2>7
<1> QED BY <1>2, <1>3

\* The changes of the texts, as Deque has them.
LEMMA TextsChange ==
  ASSUME NEW t, Sequence(t), NEW str
  PROVE  /\ Before(t, str) = <<str>> \o t /\ Behind(t, str) = Append(t, str)
         /\ Len(t) # 0 => t # <<>> /\ Cut(t, 1) = Tail(t)
         /\ Reversed(t) = Reverse(t)
<1> DEFINE l == Len(t)
           Good == {str} \cup {t[i] : i \in 1..l}
<1>1. l \in Nat /\ t \in Seq(Good)
  BY DEF Sequence
<1>2. str \in Good
  OBVIOUS
<1> HIDE DEF Good
<1>3. Before(t, str) = <<str>> \o t
  <2> DEFINE u == <<str>> \o t
  <2>1. u \in Seq(Good) /\ Len(u) = l + 1 /\ \A i \in 1..l + 1 : u[i] = IF i = 1 THEN str ELSE t[i - 1]
    BY <1>1, <1>2
  <2> HIDE DEF u
  <2>2. u = [i \in 1..l + 1 |-> u[i]]
    BY <2>1
  <2>3. [i \in 1..l + 1 |-> u[i]] = [i \in 1..l + 1 |-> IF i = 1 THEN str ELSE t[i - 1]]
    BY <2>1
  <2> QED BY <2>2, <2>3 DEF Before, u
<1>4. Behind(t, str) = Append(t, str)
  <2> DEFINE u == Append(t, str)
  <2>1. u \in Seq(Good) /\ Len(u) = l + 1 /\ \A i \in 1..l + 1 : u[i] = IF i = l + 1 THEN str ELSE t[i]
    BY <1>1, <1>2
  <2> HIDE DEF u
  <2>2. u = [i \in 1..l + 1 |-> u[i]]
    BY <2>1
  <2>3. [i \in 1..l + 1 |-> u[i]] = [i \in 1..l + 1 |-> IF i = l + 1 THEN str ELSE t[i]]
    BY <2>1
  <2> QED BY <2>2, <2>3 DEF Behind, u
<1>5. ASSUME l # 0 PROVE t # <<>> /\ Cut(t, 1) = Tail(t)
  <2> DEFINE u == Tail(t)
  <2>0. t # <<>>
    BY <1>5
  <2>1. u \in Seq(Good) /\ Len(u) = l - 1 /\ \A i \in 1..l - 1 : u[i] = t[i + 1]
    BY <1>1, <2>0
  <2> HIDE DEF u
  <2>2. u = [i \in 1..l - 1 |-> u[i]]
    BY <2>1
  <2>3. [i \in 1..l - 1 |-> u[i]] = [i \in 1..l - 1 |-> IF i < 1 THEN t[i] ELSE t[i + 1]]
    BY <2>1
  <2> QED BY <2>0, <2>2, <2>3 DEF Cut, u
<1>6. Reversed(t) = Reverse(t)
  <2>1. \A i \in 1..l : t[l + 1 - i] = t[(l - i) + 1]
    BY <1>1
  <2>2. [i \in 1..l |-> t[l + 1 - i]] = [i \in 1..l |-> t[(l - i) + 1]]
    BY <2>1
  <2> QED BY <2>2 DEF Reversed, Reverse
<1> QED BY <1>3, <1>4, <1>5, <1>6

\* A step of the texts x to y that Deque allows.
Promised(x, y) ==
  \/ y = x \/ y = NoQueue \/ y = <<>>
  \/ /\ x # NoQueue
     /\ \/ \E str \in Strings : y = <<str>> \o x \/ y = Append(x, str)
        \/ x # <<>> /\ y = Tail(x)
        \/ y = Reverse(x)

LEMMA DequeStep ==
  ASSUME FreeIsNoBlock, NoQueueIsNone, Fitting, [QtestNext]_qtestVars
  PROVE  Promised(Texts(m, q, trusted), Texts(m', q', trusted'))
<1> DEFINE x == Texts(m, q, trusted)
           z == Texts(m', q', trusted')
<1>1. CASE ~trusted'
  <2>1. z = NoQueue
    BY <1>1 DEF Texts
  <2> HIDE DEF x, z
  <2>2. Promised(x, z)
    BY <2>1 DEF Promised
  <2> QED BY <2>2 DEF x, z
<1>2. CASE trusted'
  <2>1. trusted
    BY <1>2, TrustStep
  <2>2. PICK t : Fits(m, q, qcnt, t)
    BY <2>1 DEF Fitting
  <2>3. Modes(m) /\ Shape(cmd) /\ Goes(cmd, m) /\ FromLine(cmd)
    BY <2>1 DEF Fitting, Balanced
  <2>4. PICK y : Fits(m', q', qcnt', y) /\ Becomes(t, y)
    <3>1. FitsNext(t)
      BY <1>2, <2>2, <2>3, FitsStep
    <3> QED BY <3>1 DEF FitsNext
  <2>5. /\ x = IF q = NULL THEN NoQueue ELSE t
        /\ Sequence(t) /\ Len(t) = qcnt /\ t # NoQueue
    BY <2>1, <2>2, TextsAre DEF NoQueueIsNone
  <2>6. z = IF q' = NULL THEN NoQueue ELSE y
    BY <1>2, <2>4, TextsAre
  <2> HIDE DEF x, z
  <2>7. CASE q' = q /\ y = t
    <3>1. z = x
      BY <2>5, <2>6, <2>7
    <3>2. Promised(x, z)
      BY <3>1 DEF Promised
    <3> QED BY <3>2 DEF x, z
  <2>8. CASE y = <<>>
    <3>1. z = NoQueue \/ z = <<>>
      BY <2>6, <2>8
    <3>2. Promised(x, z)
      BY <3>1 DEF Promised
    <3> QED BY <3>2 DEF x, z
  <2>9. CASE /\ q # NULL /\ q' = q
             /\ \/ qcnt # 0 /\ y = Cut(t, 1)
                \/ y = Reversed(t)
                \/ cmd.name # NoWord /\ Grows(cmd, t, y)
    <3>1. x = t /\ z = y
      BY <2>5, <2>6, <2>9
    <3>2. CASE qcnt # 0 /\ y = Cut(t, 1)
      <4>1. t # <<>> /\ y = Tail(t)
        BY <2>5, <3>2, TextsChange
      <4> QED BY <2>5, <3>1, <4>1 DEF Promised, x, z
    <3>3. CASE y = Reversed(t)
      <4>1. y = Reverse(t)
        BY <2>5, <3>3, TextsChange
      <4> QED BY <2>5, <3>1, <4>1 DEF Promised, x, z
    <3>4. CASE cmd.name # NoWord /\ Grows(cmd, t, y)
      <4>1. cmd.s \in Strings
        BY <2>3, <3>4, QtestAssumption DEF FromLine
      <4>2. y = <<cmd.s>> \o t \/ y = Append(t, cmd.s)
        BY <2>5, <3>4, TextsChange DEF Grows
      <4> QED BY <2>5, <3>1, <4>1, <4>2 DEF Promised, x, z
    <3> QED BY <2>9, <3>2, <3>3, <3>4
  <2> QED BY <2>4, <2>7, <2>8, <2>9 DEF Becomes
<1> QED BY <1>1, <1>2

\* Until a time limit strikes, a removal empties the queue, or the program ends, the
\* commands of qtest.c do to the strings of the linked list what queue.h says of its
\* routines (queue.h:32): nothing when an allocation fails, and otherwise an insertion
\* at an end, a removal at the head, a reversal, a new queue, or none.
THEOREM QueueImplements ==
  FreeIsNoBlock /\ NoQueueIsNone => (QtestSpec => ImplementsDeque)
<1> SUFFICES ASSUME FreeIsNoBlock, NoQueueIsNone PROVE QtestSpec => ImplementsDeque
  OBVIOUS
<1>1. QtestInit => Fitting /\ Deq!Init
  <2> SUFFICES ASSUME QtestInit PROVE Fitting /\ Deq!Init
    OBVIOUS
  <2>1. Fitting
    BY FittingInit
  <2>2. q = NULL
    BY DEF QtestInit
  <2> QED BY <2>1, <2>2 DEF Deq!Init, Items
<1>2. Fitting /\ [QtestNext]_qtestVars => Fitting'
  BY FittingStep
<1>3. Fitting /\ [QtestNext]_qtestVars => [Deq!Next]_Items
  <2> SUFFICES ASSUME Fitting, [QtestNext]_qtestVars PROVE [Deq!Next]_Items
    OBVIOUS
  <2>1. Items = Texts(m, q, trusted) /\ Items' = Texts(m', q', trusted')
    BY DEF Items, Texts
  <2>2. Promised(Items, Items')
    BY <2>1, DequeStep
  <2>3. Reverse(Items) = Deq!Reverse(Items)
    BY DEF Reverse, Deq!Reverse
  <2> QED BY <2>2, <2>3 DEF Promised, Deq!Next, Deq!New, Deq!Discard, Deq!Change
<1> QED BY <1>1, <1>2, <1>3, PTL DEF QtestSpec, ImplementsDeque, Deq!Spec
=============================================================================
