------------------------- MODULE SourceBundle_proofs -------------------------
(***************************************************************************)
(* The safety properties of the source receipts and of the import, for     *)
(* every set of sources, every tree of directories, every content of the   *)
(* export and every number of changes and of commands.                     *)
(***************************************************************************)
EXTENDS SourceBundle, FiniteSetTheorems, WellFoundedInduction, TLAPS

-----------------------------------------------------------------------------
(* Sorting.                                                                *)

\* before orders S strictly and totally.
Orders(before, S) ==
    /\ \A x \in S : <<x, x>> \notin before
    /\ \A x, y, z \in S : <<x, y>> \in before /\ <<y, z>> \in before => <<x, z>> \in before
    /\ \A x, y \in S : x = y \/ <<x, y>> \in before \/ <<y, x>> \in before

\* What Sorted returns has every element once, and in order.
LEMMA SortedFacts ==
    ASSUME NEW S, IsFiniteSet(S), NEW before, Orders(before, S)
    PROVE  /\ Sorted(S, before) \in [1..Cardinality(S) -> S]
           /\ \A x \in S : \E i \in 1..Cardinality(S) : Sorted(S, before)[i] = x
           /\ \A i, j \in 1..Cardinality(S) :
                 i < j => <<Sorted(S, before)[i], Sorted(S, before)[j]>> \in before
<1> DEFINE n == Cardinality(S)
<1> DEFINE below(x) == {y \in S : <<y, x>> \in before}
<1> DEFINE rank == [x \in S |-> Cardinality(below(x))]
<1>1. n \in Nat /\ n = Cardinality(S)
  BY FS_CardinalityType
<1>2. /\ \A x \in S : rank[x] = Cardinality(below(x))
      /\ Sorted(S, before) = [k \in 1..n |-> CHOOSE x \in S : Cardinality(below(x)) = k - 1]
  BY DEF Sorted
<1> HIDE DEF n, rank
<1>3. \A x \in S : IsFiniteSet(below(x)) /\ rank[x] \in Nat /\ rank[x] < n
  <2> TAKE x \in S
  <2>1. x \notin below(x) /\ below(x) \in SUBSET S /\ below(x) # S
    BY DEF Orders
  <2>2. IsFiniteSet(below(x)) /\ Cardinality(below(x)) <= n /\ Cardinality(below(x)) # n
    BY <2>1, <1>1, FS_Subset
  <2>3. Cardinality(below(x)) \in Nat
    BY <2>2, FS_CardinalityType
  <2>4. rank[x] \in Nat /\ rank[x] <= n /\ rank[x] # n
    BY <1>2, <2>2, <2>3
  <2> QED BY <1>1, <2>2, <2>4
<1>4. \A x \in S : rank[x] \in Nat /\ rank[x] < n
  BY <1>3
<1>5. \A x, y \in S : <<x, y>> \in before => rank[x] < rank[y]
  <2> SUFFICES ASSUME NEW x \in S, NEW y \in S, <<x, y>> \in before PROVE rank[x] < rank[y]
    OBVIOUS
  <2>1. below(x) \in SUBSET below(y) /\ x \in below(y) /\ x \notin below(x)
    BY DEF Orders
  <2>2. IsFiniteSet(below(y)) /\ below(x) # below(y)
    BY <1>3, <2>1
  <2>3. Cardinality(below(x)) <= Cardinality(below(y))
        /\ Cardinality(below(x)) # Cardinality(below(y))
    BY <2>1, <2>2, FS_Subset
  <2>4. rank[x] <= rank[y] /\ rank[x] # rank[y]
    BY <2>3, <1>2
  <2> QED BY <1>4, <2>4
<1>6. \A x, y \in S : rank[x] = rank[y] => x = y
  <2> TAKE x, y \in S
  <2>1. rank[x] = rank[y] => ~(<<x, y>> \in before) /\ ~(<<y, x>> \in before)
    <3>1. rank[x] = rank[y] => ~(rank[x] < rank[y]) /\ ~(rank[y] < rank[x])
      BY <1>4
    <3> QED BY <3>1, <1>5
  <2> QED BY <2>1 DEF Orders
<1>7. \A k \in 1..n : \E x \in S : rank[x] = k - 1
  <2>1. IsFiniteSet(0..n-1) /\ Cardinality(0..n-1) = n
    <3>1. 0 \in Int /\ n - 1 \in Int /\ (IF 0 > n - 1 THEN 0 ELSE n - 1 - 0 + 1) = n
      BY <1>1
    <3> QED BY <3>1, FS_Interval
  <2>2. rank \in [S -> 0..n-1]
    BY <1>1, <1>4 DEF rank
  <2>3. rank \in Injection(S, 0..n-1)
    BY <2>2, <1>6 DEF Injection, IsInjective
  <2>4. rank \in Surjection(S, 0..n-1)
    BY <1>1, <2>1, <2>3, FS_Injection
  <2> TAKE k \in 1..n
  <2>5. k - 1 \in 0..n-1
    BY <1>1
  <2> QED BY <2>4, <2>5 DEF Surjection
<1> DEFINE s == Sorted(S, before)
<1>8. \A k \in 1..n : s[k] \in S /\ rank[s[k]] = k - 1
  <2> TAKE k \in 1..n
  <2>1. s[k] = CHOOSE x \in S : Cardinality(below(x)) = k - 1
    BY <1>2
  <2>2. \E x \in S : Cardinality(below(x)) = k - 1
    BY <1>2, <1>7
  <2>3. s[k] \in S /\ Cardinality(below(s[k])) = k - 1
    <3> HIDE DEF s
    <3> QED BY <2>1, <2>2
  <2> QED BY <2>3, <1>2
<1>9. s \in [1..n -> S]
  <2>1. s = [k \in 1..n |-> s[k]]
    BY <1>2
  <2> HIDE DEF s
  <2> QED BY <2>1, <1>8
<1> HIDE DEF s
<1>10. \A x \in S : \E i \in 1..n : s[i] = x
  <2> TAKE x \in S
  <2>1. PICK k \in 1..n : k - 1 = rank[x]
    <3> DEFINE k == rank[x] + 1
    <3>1. k \in 1..n /\ k - 1 = rank[x]
      BY <1>1, <1>4
    <3> QED BY <3>1, Zenon
  <2>2. rank[s[k]] = rank[x] /\ s[k] \in S
    BY <2>1, <1>8
  <2> QED BY <2>2, <1>6
<1>11. \A i, j \in 1..n : i < j => <<s[i], s[j]>> \in before
  <2> SUFFICES ASSUME NEW i \in 1..n, NEW j \in 1..n, i < j
               PROVE  <<s[i], s[j]>> \in before
    OBVIOUS
  <2>1. s[i] \in S /\ s[j] \in S /\ rank[s[i]] < rank[s[j]]
    BY <1>1, <1>8
  <2>2. ~(rank[s[j]] < rank[s[i]]) /\ ~(rank[s[i]] < rank[s[i]])
    BY <2>1, <1>4
  <2>3. s[i] # s[j] /\ <<s[j], s[i]>> \notin before
    BY <2>1, <2>2, <1>5
  <2> QED BY <2>1, <2>3 DEF Orders
<1> QED BY <1>1, <1>9, <1>10, <1>11 DEF s

\* The sources and the directories are finitely many.
LEMMA FiniteSources == IsFiniteSet(Sources)
<1>1. Len(Order) \in Nat /\ DOMAIN Order = 1..Len(Order)
  BY SourceAssumption
<1>2. IsFiniteSet(1..Len(Order))
  BY <1>1, FS_Interval
<1>3. Order \in Surjection(DOMAIN Order, Sources)
  BY SourceAssumption DEF Surjection
<1> QED BY <1>1, <1>2, <1>3, FS_Surjection

\* A path has one position in the order of all paths.
LEMMA PositionFacts ==
    /\ \A p \in Sources : Position(p) \in Nat /\ Order[Position(p)] = p
    /\ \A p, q \in Sources : Position(p) = Position(q) => p = q
<1>1. ASSUME NEW p \in Sources
      PROVE  Position(p) \in DOMAIN Order /\ Order[Position(p)] = p
  <2>1. \E i \in DOMAIN Order : Order[i] = p
    BY SourceAssumption
  <2> QED BY <2>1 DEF Position
<1>2. DOMAIN Order \subseteq Nat
  BY SourceAssumption
<1> QED BY <1>1, <1>2

\* The order of the natural numbers, as the library states it.
Lower == {pair \in Nat \X Nat : pair[1] < pair[2]}

\* No set of natural numbers goes down forever.
LEMMA LowerWellFounded == IsWellFoundedOn(Lower, Nat)
BY NatLessThanWellFounded DEF OpToRel, Lower

\* A set of natural numbers that is not empty has a least one.
LEMMA LeastNumber ==
    ASSUME NEW numbers \in SUBSET Nat, numbers # {}
    PROVE  \E m \in numbers : \A n \in numbers : m <= n
<1>1. PICK m \in numbers : \A n \in numbers : <<n, m>> \notin Lower
  BY LowerWellFounded, WFMin
<1>2. \A n \in numbers : <<n, m>> \in Lower <=> n < m
  BY DEF Lower
<1>3. \A n \in numbers : ~(n < m) /\ n \in Nat /\ m \in Nat
  BY <1>1, <1>2
<1>4. \A n \in numbers : m <= n
  BY <1>3
<1> QED BY <1>4

\* The first path of a set is one of them.
LEMMA FirstIn == ASSUME NEW paths \in SUBSET Sources, paths # {} PROVE First(paths) \in paths
<1> DEFINE numbers == {Position(p) : p \in paths}
<1>1. numbers \in SUBSET Nat /\ numbers # {}
  BY PositionFacts
<1>2. PICK m \in numbers : \A n \in numbers : m <= n
  BY <1>1, LeastNumber
<1>3. \E p \in paths : \A q \in paths : Position(p) <= Position(q)
  BY <1>2
<1> QED BY <1>3 DEF First

\* Canonical lists every path of the set once, whatever the set.
LEMMA CanonicalFacts ==
    ASSUME NEW paths \in SUBSET Sources
    PROVE  /\ Cardinality(paths) \in Nat
           /\ Canonical(paths) \in [1..Cardinality(paths) -> paths]
           /\ \A p \in paths : \E i \in 1..Cardinality(paths) : Canonical(paths)[i] = p
           /\ \A i, j \in 1..Cardinality(paths) :
                 Canonical(paths)[i] = Canonical(paths)[j] => i = j
<1> DEFINE before == {pair \in paths \X paths : Position(pair[1]) < Position(pair[2])}
<1>1. IsFiniteSet(paths) /\ Cardinality(paths) \in Nat
  BY FiniteSources, FS_Subset, FS_CardinalityType
<1>2. Orders(before, paths)
  <2>1. \A x, y \in paths : <<x, y>> \in before <=> Position(x) < Position(y)
    OBVIOUS
  <2>2. \A x, y \in paths : Position(x) \in Nat /\ (Position(x) = Position(y) => x = y)
    BY PositionFacts
  <2> HIDE DEF before
  <2> QED BY <2>1, <2>2 DEF Orders
<1>3. Canonical(paths) = Sorted(paths, before)
  BY DEF Canonical
<1> HIDE DEF before
<1>4. /\ Canonical(paths) \in [1..Cardinality(paths) -> paths]
      /\ \A p \in paths : \E i \in 1..Cardinality(paths) : Canonical(paths)[i] = p
      /\ \A i, j \in 1..Cardinality(paths) :
            i < j => <<Canonical(paths)[i], Canonical(paths)[j]>> \in before
  BY <1>1, <1>2, <1>3, SortedFacts
<1>5. ASSUME NEW i \in 1..Cardinality(paths), NEW j \in 1..Cardinality(paths),
             Canonical(paths)[i] = Canonical(paths)[j]
      PROVE  i = j
  <2>1. Canonical(paths)[i] \in paths
    BY <1>4
  <2>2. ~(i < j) /\ ~(j < i)
    BY <1>2, <1>4, <1>5, <2>1 DEF Orders
  <2> QED BY <1>1, <2>2
<1> QED BY <1>1, <1>4, <1>5

\* The list of a set of paths, as a sequence.
LEMMA CanonicalSeq ==
    ASSUME NEW paths \in SUBSET Sources
    PROVE  /\ Canonical(paths) \in Seq(paths) /\ Len(Canonical(paths)) = Cardinality(paths)
           /\ DOMAIN Canonical(paths) = 1..Cardinality(paths)
BY CanonicalFacts

\* Extend adds one value, or replaces it.
LEMMA ExtendFacts ==
    \A f, x, v :
       /\ DOMAIN Extend(f, x, v) = DOMAIN f \cup {x}
       /\ Extend(f, x, v)[x] = v
       /\ \A y \in DOMAIN f : y # x => Extend(f, x, v)[y] = f[y]
BY DEF Extend

\* What Less decides for keys of four numbers.
Fours == Nat \X Nat \X Nat \X Nat

LEMMA LessOfFour ==
    ASSUME NEW a \in Fours, NEW b \in Fours
    PROVE  Less(a, b) <=>
             \/ a[1] < b[1]
             \/ a[1] = b[1] /\ a[2] < b[2]
             \/ a[1] = b[1] /\ a[2] = b[2] /\ a[3] < b[3]
             \/ a[1] = b[1] /\ a[2] = b[2] /\ a[3] = b[3] /\ a[4] < b[4]
<1>1. DOMAIN a = {1, 2, 3, 4}
  BY DEF Fours
<1>2. 1..(1-1) = {} /\ 1..(2-1) = {1} /\ 1..(3-1) = {1, 2} /\ 1..(4-1) = {1, 2, 3}
  OBVIOUS
<1>3. Less(a, b) <=> \E i \in {1, 2, 3, 4} : a[i] < b[i] /\ \A j \in 1..i - 1 : a[j] = b[j]
  BY <1>1 DEF Less
<1> QED BY <1>2, <1>3

\* Keys of four numbers are strictly and totally ordered.
LEMMA LessOrders ==
    /\ \A a \in Fours : ~Less(a, a)
    /\ \A a, b, c \in Fours : Less(a, b) /\ Less(b, c) => Less(a, c)
    /\ \A a, b \in Fours : a = b \/ Less(a, b) \/ Less(b, a)
<1>1. \A a \in Fours : a[1] \in Nat /\ a[2] \in Nat /\ a[3] \in Nat /\ a[4] \in Nat
  BY DEF Fours
<1>2. \A a \in Fours : ~Less(a, a)
  BY <1>1, LessOfFour
<1>3. ASSUME NEW a \in Fours, NEW b \in Fours, NEW c \in Fours, Less(a, b), Less(b, c)
      PROVE  Less(a, c)
  BY <1>1, <1>3, LessOfFour
<1>4. ASSUME NEW a \in Fours, NEW b \in Fours, ~Less(a, b), ~Less(b, a) PROVE a = b
  <2>1. a[1] = b[1] /\ a[2] = b[2] /\ a[3] = b[3] /\ a[4] = b[4]
    BY <1>1, <1>4, LessOfFour
  <2> QED BY <2>1 DEF Fours
<1> QED BY <1>2, <1>3, <1>4

-----------------------------------------------------------------------------
(* Receipts.                                                               *)

\* The fields of a receipt.
LEMMA PayloadFacts ==
    /\ \A f \in ListedFiles :
          /\ f = [kind |-> f.kind, path |-> f.path, body |-> f.body]
          /\ f.path \in Sources /\ f.body \in Nat /\ f.kind \in {"hbr2", "discord_json"}
    /\ \A k \in {"hbr2", "discord_json"}, p \in Sources, b \in Nat :
          [kind |-> k, path |-> p, body |-> b] \in ListedFiles
    /\ \A u \in Unsigned :
          /\ u = [files |-> u.files, fileCount |-> u.fileCount, hbr2Count |-> u.hbr2Count,
                  jsonCount |-> u.jsonCount]
          /\ u.files \in Seq(ListedFiles) /\ u.fileCount \in Nat
          /\ u.hbr2Count \in Nat /\ u.jsonCount \in Nat
    /\ \A list \in Seq(ListedFiles), n, h, j \in Nat :
          [files |-> list, fileCount |-> n, hbr2Count |-> h, jsonCount |-> j] \in Unsigned
    /\ \A r \in Payloads :
          r = [body |-> r.body, sha256 |-> r.sha256] /\ r.body \in Unsigned /\ r.sha256 \in Unsigned
    /\ \A u, v \in Unsigned : [body |-> u, sha256 |-> v] \in Payloads
<1>1. \A f \in ListedFiles :
         /\ f = [kind |-> f.kind, path |-> f.path, body |-> f.body]
         /\ f.path \in Sources /\ f.body \in Nat /\ f.kind \in {"hbr2", "discord_json"}
  BY DEF ListedFiles
<1>2. \A k \in {"hbr2", "discord_json"}, p \in Sources, b \in Nat :
         [kind |-> k, path |-> p, body |-> b] \in ListedFiles
  BY DEF ListedFiles
<1>3. \A u \in Unsigned :
         /\ u = [files |-> u.files, fileCount |-> u.fileCount, hbr2Count |-> u.hbr2Count,
                 jsonCount |-> u.jsonCount]
         /\ u.files \in Seq(ListedFiles) /\ u.fileCount \in Nat
         /\ u.hbr2Count \in Nat /\ u.jsonCount \in Nat
  BY DEF Unsigned
<1>4. \A list \in Seq(ListedFiles), n, h, j \in Nat :
         [files |-> list, fileCount |-> n, hbr2Count |-> h, jsonCount |-> j] \in Unsigned
  BY DEF Unsigned
<1>5. \A r \in Payloads :
         r = [body |-> r.body, sha256 |-> r.sha256] /\ r.body \in Unsigned /\ r.sha256 \in Unsigned
  BY DEF Payloads
<1>6. \A u, v \in Unsigned : [body |-> u, sha256 |-> v] \in Payloads
  BY DEF Payloads
<1> QED BY <1>1, <1>2, <1>3, <1>4, <1>5, <1>6

\* Whatever list of files is signed, a receipt comes of it.
LEMMA SignedFacts ==
    ASSUME NEW list \in Seq(ListedFiles)
    PROVE  Signed(list) \in Payloads /\ Signed(list).body.files = list
<1> DEFINE count(kind) == Cardinality({i \in DOMAIN list : list[i].kind = kind})
<1>1. ASSUME NEW kind PROVE count(kind) \in Nat
  <2>1. IsFiniteSet(DOMAIN list)
    <3>1. DOMAIN list = 1..Len(list) /\ Len(list) \in Int
      OBVIOUS
    <3> QED BY <3>1, FS_Interval
  <2>2. {i \in DOMAIN list : list[i].kind = kind} \in SUBSET DOMAIN list
    OBVIOUS
  <2> QED BY <2>1, <2>2, FS_Subset, FS_CardinalityType
<1> DEFINE u == [files |-> list, fileCount |-> Len(list), hbr2Count |-> count("hbr2"),
                 jsonCount |-> count("discord_json")]
<1>2. Signed(list) = [body |-> u, sha256 |-> u]
  BY DEF Signed
<1>3. count("hbr2") \in Nat /\ count("discord_json") \in Nat
  BY <1>1
<1> HIDE DEF count
<1>4. u \in Unsigned /\ u.files = list
  BY <1>3 DEF Unsigned
<1> HIDE DEF u
<1> QED BY <1>2, <1>4 DEF Payloads

\* The files of a receipt that was made, not edited.
LEMMA ReceiptFiles ==
    ASSUME NEW bodies, DOMAIN bodies \in SUBSET Sources, \A p \in DOMAIN bodies : bodies[p] \in Nat
    PROVE  LET files_ == Receipt(bodies).body.files
               paths == Canonical(DOMAIN bodies)
           IN  /\ Receipt(bodies) \in Payloads
               /\ Receipt(bodies) = Signed(files_)
               /\ DOMAIN files_ = 1..Cardinality(DOMAIN bodies)
               /\ Len(files_) = Cardinality(DOMAIN bodies)
               /\ \A i \in DOMAIN files_ :
                     files_[i] = [kind |-> Kind(paths[i]), path |-> paths[i],
                                  body |-> bodies[paths[i]]]
<1> DEFINE paths == Canonical(DOMAIN bodies)
<1> DEFINE list == [i \in DOMAIN paths |->
              [kind |-> Kind(paths[i]), path |-> paths[i], body |-> bodies[paths[i]]]]
<1>1. /\ Cardinality(DOMAIN bodies) \in Nat
      /\ DOMAIN paths = 1..Cardinality(DOMAIN bodies)
      /\ \A i \in DOMAIN paths : paths[i] \in DOMAIN bodies
  BY CanonicalFacts
<1>2. Receipt(bodies) = Signed(list)
  BY DEF Receipt
<1> HIDE DEF paths
<1>3. \A i \in DOMAIN paths : list[i] \in ListedFiles
  BY <1>1 DEF ListedFiles, Kind
<1>4. list \in Seq(ListedFiles) /\ Len(list) = Cardinality(DOMAIN bodies)
  BY <1>1, <1>3
<1>5. Signed(list) \in Payloads /\ Signed(list).body.files = list
  BY <1>4, SignedFacts
<1>6. \A i \in DOMAIN list : list[i] = [kind |-> Kind(paths[i]), path |-> paths[i],
                                        body |-> bodies[paths[i]]]
  OBVIOUS
<1>7. DOMAIN list = 1..Cardinality(DOMAIN bodies)
  BY <1>1
<1> HIDE DEF list
<1> QED BY <1>2, <1>4, <1>5, <1>6, <1>7 DEF paths

\* A receipt lists each source it was made for, with its bytes.
LEMMA ReceiptLists ==
    ASSUME NEW bodies, DOMAIN bodies \in SUBSET Sources, \A p \in DOMAIN bodies : bodies[p] \in Nat
    PROVE  /\ PathsIn(Receipt(bodies)) = DOMAIN bodies
           /\ \A p : BodyIn(Receipt(bodies), p) = IF p \in DOMAIN bodies THEN {bodies[p]} ELSE {}
<1> DEFINE list == Receipt(bodies).body.files
           paths == Canonical(DOMAIN bodies)
           n == Cardinality(DOMAIN bodies)
<1>1. DOMAIN list = 1..n /\ \A i \in 1..n : list[i].path = paths[i] /\ list[i].body = bodies[paths[i]]
  <2>1. DOMAIN list = 1..n /\ \A i \in DOMAIN list :
           list[i] = [kind |-> Kind(paths[i]), path |-> paths[i], body |-> bodies[paths[i]]]
    BY ReceiptFiles
  <2> HIDE DEF list, paths
  <2> QED BY <2>1
<1>2. /\ \A i \in 1..n : paths[i] \in DOMAIN bodies
      /\ \A p \in DOMAIN bodies : \E i \in 1..n : paths[i] = p
  BY CanonicalFacts
<1>3. PathsIn(Receipt(bodies)) = {list[i].path : i \in DOMAIN list}
  BY DEF PathsIn
<1>4. \A p : BodyIn(Receipt(bodies), p) =
               {list[i].body : i \in {j \in DOMAIN list : list[j].path = p}}
  BY DEF BodyIn
<1> HIDE DEF list, paths, n
<1>5. PathsIn(Receipt(bodies)) = DOMAIN bodies
  <2>1. \A p \in PathsIn(Receipt(bodies)) : p \in DOMAIN bodies
    BY <1>1, <1>2, <1>3
  <2>2. \A p \in DOMAIN bodies : p \in PathsIn(Receipt(bodies))
    BY <1>1, <1>2, <1>3
  <2> QED BY <2>1, <2>2
<1>6. ASSUME NEW p, p \in DOMAIN bodies PROVE BodyIn(Receipt(bodies), p) = {bodies[p]}
  <2>1. \A b \in BodyIn(Receipt(bodies), p) : b = bodies[p]
    BY <1>1, <1>4
  <2>2. PICK i \in 1..n : paths[i] = p
    BY <1>2, <1>6
  <2>3. bodies[p] \in BodyIn(Receipt(bodies), p)
    BY <1>1, <1>4, <2>2
  <2> QED BY <2>1, <2>3
<1>7. ASSUME NEW p, p \notin DOMAIN bodies PROVE BodyIn(Receipt(bodies), p) = {}
  BY <1>1, <1>2, <1>4, <1>7
<1> QED BY <1>5, <1>6, <1>7

\* The body that a receipt gives to a path is a number, and the path a source.
LEMMA BodyFacts ==
    ASSUME NEW r \in Payloads
    PROVE  /\ \A p : BodyIn(r, p) \subseteq Nat
           /\ PathsIn(r) \subseteq Sources
           /\ \A p \in PathsIn(r) : BodyIn(r, p) # {}
           /\ \A p : BodyIn(r, p) # {} => p \in PathsIn(r)
<1>1. r.body.files \in Seq(ListedFiles)
  BY PayloadFacts
<1>2. \A i \in DOMAIN r.body.files : r.body.files[i] \in ListedFiles
  BY <1>1
<1>3. \A i \in DOMAIN r.body.files :
         r.body.files[i].path \in Sources /\ r.body.files[i].body \in Nat
  BY <1>2, PayloadFacts
<1> DEFINE list == r.body.files
<1>4. PathsIn(r) = {list[i].path : i \in DOMAIN list}
  BY DEF PathsIn
<1>5. \A p : BodyIn(r, p) = {list[i].body : i \in {j \in DOMAIN list : list[j].path = p}}
  BY DEF BodyIn
<1>6. \A i \in DOMAIN list : list[i].path \in Sources /\ list[i].body \in Nat
  BY <1>3
<1> HIDE DEF list
<1>7. \A p : BodyIn(r, p) \subseteq Nat
  BY <1>5, <1>6
<1>8. PathsIn(r) \subseteq Sources
  BY <1>4, <1>6
<1>9. ASSUME NEW p \in PathsIn(r) PROVE BodyIn(r, p) # {}
  <2>1. PICK i \in DOMAIN list : list[i].path = p
    BY <1>4
  <2>2. list[i].body \in BodyIn(r, p)
    BY <2>1, <1>5
  <2> QED BY <2>2
<1>10. \A p : BodyIn(r, p) # {} => p \in PathsIn(r)
  BY <1>4, <1>5
<1> QED BY <1>7, <1>8, <1>9, <1>10

\* The entries of a list that have this kind.
OfKind(list, kind) == {i \in DOMAIN list : list[i].kind = kind}

\* The sources of a kind, counted in the list or in the set of their paths.
LEMMA CountKind ==
    ASSUME NEW paths \in SUBSET Sources, NEW some, NEW list \in Seq(ListedFiles),
           Len(list) = Cardinality(paths),
           \A i \in DOMAIN list : list[i].path = Canonical(paths)[i],
           NEW kind, \A i \in DOMAIN list : list[i].kind = kind <=> list[i].path \in some
    PROVE  Cardinality(OfKind(list, kind)) = Cardinality(paths \cap some)
<1> DEFINE at == OfKind(list, kind)
           f == [i \in at |-> Canonical(paths)[i]]
<1>1. DOMAIN list = 1..Cardinality(paths)
  OBVIOUS
<1>2. \A i \in at : f[i] \in paths \cap some /\ i \in 1..Cardinality(paths)
  BY <1>1, CanonicalFacts DEF OfKind
<1>3. \A i, j \in at : f[i] = f[j] => i = j
  <2>1. \A i \in at : f[i] = Canonical(paths)[i]
    OBVIOUS
  <2> HIDE DEF f, at
  <2> QED BY <1>2, <2>1, CanonicalFacts
<1>4. \A p \in paths \cap some : \E i \in at : f[i] = p
  <2> TAKE p \in paths \cap some
  <2>1. PICK i \in 1..Cardinality(paths) : Canonical(paths)[i] = p
    BY CanonicalFacts
  <2>2. i \in at
    BY <1>1, <2>1 DEF OfKind
  <2> QED BY <2>1, <2>2
<1>5. IsFiniteSet(at)
  <2>1. IsFiniteSet(DOMAIN list)
    BY <1>1, CanonicalFacts, FS_Interval
  <2> QED BY <2>1, FS_Subset DEF OfKind
<1> HIDE DEF at
<1>6. f \in Bijection(at, paths \cap some)
  BY <1>2, <1>3, <1>4 DEF Bijection, Injection, Surjection, IsInjective
<1>7. ExistsBijection(at, paths \cap some)
  BY <1>6 DEF ExistsBijection
<1>8. Cardinality(paths \cap some) = Cardinality(at)
  BY <1>5, <1>7, FS_Bijection
<1> QED BY <1>8 DEF at

\* Two valid receipts with the same paths and the same bytes are equal: a valid one
\* is what would be made for its sources.
LEMMA ValidIsMade ==
    ASSUME NEW r \in Payloads, ValidReceipt(r),
           NEW bodies, DOMAIN bodies \in SUBSET Sources, \A p \in DOMAIN bodies : bodies[p] \in Nat,
           PathsIn(r) = DOMAIN bodies,
           \A p \in DOMAIN bodies : BodyIn(r, p) = {bodies[p]}
    PROVE  r = Receipt(bodies)
<1> DEFINE list == r.body.files
           made == Receipt(bodies).body.files
           paths == Canonical(DOMAIN bodies)
<1>1. list \in Seq(ListedFiles) /\ \A i \in DOMAIN list : list[i] \in ListedFiles
  BY PayloadFacts
<1>2. PathsIn(r) = {[i \in DOMAIN list |-> list[i].path][k] :
                      k \in DOMAIN [i \in DOMAIN list |-> list[i].path]}
  BY DEF PathsIn
<1>3. /\ \A i \in DOMAIN list : list[i].kind = Kind(list[i].path)
      /\ [i \in DOMAIN list |-> list[i].path] = paths
      /\ r.body.fileCount = Len(list)
      /\ r.body.hbr2Count = Cardinality(DOMAIN bodies \cap Replays)
      /\ r.body.jsonCount = Cardinality(DOMAIN bodies \cap Exports)
      /\ r.sha256 = r.body
  BY <1>2 DEF ValidReceipt
<1>4. \A i \in DOMAIN list : list[i].body \in BodyIn(r, list[i].path)
  BY DEF BodyIn
<1>5. DOMAIN paths = 1..Cardinality(DOMAIN bodies) /\ Cardinality(DOMAIN bodies) \in Nat
  BY CanonicalFacts
<1>6. DOMAIN list = DOMAIN paths /\ \A i \in DOMAIN list : list[i].path = paths[i]
  BY <1>3
<1>7. \A i \in DOMAIN list : list[i].path \in DOMAIN bodies
  BY CanonicalFacts, <1>5, <1>6
<1>8. \A i \in DOMAIN list : list[i].body = bodies[paths[i]]
  BY <1>4, <1>6, <1>7
<1>9. \A i \in DOMAIN list :
         list[i] = [kind |-> Kind(paths[i]), path |-> paths[i], body |-> bodies[paths[i]]]
  BY <1>1, <1>3, <1>6, <1>8, PayloadFacts
<1>10. /\ made \in Seq(ListedFiles) /\ Receipt(bodies) = Signed(made)
       /\ DOMAIN made = 1..Cardinality(DOMAIN bodies)
       /\ \A i \in DOMAIN made :
             made[i] = [kind |-> Kind(paths[i]), path |-> paths[i], body |-> bodies[paths[i]]]
  BY ReceiptFiles, PayloadFacts
<1>11. list = made
  <2>1. DOMAIN list = DOMAIN made /\ \A i \in DOMAIN list : list[i] = made[i]
    BY <1>5, <1>6, <1>9, <1>10
  <2>2. \A l \in Seq(ListedFiles) : l = [i \in DOMAIN l |-> l[i]]
    OBVIOUS
  <2>3. list = [i \in DOMAIN list |-> list[i]] /\ made = [i \in DOMAIN made |-> made[i]]
    BY <1>1, <1>10, <2>2
  <2> HIDE DEF list, made
  <2> QED BY <2>1, <2>3
<1>12. Len(list) = Cardinality(DOMAIN bodies)
  BY <1>1, <1>5, <1>6
<1>13. \A i \in DOMAIN list : /\ list[i].kind = "hbr2" <=> list[i].path \in Replays
                              /\ list[i].kind = "discord_json" <=> list[i].path \in Exports
  <2>1. \A p \in Sources : /\ Kind(p) = "hbr2" <=> p \in Replays
                           /\ Kind(p) = "discord_json" <=> p \in Exports
    BY SourceAssumption DEF Kind, Sources
  <2> QED BY <1>3, <1>7, <2>1
<1>14. Cardinality(OfKind(list, "hbr2")) = Cardinality(DOMAIN bodies \cap Replays)
  <2>1. /\ Len(list) = Cardinality(DOMAIN bodies)
        /\ \A i \in DOMAIN list : list[i].path = Canonical(DOMAIN bodies)[i]
        /\ \A i \in DOMAIN list : list[i].kind = "hbr2" <=> list[i].path \in Replays
    BY <1>6, <1>12, <1>13
  <2> HIDE DEF list
  <2> QED BY <1>1, <2>1, CountKind
<1>15. Cardinality(OfKind(list, "discord_json")) = Cardinality(DOMAIN bodies \cap Exports)
  <2>1. /\ Len(list) = Cardinality(DOMAIN bodies)
        /\ \A i \in DOMAIN list : list[i].path = Canonical(DOMAIN bodies)[i]
        /\ \A i \in DOMAIN list : list[i].kind = "discord_json" <=> list[i].path \in Exports
    BY <1>6, <1>12, <1>13
  <2> HIDE DEF list
  <2> QED BY <1>1, <2>1, CountKind
<1> DEFINE u == [files |-> list, fileCount |-> Len(list),
                 hbr2Count |-> Cardinality(OfKind(list, "hbr2")),
                 jsonCount |-> Cardinality(OfKind(list, "discord_json"))]
<1>16. Signed(list) = [body |-> u, sha256 |-> u]
  BY DEF Signed, OfKind
<1>17. r.body = u
  <2>1. r.body = [files |-> r.body.files, fileCount |-> r.body.fileCount,
                  hbr2Count |-> r.body.hbr2Count, jsonCount |-> r.body.jsonCount]
    BY PayloadFacts
  <2> QED BY <2>1, <1>3, <1>14, <1>15
<1>18. r = [body |-> u, sha256 |-> u]
  <2>1. r = [body |-> r.body, sha256 |-> r.sha256]
    BY PayloadFacts
  <2> HIDE DEF u
  <2> QED BY <2>1, <1>3, <1>17
<1> QED BY <1>10, <1>11, <1>16, <1>18

-----------------------------------------------------------------------------
(* The matcher.                                                            *)

Pairs == [sha256 : Nat, id : Nat, nth : Nat, score : 0..100]

\* The fields of a pair.
LEMMA PairFacts ==
    /\ \A c \in Pairs :
          /\ c = [sha256 |-> c.sha256, id |-> c.id, nth |-> c.nth, score |-> c.score]
          /\ c.sha256 \in Nat /\ c.id \in Nat /\ c.nth \in Nat /\ c.score \in 0..100
    /\ \A h, i, n \in Nat, s \in 0..100 :
          [sha256 |-> h, id |-> i, nth |-> n, score |-> s] \in Pairs
BY DEF Pairs

\* A score is between 0 and 100, whatever the evidence.
LEMMA ScoreBounds == ASSUME NEW evidence PROVE ScorePair(evidence) \in 0..100
<1> DEFINE name == CASE evidence.name = "exact"  -> 90
                     [] evidence.name = "hashed" -> 84
                     [] OTHER -> 0
           size == IF name > 0 /\ evidence.size THEN 6 ELSE 0
           time == CASE evidence.minutes <= 1 -> 8
                     [] evidence.minutes \in 2..5 -> 3
                     [] OTHER -> 0
           sum == name + size + time
<1>1. name \in Nat
  OBVIOUS
<1>2. size \in Nat
  OBVIOUS
<1>3. time \in {8, 3, 0}
  <2> DEFINE soon == evidence.minutes <= 1
             late == evidence.minutes \in 2..5
  <2>1. time = CASE soon -> 8 [] late -> 3 [] OTHER -> 0
    OBVIOUS
  <2> HIDE DEF soon, late
  <2> QED BY <2>1
<1>4. ScorePair(evidence) = IF sum > 100 THEN 100 ELSE sum
  BY DEF ScorePair
<1> HIDE DEF name, size, time
<1> QED BY <1>1, <1>2, <1>3, <1>4

\* The list of reports of some bodies is finite, and is made of reports.
LEMMA SortedReportsFacts ==
    ASSUME NEW bodies, IsFiniteSet(DOMAIN bodies), DOMAIN bodies \subseteq Nat
    PROVE  LET reports == SortedReports(bodies) IN
           /\ IsFiniteSet(DOMAIN reports) /\ DOMAIN reports \subseteq Nat
           /\ \A i \in DOMAIN reports : reports[i] \in Reports
<1> DEFINE in(body) == IF body \in DOMAIN Posted THEN Posted[body] ELSE <<>>
           of(i) == {[report |-> in(bodies[i])[j], at |-> <<i, j>>] : j \in DOMAIN in(bodies[i])}
           read == UNION {of(i) : i \in DOMAIN bodies}
           key(e) == <<e.report.time, e.report.id, e.at[1], e.at[2]>>
           before == {pair \in read \X read : Less(key(pair[1]), key(pair[2]))}
           sorted == Sorted(read, before)
<1>1. SortedReports(bodies) = [n \in DOMAIN sorted |-> sorted[n].report]
  BY DEF SortedReports
<1>2. \A body : in(body) \in Seq(Reports)
  BY SourceAssumption
<1>3. \A e \in read : \E i \in DOMAIN bodies : \E j \in DOMAIN in(bodies[i]) :
         e = [report |-> in(bodies[i])[j], at |-> <<i, j>>]
  OBVIOUS
<1>4. \A i \in DOMAIN bodies : IsFiniteSet(of(i))
  <2> TAKE i \in DOMAIN bodies
  <2> DEFINE f == [j \in DOMAIN in(bodies[i]) |-> [report |-> in(bodies[i])[j], at |-> <<i, j>>]]
  <2>1. f \in Surjection(DOMAIN in(bodies[i]), of(i))
    BY DEF Surjection
  <2>2. IsFiniteSet(DOMAIN in(bodies[i]))
    <3>1. DOMAIN in(bodies[i]) = 1..Len(in(bodies[i])) /\ Len(in(bodies[i])) \in Int
      BY <1>2
    <3> QED BY <3>1, FS_Interval
  <2> HIDE DEF f, of, in
  <2> QED BY <2>1, <2>2, FS_Surjection
<1>5. IsFiniteSet(read)
  <2> DEFINE f == [i \in DOMAIN bodies |-> of(i)]
  <2>1. f \in Surjection(DOMAIN bodies, {of(i) : i \in DOMAIN bodies})
    BY DEF Surjection
  <2>2. IsFiniteSet({of(i) : i \in DOMAIN bodies})
    <3> HIDE DEF f, of
    <3> QED BY <2>1, FS_Surjection
  <2> HIDE DEF of
  <2> QED BY <1>4, <2>2, FS_UNION
<1>6. \A e \in read :
         /\ e.report \in Reports /\ e.at[1] \in Nat /\ e.at[2] \in Nat
         /\ e.at[1] \in DOMAIN bodies /\ e.at[2] \in DOMAIN in(bodies[e.at[1]])
         /\ e = [report |-> in(bodies[e.at[1]])[e.at[2]], at |-> <<e.at[1], e.at[2]>>]
  <2> TAKE e \in read
  <2>1. PICK i \in DOMAIN bodies : \E j \in DOMAIN in(bodies[i]) :
           e = [report |-> in(bodies[i])[j], at |-> <<i, j>>]
    BY <1>3
  <2>2. PICK j \in DOMAIN in(bodies[i]) : e = [report |-> in(bodies[i])[j], at |-> <<i, j>>]
    BY <2>1
  <2>3. j \in Nat /\ in(bodies[i])[j] \in Reports
    BY <1>2
  <2> HIDE DEF in
  <2>4. e.at = <<i, j>> /\ e.report = in(bodies[i])[j]
    BY <2>2
  <2>5. e.at[1] = i /\ e.at[2] = j
    BY <2>4
  <2> QED BY <2>2, <2>3, <2>4, <2>5
<1> HIDE DEF read
<1>7. \A e \in read : key(e) \in Fours
  <2>1. \A r \in Reports : r.time \in Nat /\ r.id \in Nat
    BY DEF Reports
  <2> QED BY <1>6, <2>1 DEF Fours
<1>8. \A d, e \in read : key(d) = key(e) => d = e
  <2> SUFFICES ASSUME NEW d \in read, NEW e \in read, key(d) = key(e) PROVE d = e
    OBVIOUS
  <2>1. d.at[1] = e.at[1] /\ d.at[2] = e.at[2]
    OBVIOUS
  <2> HIDE DEF in
  <2> QED BY <2>1, <1>6
<1>9. Orders(before, read)
  <2>1. \A d, e \in read : <<d, e>> \in before <=> Less(key(d), key(e))
    OBVIOUS
  <2> HIDE DEF before, key
  <2> QED BY <1>7, <1>8, <2>1, LessOrders DEF Orders
<1>10. Cardinality(read) \in Nat
  BY <1>5, FS_CardinalityType
<1> HIDE DEF before
<1>11. sorted \in [1..Cardinality(read) -> read]
  BY <1>5, <1>9, SortedFacts
<1> HIDE DEF sorted
<1>12. /\ DOMAIN SortedReports(bodies) = 1..Cardinality(read)
       /\ \A i \in 1..Cardinality(read) : SortedReports(bodies)[i] = sorted[i].report
  BY <1>1, <1>11
<1>13. IsFiniteSet(1..Cardinality(read))
  BY <1>10, FS_Interval
<1> QED BY <1>6, <1>10, <1>11, <1>12, <1>13

\* The pairs that are scored are finitely many.
LEMMA ScoredFacts ==
    ASSUME NEW replays, IsFiniteSet(DOMAIN replays), \A p \in DOMAIN replays : replays[p] \in Nat,
           NEW reports, IsFiniteSet(DOMAIN reports), DOMAIN reports \subseteq Nat,
           \A i \in DOMAIN reports : reports[i] \in Reports,
           NEW evidence
    PROVE  IsFiniteSet(Scored(replays, reports, evidence))
           /\ Scored(replays, reports, evidence) \in SUBSET Pairs
<1> DEFINE pair(p, i) ==
             [sha256 |-> replays[p], id |-> reports[i].id, nth |-> i,
              score |-> ScorePair(evidence[p][reports[i].text])]
           all == {pair(p, i) : p \in DOMAIN replays, i \in DOMAIN reports}
<1>1. Scored(replays, reports, evidence) \in SUBSET all
  BY DEF Scored
<1>2. IsFiniteSet((DOMAIN replays) \X (DOMAIN reports))
  BY FS_Product
<1>3. IsFiniteSet(all)
  <2> DEFINE f == [c \in (DOMAIN replays) \X (DOMAIN reports) |-> pair(c[1], c[2])]
  <2>1. f \in Surjection((DOMAIN replays) \X (DOMAIN reports), all)
    <3> HIDE DEF pair
    <3>1. \A p \in DOMAIN replays, i \in DOMAIN reports : f[<<p, i>>] = pair(p, i)
      OBVIOUS
    <3>2. \A a \in all : \E c \in (DOMAIN replays) \X (DOMAIN reports) : f[c] = a
      <4> TAKE a \in all
      <4>1. PICK p \in DOMAIN replays : \E i \in DOMAIN reports : a = pair(p, i)
        OBVIOUS
      <4>2. PICK i \in DOMAIN reports : a = pair(p, i)
        BY <4>1
      <4>3. <<p, i>> \in (DOMAIN replays) \X (DOMAIN reports) /\ f[<<p, i>>] = a
        BY <3>1, <4>2
      <4> HIDE DEF f
      <4> QED BY <4>3
    <3>3. f \in [(DOMAIN replays) \X (DOMAIN reports) -> all]
      OBVIOUS
    <3> HIDE DEF f, all
    <3> QED BY <3>2, <3>3 DEF Surjection
  <2> HIDE DEF f, all
  <2> QED BY <1>2, <2>1, FS_Surjection
<1>4. \A p \in DOMAIN replays, i \in DOMAIN reports : pair(p, i) \in Pairs
  <2>1. \A r \in Reports : r.id \in Nat
    BY DEF Reports
  <2>2. \A p \in DOMAIN replays, i \in DOMAIN reports :
           ScorePair(evidence[p][reports[i].text]) \in 0..100
    BY ScoreBounds
  <2> QED BY <2>1, <2>2, PairFacts
<1>5. all \in SUBSET Pairs
  <2> HIDE DEF pair
  <2> QED BY <1>4
<1> HIDE DEF all
<1> QED BY <1>1, <1>3, <1>5, FS_Subset

\* Candidates lists every scored pair, the best first.
LEMMA CandidatesFacts ==
    ASSUME NEW scored \in SUBSET Pairs, IsFiniteSet(scored)
    PROVE  /\ Candidates(scored) \in Seq(scored)
           /\ scored = {Candidates(scored)[i] : i \in DOMAIN Candidates(scored)}
           /\ \A i, j \in DOMAIN Candidates(scored) :
                 i <= j => Candidates(scored)[i].score >= Candidates(scored)[j].score
<1> DEFINE key(c) == <<100 - c.score, c.sha256, c.id, c.nth>>
           before == {pair \in scored \X scored : Less(key(pair[1]), key(pair[2]))}
           n == Cardinality(scored)
<1>11. \A s, t \in 0..100 :
         /\ 100 - s \in Nat
         /\ 100 - s = 100 - t => s = t
         /\ 100 - s <= 100 - t => s >= t
  OBVIOUS
<1>1. \A c \in scored : key(c) \in Fours
  <2> TAKE c \in scored
  <2>1. c.score \in 0..100 /\ c.sha256 \in Nat /\ c.id \in Nat /\ c.nth \in Nat
    BY PairFacts
  <2>2. 100 - c.score \in Nat
    BY <1>11, <2>1
  <2> QED BY <2>1, <2>2 DEF Fours
<1>2. \A c, d \in scored : key(c) = key(d) => c = d
  <2> SUFFICES ASSUME NEW c \in scored, NEW d \in scored, key(c) = key(d) PROVE c = d
    OBVIOUS
  <2>1. 100 - c.score = 100 - d.score /\ c.sha256 = d.sha256 /\ c.id = d.id /\ c.nth = d.nth
    OBVIOUS
  <2>2. c.score \in 0..100 /\ d.score \in 0..100
    BY PairFacts
  <2>3. c.score = d.score
    BY <1>11, <2>1, <2>2
  <2> QED BY <2>1, <2>3, PairFacts
<1>3. \A c, d \in scored : <<c, d>> \in before <=> Less(key(c), key(d))
  OBVIOUS
<1>4. Orders(before, scored)
  <2> HIDE DEF before, key
  <2> QED BY <1>1, <1>2, <1>3, LessOrders DEF Orders
<1>5. Candidates(scored) = Sorted(scored, before)
  BY DEF Candidates
<1> HIDE DEF before
<1>6. n \in Nat
  BY FS_CardinalityType
<1>7. /\ Candidates(scored) \in [1..n -> scored]
      /\ \A c \in scored : \E i \in 1..n : Candidates(scored)[i] = c
      /\ \A i, j \in 1..n : i < j => <<Candidates(scored)[i], Candidates(scored)[j]>> \in before
  BY <1>4, <1>5, SortedFacts
<1> HIDE DEF n
<1>8. \A c, d \in scored : <<c, d>> \in before => c.score >= d.score
  <2> SUFFICES ASSUME NEW c \in scored, NEW d \in scored, <<c, d>> \in before
               PROVE  c.score >= d.score
    OBVIOUS
  <2>1. Less(key(c), key(d)) /\ key(c) \in Fours /\ key(d) \in Fours
    BY <1>1, <1>3
  <2>2. key(c)[1] <= key(d)[1]
    <3>1. key(c)[1] \in Nat /\ key(d)[1] \in Nat
      BY <2>1 DEF Fours
    <3> HIDE DEF key
    <3> QED BY <2>1, <3>1, LessOfFour
  <2>3. c.score \in 0..100 /\ d.score \in 0..100
    BY PairFacts
  <2>4. 100 - c.score <= 100 - d.score
    BY <2>2
  <2> QED BY <1>11, <2>3, <2>4
<1>9. Candidates(scored) \in Seq(scored) /\ DOMAIN Candidates(scored) = 1..n
  BY <1>6, <1>7
<1>10. \A i, j \in 1..n : i <= j => Candidates(scored)[i].score >= Candidates(scored)[j].score
  <2> SUFFICES ASSUME NEW i \in 1..n, NEW j \in 1..n, i <= j
               PROVE  Candidates(scored)[i].score >= Candidates(scored)[j].score
    OBVIOUS
  <2>1. Candidates(scored)[i] \in scored /\ Candidates(scored)[j] \in scored
    BY <1>7
  <2>2. CASE i = j
    <3>1. Candidates(scored)[i].score \in 0..100
      BY <2>1, PairFacts
    <3> QED BY <2>2, <3>1
  <2>3. CASE i < j
    BY <1>7, <1>8, <2>1, <2>3
  <2> QED BY <1>6, <2>2, <2>3
<1> QED BY <1>7, <1>9, <1>10

\* One step of the loop over the pairs.
Take(taken, next) ==
    IF \E c \in taken : Conflict(c, next) THEN taken ELSE taken \cup {next}

\* What the loop has taken after each of its steps.
LEMMA GreedyLoop ==
    ASSUME NEW candidates, candidates \in Seq(Pairs)
    PROVE  \E taken :
             /\ Greedy(candidates) = taken[Len(candidates)]
             /\ taken[0] = {}
             /\ \A n \in 1..Len(candidates) : taken[n] = Take(taken[n - 1], candidates[n])
<1> DEFINE top == Len(candidates)
           body(f, n) == IF n = 0 THEN {}
                         ELSE LET before == f[n - 1]
                                  next == candidates[n]
                              IN IF \E c \in before : Conflict(c, next) THEN before
                                 ELSE before \cup {next}
           prefix(m) == \E f : f = [n \in 0..m |-> body(f, n)]
           bad == {m \in Nat : ~prefix(m)}
<1>1. top \in Nat
  OBVIOUS
<1>2. prefix(0)
  <2> DEFINE f == [n \in 0..0 |-> {}]
  <2>1. f = [n \in 0..0 |-> body(f, n)]
    <3>1. \A n \in 0..0 : n = 0
      OBVIOUS
    <3>2. \A n \in 0..0 : body(f, n) = {}
      BY <3>1
    <3> HIDE DEF body
    <3> QED BY <3>2
  <2> HIDE DEF f, body
  <2> QED BY <2>1
<1>3. ASSUME NEW m \in Nat, prefix(m) PROVE prefix(m + 1)
  <2>1. PICK g : g = [n \in 0..m |-> body(g, n)]
    BY <1>3
  <2> DEFINE f == [n \in 0..m + 1 |-> IF n <= m THEN g[n] ELSE body(g, m + 1)]
  <2>2. ASSUME NEW n \in 0..m + 1 PROVE f[n] = body(f, n)
    <3>1. CASE n = 0
      <4>1. body(g, 0) = {} /\ body(f, 0) = {}
        OBVIOUS
      <4>2. g[0] = body(g, 0) /\ f[0] = g[0]
        <5> HIDE DEF body
        <5>1. 0 \in 0..m /\ 0 \in 0..m + 1 /\ 0 <= m
          OBVIOUS
        <5> QED BY <2>1, <5>1
      <4> QED BY <3>1, <4>1, <4>2
    <3>2. CASE n # 0
      <4>1. n - 1 \in 0..m /\ n - 1 \in 0..m + 1 /\ n - 1 <= m
        BY <3>2
      <4>2. f[n - 1] = g[n - 1]
        <5> HIDE DEF body
        <5> QED BY <4>1
      <4>3. body(f, n) = body(g, n)
        <5> HIDE DEF f
        <5> QED BY <3>2, <4>2
      <4>4. f[n] = body(g, n)
        <5> HIDE DEF body
        <5>1. CASE n <= m
          BY <2>1, <5>1
        <5>2. CASE ~(n <= m)
          <6>1. n = m + 1
            BY <5>2
          <6> QED BY <5>2, <6>1
        <5> QED BY <5>1, <5>2
      <4> QED BY <4>3, <4>4
    <3> QED BY <3>1, <3>2
  <2>3. f = [n \in 0..m + 1 |-> body(f, n)]
    <3>1. f = [n \in 0..m + 1 |-> f[n]]
      OBVIOUS
    <3> HIDE DEF f, body
    <3> QED BY <2>2, <3>1
  <2> HIDE DEF f, body
  <2> QED BY <2>3
<1> HIDE DEF prefix
<1>4. prefix(top)
  <2>1. SUFFICES ASSUME bad # {} PROVE FALSE
    BY <1>1
  <2>2. bad \in SUBSET Nat
    OBVIOUS
  <2>3. PICK m \in bad : \A n \in bad : m <= n
    BY <2>1, <2>2, LeastNumber
  <2>4. m # 0 /\ m \in Nat
    BY <1>2, <2>3
  <2>5. m - 1 \in Nat /\ m - 1 \notin bad /\ m - 1 + 1 = m
    BY <2>3, <2>4
  <2>6. prefix(m - 1)
    BY <2>5
  <2>7. prefix(m)
    BY <1>3, <2>5, <2>6
  <2> QED BY <2>3, <2>7
<1> DEFINE taken == CHOOSE f : f = [n \in 0..top |-> body(f, n)]
<1>5. Greedy(candidates) = taken[top]
  BY DEF Greedy
<1>6. taken = [n \in 0..top |-> body(taken, n)]
  <2>1. \E f : f = [n \in 0..top |-> body(f, n)]
    BY <1>4 DEF prefix
  <2> HIDE DEF body
  <2> QED BY <2>1
<1> HIDE DEF taken
<1>7. taken[0] = {}
  <2>1. taken[0] = body(taken, 0)
    <3> HIDE DEF body
    <3> QED BY <1>1, <1>6
  <2> QED BY <2>1
<1>8. ASSUME NEW n \in 1..top PROVE taken[n] = Take(taken[n - 1], candidates[n])
  <2>1. taken[n] = body(taken, n)
    <3> HIDE DEF body
    <3> QED BY <1>1, <1>6
  <2> QED BY <2>1 DEF Take
<1> QED BY <1>5, <1>7, <1>8

\* What the loop takes: no two pairs that conflict, and from each pair's conflicts
\* one that came no later.
LEMMA GreedyFacts ==
    ASSUME NEW candidates, candidates \in Seq(Pairs)
    PROVE  /\ \A a, b \in Greedy(candidates) : Conflict(a, b) => a = b
           /\ \A i \in 1..Len(candidates) : \E m \in Greedy(candidates) :
                 /\ Conflict(candidates[i], m)
                 /\ \E j \in 1..i : m = candidates[j]
<1>1. PICK taken :
        /\ Greedy(candidates) = taken[Len(candidates)]
        /\ taken[0] = {}
        /\ \A n \in 1..Len(candidates) : taken[n] = Take(taken[n - 1], candidates[n])
  BY GreedyLoop
<1> DEFINE top == Len(candidates)
           good(n) ==
             /\ \A a, b \in taken[n] : Conflict(a, b) => a = b
             /\ \A m \in taken[n] : \E j \in 1..n : m = candidates[j]
             /\ \A i \in 1..n : \E m \in taken[n] :
                   Conflict(candidates[i], m) /\ \E j \in 1..i : m = candidates[j]
           bad == {n \in Nat : n <= top /\ ~good(n)}
<1>2. top \in Nat
  OBVIOUS
<1>3. good(0)
  BY <1>1
<1>4. ASSUME NEW n \in Nat, n + 1 <= top, good(n) PROVE good(n + 1)
  <2> DEFINE next == candidates[n + 1]
  <2>1. n + 1 \in 1..top /\ (n + 1) - 1 = n
    BY <1>2, <1>4
  <2>2. taken[n + 1] = Take(taken[n], next)
    BY <1>1, <2>1
  <2>3. \A i \in 1..n + 1 : i \in 1..n \/ i = n + 1
    OBVIOUS
  <2>4. \A j \in 1..n : j \in 1..n + 1
    OBVIOUS
  <2>5. \A a, b : Conflict(a, b) <=> Conflict(b, a)
    BY DEF Conflict
  <2>6. Conflict(next, next) /\ n + 1 \in 1..n + 1
    BY DEF Conflict
  <2> HIDE DEF next
  <2>7. CASE \E c \in taken[n] : Conflict(c, next)
    <3>1. taken[n + 1] = taken[n]
      BY <2>2, <2>7 DEF Take
    <3>2. PICK c \in taken[n] : Conflict(next, c)
      BY <2>5, <2>7
    <3>3. \E j \in 1..n + 1 : c = candidates[j]
      BY <1>4, <2>4
    <3>4. \A i \in 1..n + 1 : \E m \in taken[n + 1] :
             Conflict(candidates[i], m) /\ \E j \in 1..i : m = candidates[j]
      BY <1>4, <2>3, <3>1, <3>2, <3>3 DEF next
    <3> QED BY <1>4, <2>4, <3>1, <3>4
  <2>8. CASE ~ \E c \in taken[n] : Conflict(c, next)
    <3>1. taken[n + 1] = taken[n] \cup {next}
      BY <2>2, <2>8 DEF Take
    <3>2. \A a, b \in taken[n + 1] : Conflict(a, b) => a = b
      BY <1>4, <2>5, <2>8, <3>1
    <3>3. \A m \in taken[n + 1] : \E j \in 1..n + 1 : m = candidates[j]
      BY <1>4, <2>4, <2>6, <3>1 DEF next
    <3>4. \A i \in 1..n + 1 : \E m \in taken[n + 1] :
             Conflict(candidates[i], m) /\ \E j \in 1..i : m = candidates[j]
      BY <1>4, <2>3, <2>6, <3>1 DEF next
    <3> QED BY <3>2, <3>3, <3>4
  <2> QED BY <2>7, <2>8
<1> HIDE DEF good
<1>5. good(top)
  <2>1. SUFFICES ASSUME bad # {} PROVE FALSE
    BY <1>2
  <2>2. bad \in SUBSET Nat
    OBVIOUS
  <2>3. PICK m \in bad : \A n \in bad : m <= n
    BY <2>1, <2>2, LeastNumber
  <2>4. m # 0 /\ m \in Nat /\ m <= top
    BY <1>3, <2>3
  <2>5. m - 1 \in Nat /\ m - 1 \notin bad /\ m - 1 + 1 = m /\ m - 1 <= top
    BY <1>2, <2>3, <2>4
  <2>6. good(m - 1)
    BY <2>5
  <2>7. good(m)
    BY <1>4, <2>4, <2>5, <2>6
  <2> QED BY <2>3, <2>7
<1> QED BY <1>1, <1>5 DEF good

\* The loop over sorted pairs makes a stable matching of them.
LEMMA StableMatching ==
    ASSUME NEW scored \in SUBSET Pairs, IsFiniteSet(scored)
    PROVE  LET candidates == Candidates(scored)
               matches == Greedy(candidates)
           IN  /\ \A a, b \in matches : Conflict(a, b) => a = b
               /\ \A c \in {candidates[i] : i \in DOMAIN candidates} : \E m \in matches :
                     Conflict(c, m) /\ m.score >= c.score
<1> DEFINE candidates == Candidates(scored)
<1>1. /\ candidates \in Seq(scored)
      /\ \A i, j \in DOMAIN candidates : i <= j => candidates[i].score >= candidates[j].score
  BY CandidatesFacts
<1> HIDE DEF candidates
<1>2. candidates \in Seq(Pairs) /\ DOMAIN candidates = 1..Len(candidates)
  BY <1>1
<1>3. /\ \A a, b \in Greedy(candidates) : Conflict(a, b) => a = b
      /\ \A i \in 1..Len(candidates) : \E m \in Greedy(candidates) :
            Conflict(candidates[i], m) /\ \E j \in 1..i : m = candidates[j]
  BY <1>2, GreedyFacts
<1>4. ASSUME NEW i \in 1..Len(candidates)
      PROVE  \E m \in Greedy(candidates) : Conflict(candidates[i], m) /\ m.score >= candidates[i].score
  <2>1. PICK m \in Greedy(candidates) :
           Conflict(candidates[i], m) /\ \E j \in 1..i : m = candidates[j]
    BY <1>3
  <2>2. PICK j \in 1..i : m = candidates[j]
    BY <2>1
  <2>3. j \in DOMAIN candidates /\ i \in DOMAIN candidates /\ j <= i
    BY <1>2
  <2>4. candidates[j].score >= candidates[i].score
    BY <1>1, <2>3
  <2> QED BY <2>1, <2>2, <2>4
<1>5. \A c \in {candidates[i] : i \in DOMAIN candidates} : \E m \in Greedy(candidates) :
         Conflict(c, m) /\ m.score >= c.score
  BY <1>2, <1>4
<1> QED BY <1>3, <1>5 DEF candidates

-----------------------------------------------------------------------------
(* What each step does to the variables.                                   *)

\* The fields of the records.
LEMMA InventoryFields ==
    \A i : InventoryTyped(i) =>
       /\ i.root \in {0} \cup Roots /\ i.at \in Nat \ {0} /\ i.found \in SUBSET Sources
       /\ i.dirs \in Seq(Nat) /\ i.refound \in SUBSET Sources /\ i.redirs \in Seq(Nat)
       /\ DOMAIN i.hashed \subseteq Sources /\ \A p \in DOMAIN i.hashed : i.hashed[p] \in Entries
       /\ i.opened \in Entries \cup {None} /\ i.moment \in Seq(Trees)
       /\ i = [root |-> i.root, at |-> i.at, found |-> i.found, dirs |-> i.dirs,
               refound |-> i.refound, redirs |-> i.redirs, hashed |-> i.hashed,
               opened |-> i.opened, moment |-> i.moment]
<1> SUFFICES ASSUME NEW i, InventoryTyped(i)
             PROVE  /\ i.root \in {0} \cup Roots /\ i.at \in Nat \ {0} /\ i.found \in SUBSET Sources
                    /\ i.dirs \in Seq(Nat) /\ i.refound \in SUBSET Sources /\ i.redirs \in Seq(Nat)
                    /\ DOMAIN i.hashed \subseteq Sources
                    /\ \A p \in DOMAIN i.hashed : i.hashed[p] \in Entries
                    /\ i.opened \in Entries \cup {None} /\ i.moment \in Seq(Trees)
                    /\ i = [root |-> i.root, at |-> i.at, found |-> i.found, dirs |-> i.dirs,
                            refound |-> i.refound, redirs |-> i.redirs, hashed |-> i.hashed,
                            opened |-> i.opened, moment |-> i.moment]
  OBVIOUS
<1>1. i \in [root : {0} \cup Roots, at : Nat \ {0}, found : SUBSET Sources,
             dirs : Seq(Nat), refound : SUBSET Sources, redirs : Seq(Nat),
             hashed : {i.hashed}, opened : Entries \cup {None}, moment : Seq(Trees)]
  BY DEF InventoryTyped
<1>2. PartOf(i.hashed, Entries)
  BY DEF InventoryTyped
<1> QED BY <1>1, <1>2 DEF PartOf

\* The other direction.
LEMMA InventoryMade ==
    \A h : PartOf(h, Entries) =>
       \A r \in {0} \cup Roots, n \in Nat \ {0}, f, rf \in SUBSET Sources, d, rd \in Seq(Nat),
          o \in Entries \cup {None}, m \in Seq(Trees) :
          InventoryTyped([root |-> r, at |-> n, found |-> f, dirs |-> d, refound |-> rf,
                          redirs |-> rd, hashed |-> h, opened |-> o, moment |-> m])
BY DEF InventoryTyped

\* The same for the locals of an import.
LEMMA ImportFields ==
    \A i : ImportTyped(i) =>
       /\ i.at \in Nat \ {0} /\ i.listed \in SUBSET Sources
       /\ i.opened \in (Roots \X Entries) \cup {None}
       /\ PartOf(i.replays, Nat) /\ PartOf(i.checked, Nat)
       /\ PartOf(i.described, Nat) /\ PartOf(i.exports, Nat)
       /\ i = [at |-> i.at, listed |-> i.listed, opened |-> i.opened, replays |-> i.replays,
               checked |-> i.checked, described |-> i.described, exports |-> i.exports]
<1> SUFFICES ASSUME NEW i, ImportTyped(i)
             PROVE  /\ i.at \in Nat \ {0} /\ i.listed \in SUBSET Sources
                    /\ i.opened \in (Roots \X Entries) \cup {None}
                    /\ PartOf(i.replays, Nat) /\ PartOf(i.checked, Nat)
                    /\ PartOf(i.described, Nat) /\ PartOf(i.exports, Nat)
                    /\ i = [at |-> i.at, listed |-> i.listed, opened |-> i.opened,
                            replays |-> i.replays, checked |-> i.checked,
                            described |-> i.described, exports |-> i.exports]
  OBVIOUS
<1>1. i \in [at : Nat \ {0}, listed : SUBSET Sources,
             opened : (Roots \X Entries) \cup {None},
             replays : {i.replays}, checked : {i.checked},
             described : {i.described}, exports : {i.exports}]
  BY DEF ImportTyped
<1>2. PartOf(i.replays, Nat) /\ PartOf(i.checked, Nat)
      /\ PartOf(i.described, Nat) /\ PartOf(i.exports, Nat)
  BY DEF ImportTyped, ReadingsTyped
<1> QED BY <1>1, <1>2

\* The other direction.
LEMMA ImportMade ==
    \A r, c, d, e : PartOf(r, Nat) /\ PartOf(c, Nat) /\ PartOf(d, Nat) /\ PartOf(e, Nat) =>
       \A n \in Nat \ {0}, l \in SUBSET Sources, o \in (Roots \X Entries) \cup {None} :
          ImportTyped([at |-> n, listed |-> l, opened |-> o, replays |-> r, checked |-> c,
                       described |-> d, exports |-> e])
BY DEF ImportTyped, ReadingsTyped

\* A partial function with one more value.
LEMMA PartExtended ==
    \A f, values, x, v :
       PartOf(f, values) /\ x \in Sources /\ v \in values => PartOf(Extend(f, x, v), values)
BY DEF PartOf, Extend

\* The empty function is a partial function.
LEMMA EmptyPart ==
    /\ \A values : PartOf(<<>>, values)
    /\ DOMAIN <<>> = {}
BY DEF PartOf

\* At the beginning of a command, and between two of them.
LEMMA NothingTyped == InventoryTyped(NoInventory) /\ ImportTyped(NoImport)
<1>1. NoInventory = [root |-> 0, at |-> 1, found |-> {}, dirs |-> <<>>, refound |-> {},
                     redirs |-> <<>>, hashed |-> <<>>, opened |-> None, moment |-> <<>>]
  BY DEF NoInventory
<1>2. NoImport = [at |-> 1, listed |-> {}, opened |-> None, replays |-> <<>>, checked |-> <<>>,
                  described |-> <<>>, exports |-> <<>>]
  BY DEF NoImport
<1>3. <<>> \in Seq(Nat) /\ <<>> \in Seq(Trees) /\ 1 \in Nat \ {0}
  OBVIOUS
<1>4. InventoryTyped(NoInventory)
  BY <1>1, <1>3, EmptyPart, InventoryMade
<1>5. ImportTyped(NoImport)
  BY <1>2, <1>3, EmptyPart, ImportMade
<1> QED BY <1>4, <1>5

\* The fields of an entry.
LEMMA EntryFacts ==
    /\ \A e \in Entries : e \in [link : BOOLEAN, stamp : Nat, body : Nat] /\ e # None
    /\ \A e \in Entries : e.stamp \in Nat /\ e.body \in Nat
    /\ \A l \in BOOLEAN, s, b \in Nat :
          [link |-> l, stamp |-> s, body |-> b] \in Entries
    /\ \A e \in Entries, s \in Nat :
          /\ [e EXCEPT !.stamp = s] \in Entries
          /\ [e EXCEPT !.stamp = s].stamp = s /\ [e EXCEPT !.stamp = s].body = e.body
BY SourceAssumption DEF Entries

\* The steps of those who change the files.
Download ==
    \/ \E p \in Sources : WriteFile(p) \/ TouchFile(p) \/ RemoveFile(p) \/ LinkFile(p)
    \/ \E d \in Dirs : ReplaceDir(d)
    \/ SwapRoot

\* An entry that took the place of old: a new identity, with new bytes or the old.
Fresh(entry, old) ==
    /\ entry \in Entries /\ entry.stamp = clock + 1
    /\ \/ entry.body = clock + 1
       \/ old # None /\ entry.body = old.body

OnlyFilesChange ==
    /\ UNCHANGED <<kept, command, ran, pc, inventory, expected, import, imported, verdict>>
    /\ clock' = clock + 1
    /\ files' \in [Roots -> Trees] /\ dirId' \in [Roots -> [Dirs -> Nat]]
    /\ \/ root' = root
       \/ root = 1 /\ root' = 2 /\ files' = files
    /\ \A r \in Roots, p \in Sources :
          \/ files'[r][p] = files[r][p]
          \/ r = root /\ (files'[r][p] = None \/ Fresh(files'[r][p], files[r][p]))

\* A change touches files below the root only, and what is new there is newer than
\* all that was there before.
LEMMA DownloadEffect == BundleTypeOK /\ Download => OnlyFilesChange
<1> SUFFICES ASSUME BundleTypeOK, Download PROVE OnlyFilesChange
  OBVIOUS
<1>1. /\ files \in [Roots -> Trees] /\ dirId \in [Roots -> [Dirs -> Nat]]
      /\ root \in Roots /\ clock \in Nat
  BY DEF BundleTypeOK
<1>2. files[root] \in Trees /\ clock + 1 \in Nat
  BY <1>1
<1>3. ASSUME NEW p \in Sources, NEW entry \in Entries \cup {None}, PutEntry(p, entry),
             entry = None \/ Fresh(entry, files[root][p])
      PROVE  OnlyFilesChange
  <2>1. files' = [files EXCEPT ![root] = [files[root] EXCEPT ![p] = entry]]
    BY <1>1, <1>3 DEF PutEntry
  <2>2. [files[root] EXCEPT ![p] = entry] \in Trees
    BY <1>2, <1>3 DEF Trees
  <2>3. files' \in [Roots -> Trees]
    BY <1>1, <2>1, <2>2
  <2>4. \A r \in Roots, q \in Sources :
           files'[r][q] = IF r = root /\ q = p THEN entry ELSE files[r][q]
    BY <1>1, <1>2, <2>1 DEF Trees
  <2>5. \A r \in Roots, q \in Sources :
           \/ files'[r][q] = files[r][q]
           \/ r = root /\ (files'[r][q] = None \/ Fresh(files'[r][q], files[r][q]))
    BY <1>3, <2>4
  <2>6. /\ UNCHANGED <<kept, command, ran, pc, inventory, expected, import, imported, verdict>>
        /\ clock' = clock + 1 /\ dirId' = dirId /\ root' = root
    BY <1>3 DEF PutEntry, Change
  <2> QED BY <1>1, <2>3, <2>5, <2>6 DEF OnlyFilesChange
<1>4. ASSUME NEW p \in Sources, WriteFile(p) PROVE OnlyFilesChange
  <2> DEFINE entry == [link |-> FALSE, stamp |-> clock + 1, body |-> clock + 1]
  <2>1. entry \in Entries /\ entry.stamp = clock + 1 /\ entry.body = clock + 1
    BY <1>2, EntryFacts
  <2>2. PutEntry(p, entry)
    BY <1>4 DEF WriteFile
  <2> HIDE DEF entry
  <2>3. Fresh(entry, files[root][p])
    BY <2>1 DEF Fresh
  <2> QED BY <1>3, <2>1, <2>2, <2>3
<1>5. ASSUME NEW p \in Sources, LinkFile(p) PROVE OnlyFilesChange
  <2> DEFINE entry == [link |-> TRUE, stamp |-> clock + 1, body |-> clock + 1]
  <2>1. entry \in Entries /\ entry.stamp = clock + 1 /\ entry.body = clock + 1
    BY <1>2, EntryFacts
  <2>2. PutEntry(p, entry)
    BY <1>5 DEF LinkFile
  <2> HIDE DEF entry
  <2>3. Fresh(entry, files[root][p])
    BY <2>1 DEF Fresh
  <2> QED BY <1>3, <2>1, <2>2, <2>3
<1>6. ASSUME NEW p \in Sources, TouchFile(p) PROVE OnlyFilesChange
  <2> DEFINE entry == [files[root][p] EXCEPT !.stamp = clock + 1]
  <2>1. files[root][p] \in Entries /\ files[root][p] # None
    BY <1>2, <1>6 DEF TouchFile, Trees
  <2>2. entry \in Entries /\ entry.stamp = clock + 1 /\ entry.body = files[root][p].body
    BY <1>2, <2>1, EntryFacts
  <2>3. PutEntry(p, entry)
    BY <1>6 DEF TouchFile
  <2> HIDE DEF entry
  <2> QED BY <1>3, <2>1, <2>2, <2>3 DEF Fresh
<1>7. ASSUME NEW p \in Sources, RemoveFile(p) PROVE OnlyFilesChange
  BY <1>3, <1>7 DEF RemoveFile
<1>8. ASSUME NEW d \in Dirs, ReplaceDir(d) PROVE OnlyFilesChange
  <2> DEFINE moved(p) == DirOf[p] = d /\ files[root][p] # None
             tree == [p \in Sources |->
                        IF moved(p) THEN [files[root][p] EXCEPT !.stamp = clock + 1]
                        ELSE files[root][p]]
  <2>1. files' = [files EXCEPT ![root] = tree]
    BY <1>1, <1>8 DEF ReplaceDir
  <2>2. \A p \in Sources :
           /\ tree[p] \in Entries \cup {None}
           /\ tree[p] = files[root][p] \/ Fresh(tree[p], files[root][p])
    <3> TAKE p \in Sources
    <3>1. files[root][p] \in Entries \cup {None}
      BY <1>2 DEF Trees
    <3>2. CASE moved(p)
      <4>1. files[root][p] \in Entries /\ tree[p] = [files[root][p] EXCEPT !.stamp = clock + 1]
        BY <3>1, <3>2
      <4>2. tree[p] \in Entries /\ tree[p].stamp = clock + 1 /\ tree[p].body = files[root][p].body
        BY <1>2, <4>1, EntryFacts
      <4> HIDE DEF tree
      <4> QED BY <3>2, <4>2 DEF Fresh
    <3>3. CASE ~moved(p)
      BY <3>1, <3>3
    <3> QED BY <3>2, <3>3
  <2>3. tree = [p \in Sources |-> tree[p]]
    OBVIOUS
  <2> HIDE DEF tree
  <2>4. tree \in Trees
    BY <2>2, <2>3 DEF Trees
  <2>5. files' \in [Roots -> Trees]
    BY <1>1, <2>1, <2>4
  <2>6. \A r \in Roots, q \in Sources :
           files'[r][q] = IF r = root THEN tree[q] ELSE files[r][q]
    BY <1>1, <2>1
  <2>7. dirId' = [dirId EXCEPT ![root] = [dirId[root] EXCEPT ![d] = clock + 1]]
    BY <1>1, <1>8 DEF ReplaceDir
  <2>8. dirId' \in [Roots -> [Dirs -> Nat]]
    BY <1>1, <1>2, <2>7
  <2>9. \A r \in Roots, q \in Sources :
           \/ files'[r][q] = files[r][q]
           \/ r = root /\ (files'[r][q] = None \/ Fresh(files'[r][q], files[r][q]))
    BY <2>2, <2>6
  <2>10. /\ UNCHANGED <<kept, command, ran, pc, inventory, expected, import, imported, verdict>>
         /\ clock' = clock + 1 /\ root' = root
    BY <1>8 DEF ReplaceDir, Change
  <2> QED BY <1>1, <2>5, <2>8, <2>9, <2>10 DEF OnlyFilesChange
<1>9. ASSUME SwapRoot PROVE OnlyFilesChange
  BY <1>1, <1>9 DEF SwapRoot, OnlyFilesChange, Change
<1> QED BY <1>4, <1>5, <1>6, <1>7, <1>8, <1>9 DEF Download

-----------------------------------------------------------------------------
(* The beginning.                                                          *)

\* The first state satisfies the invariant.
LEMMA InitBundle == Init => BundleInv
<1> SUFFICES ASSUME Init PROVE BundleInv
  OBVIOUS
<1>1. PICK original \in Originals :
        files = [r \in Roots |-> [p \in Sources |->
                   IF original[r][p] = 0 THEN None
                   ELSE [link |-> FALSE, stamp |-> 0, body |-> original[r][p]]]]
  BY DEF Init
<1>2. \A r \in Roots, p \in Sources : original[r][p] \in 0..Newest /\ Newest \in Nat
  BY SourceAssumption
<1>3. \A r \in Roots, p \in Sources :
         \/ files[r][p] = None
         \/ /\ files[r][p] \in Entries /\ files[r][p].stamp = 0
            /\ files[r][p].body = original[r][p] /\ original[r][p] # 0
  <2> SUFFICES ASSUME NEW r \in Roots, NEW p \in Sources, original[r][p] # 0
               PROVE  /\ files[r][p] \in Entries /\ files[r][p].stamp = 0
                      /\ files[r][p].body = original[r][p]
    BY <1>1
  <2>1. files[r][p] = [link |-> FALSE, stamp |-> 0, body |-> original[r][p]]
    BY <1>1
  <2>2. original[r][p] \in Nat
    BY <1>2
  <2> DEFINE entry == [link |-> FALSE, stamp |-> 0, body |-> original[r][p]]
  <2>3. entry \in Entries /\ entry.stamp = 0 /\ entry.body = original[r][p]
    BY <2>2, EntryFacts
  <2> QED BY <2>1, <2>3
<1>4. files \in [Roots -> Trees]
  BY <1>1, <1>3 DEF Trees
<1>5. clock = Newest /\ root = 1 /\ clock \in Nat
  BY SourceAssumption DEF Init
<1>6. FilesInv
  BY <1>2, <1>3, <1>5 DEF FilesInv, Known
<1>7. /\ kept = None /\ command = "none" /\ ran = <<>> /\ pc = "idle"
      /\ inventory = NoInventory /\ expected = None /\ import = NoImport
      /\ imported = None /\ verdict = None
  BY DEF Init
<1>8. dirId \in [Roots -> [Dirs -> Nat]]
  BY DEF Init
<1>9. BundleTypeOK
  BY <1>4, <1>5, <1>7, <1>8, NothingTyped DEF BundleTypeOK, Roots, CommandNames
<1>10. CommandInv
  BY <1>7 DEF CommandInv, ImportSteps
<1>11. InventoryInv /\ MomentInv /\ ImportInv
  BY <1>7 DEF InventoryInv, MomentInv, ImportInv, InventorySteps, ImportSteps
<1>12. VerdictExplained /\ MatchesAreStable
  BY <1>7 DEF VerdictExplained, MatchesAreStable
<1> QED BY <1>6, <1>9, <1>10, <1>11, <1>12 DEF BundleInv

-----------------------------------------------------------------------------
(* Changes to the files.                                                   *)

\* What is fresh is none of what was known.
LEMMA FreshIsNew ==
    ASSUME BundleTypeOK, OnlyFilesChange, NEW e \in Entries, Known(e),
           NEW r \in Roots, NEW p \in Sources, files[r][p] # e
    PROVE  files'[r][p] # e
<1>1. clock \in Nat /\ e.stamp \in Nat /\ e.stamp <= clock
  BY EntryFacts DEF BundleTypeOK, Known
<1>2. e # None
  BY EntryFacts
<1>3. CASE files'[r][p] = files[r][p]
  BY <1>3
<1>4. CASE files'[r][p] = None
  BY <1>2, <1>4
<1>5. CASE Fresh(files'[r][p], files[r][p])
  <2>1. files'[r][p].stamp = clock + 1
    BY <1>5 DEF Fresh
  <2> QED BY <1>1, <2>1
<1> QED BY <1>3, <1>4, <1>5 DEF OnlyFilesChange

\* What was known stays known.
LEMMA KnownLater ==
    ASSUME BundleTypeOK, OnlyFilesChange
    PROVE  \A e \in Entries : Known(e) => e.stamp <= clock' /\ e.body \in 1..clock'
<1>1. clock \in Nat /\ clock' = clock + 1
  BY DEF BundleTypeOK, OnlyFilesChange
<1> QED BY <1>1, EntryFacts DEF Known

\* A change of the files preserves the invariant.
LEMMA DownloadKeeps == BundleInv /\ Download => BundleInv'
<1> SUFFICES ASSUME BundleInv, Download PROVE BundleInv'
  OBVIOUS
<1> USE DEF BundleInv
<1>0. OnlyFilesChange
  BY DownloadEffect
<1>1. /\ UNCHANGED <<kept, command, ran, pc, inventory, expected, import, imported, verdict>>
      /\ clock' = clock + 1 /\ clock \in Nat /\ root \in Roots /\ root' \in Roots
      /\ files \in [Roots -> Trees] /\ files' \in [Roots -> Trees]
      /\ dirId' \in [Roots -> [Dirs -> Nat]]
      /\ \/ root' = root
         \/ root = 1 /\ root' = 2 /\ files' = files
  BY <1>0 DEF OnlyFilesChange, BundleTypeOK, Roots
<1>2. BundleTypeOK'
  BY <1>1 DEF BundleTypeOK
<1>3. FilesInv'
  <2>1. (\A r \in Roots, p \in Sources : files[r][p] # None => Known(files[r][p]))'
    <3> SUFFICES ASSUME NEW r \in Roots, NEW p \in Sources, files'[r][p] # None
                 PROVE  files'[r][p].stamp <= clock' /\ files'[r][p].body \in 1..clock'
      BY DEF Known
    <3>0. \A s : s = files[r][p] /\ s # None => s \in Entries /\ Known(s)
      BY <1>1 DEF FilesInv, Trees
    <3>1. CASE files'[r][p] = files[r][p]
      BY <1>0, <3>0, <3>1, KnownLater
    <3>2. CASE Fresh(files'[r][p], files[r][p])
      <4>1. files'[r][p].stamp = clock'
        BY <1>1, <3>2 DEF Fresh
      <4>2. CASE files'[r][p].body = clock + 1
        BY <1>1, <4>1, <4>2
      <4>3. CASE files[r][p] # None /\ files'[r][p].body = files[r][p].body
        <5>1. files[r][p] \in Entries /\ Known(files[r][p])
          BY <3>0, <4>3
        <5>2. files[r][p].body \in 1..clock'
          BY <1>0, <5>1, KnownLater
        <5> QED BY <1>1, <4>1, <4>3, <5>2
      <4> QED BY <3>2, <4>2, <4>3 DEF Fresh
    <3> QED BY <1>0, <3>1, <3>2 DEF OnlyFilesChange
  <2>2. Newest <= clock'
    BY <1>1, SourceAssumption DEF FilesInv
  <2> QED BY <2>1, <2>2 DEF FilesInv
<1>4. CommandInv'
  BY <1>1 DEF CommandInv
<1>5. ASSUME pc \in InventorySteps, NEW p \in DOMAIN inventory.hashed
      PROVE  /\ inventory.hashed[p] \in Entries /\ Known(inventory.hashed[p])
             /\ inventory.root \in Roots /\ p \in Sources
  BY <1>5, InventoryFields DEF BundleTypeOK, InventoryInv
<1>6. InventoryInv'
  <2>1. SUFFICES ASSUME pc \in InventorySteps PROVE InventoryInv'
    BY <1>1 DEF InventoryInv
  <2>2. \A p \in DOMAIN inventory.hashed : Known(inventory.hashed[p])'
    BY <1>0, <1>1, <1>5, <2>1, KnownLater DEF Known
  <2>3. inventory.root <= root'
    BY <1>1, <2>1 DEF InventoryInv, Roots
  <2> QED BY <1>1, <2>2, <2>3 DEF InventoryInv
<1>7. MomentInv'
  <2>1. root' = inventory.root /\ pc \in InventorySteps => root = inventory.root
    BY <1>1 DEF InventoryInv, Roots
  <2>2. ASSUME pc \in {"relist", "assert"}, root' = inventory.root,
               NEW n \in DOMAIN inventory.moment, NEW p \in DOMAIN inventory.hashed
        PROVE  inventory.moment[n][p] = inventory.hashed[p] \/ Tree'[p] # inventory.hashed[p]
    <3>1. pc \in InventorySteps /\ root = inventory.root
      BY <2>1, <2>2 DEF InventorySteps
    <3>2. inventory.moment[n][p] = inventory.hashed[p] \/ Tree[p] # inventory.hashed[p]
      BY <2>2, <3>1 DEF MomentInv
    <3>3. /\ inventory.hashed[p] \in Entries /\ Known(inventory.hashed[p])
          /\ inventory.root \in Roots /\ p \in Sources
      BY <1>5, <3>1
    <3>4. Tree[p] # inventory.hashed[p] => Tree'[p] # inventory.hashed[p]
      BY <1>0, <1>1, <3>3, FreshIsNew DEF Tree
    <3> QED BY <3>2, <3>4
  <2>3. {"relist", "assert", "reopen"} \subseteq InventorySteps
    BY DEF InventorySteps
  <2> QED BY <1>1, <2>1, <2>2, <2>3 DEF MomentInv, PresentIn
<1>8. ImportInv'
  <2>1. Unique' = Unique
    BY <1>1, Zenon DEF Unique
  <2> QED BY <1>1, <2>1 DEF ImportInv
<1>9. VerdictExplained' /\ MatchesAreStable'
  BY <1>1 DEF VerdictExplained, MatchesAreStable
<1> QED BY <1>2, <1>3, <1>4, <1>6, <1>7, <1>8, <1>9

-----------------------------------------------------------------------------
(* The beginning and the end of a command, and the kept receipt.           *)

\* The sets of steps do not overlap.
LEMMA StepNames ==
    /\ "idle" \notin InventorySteps /\ "idle" \notin ImportSteps
    /\ \A s \in {"load", "loaded", "bind"} : s \notin InventorySteps /\ s \notin ImportSteps
    /\ InventorySteps \cap ImportSteps = {}
BY DEF InventorySteps, ImportSteps

\* The conjuncts about the constants of a step hold later when the clock is later.
LEMMA LaterKeeps ==
    ASSUME BundleTypeOK, FilesInv, InventoryInv,
           clock' \in Nat, clock <= clock', UNCHANGED <<treeVars, pc, inventory>>
    PROVE  FilesInv' /\ InventoryInv'
<1>1. files' = files /\ root' = root /\ pc' = pc /\ inventory' = inventory
  BY DEF treeVars
<1>2. \A e \in Entries : Known(e) => e.stamp <= clock' /\ e.body \in 1..clock'
  BY EntryFacts DEF Known, BundleTypeOK
<1>3. FilesInv'
  <2>1. \A r \in Roots, p \in Sources : files[r][p] # None => files[r][p] \in Entries
    BY DEF BundleTypeOK, Trees
  <2>2. Newest <= clock'
    BY SourceAssumption DEF FilesInv, BundleTypeOK
  <2> QED BY <1>1, <1>2, <2>1, <2>2 DEF FilesInv, Known
<1>4. InventoryInv'
  <2>1. \A p \in DOMAIN inventory.hashed : inventory.hashed[p] \in Entries
    BY InventoryFields DEF BundleTypeOK
  <2> QED BY <1>1, <1>2, <2>1 DEF InventoryInv, Known
<1> QED BY <1>3, <1>4

\* Every edit of a receipt has the form of a receipt.
LEMMA EditedPayload ==
    ASSUME NEW old \in Payloads, old.body.files # <<>>,
           NEW payload \in {old, Signed(Reverse(old.body.files)),
                            Signed(Append(old.body.files, Last(old.body.files))),
                            Signed(Tail(old.body.files)),
                            [old EXCEPT !.body.files = Tail(old.body.files)]}
    PROVE  payload \in Payloads
<1> DEFINE list == old.body.files
<1>1. list \in Seq(ListedFiles) /\ list # <<>> /\ old.body \in Unsigned
  BY PayloadFacts
<1> HIDE DEF list
<1>2. Signed(Reverse(list)) \in Payloads
  <2>1. Reverse(list) \in Seq(ListedFiles)
    BY <1>1 DEF Reverse
  <2> QED BY <2>1, SignedFacts
<1>3. Signed(Append(list, Last(list))) \in Payloads
  <2>1. Append(list, Last(list)) \in Seq(ListedFiles)
    BY <1>1 DEF Last
  <2> QED BY <2>1, SignedFacts
<1>4. Tail(list) \in Seq(ListedFiles)
  BY <1>1
<1>5. [old EXCEPT !.body.files = Tail(list)] \in Payloads
  <2>1. [old.body EXCEPT !.files = Tail(list)] \in Unsigned
    BY <1>1, <1>4 DEF Unsigned
  <2> DEFINE new == [old.body EXCEPT !.files = Tail(list)]
  <2>2. [old EXCEPT !.body.files = Tail(list)] = [old EXCEPT !.body = new]
    OBVIOUS
  <2> HIDE DEF new
  <2>3. [old EXCEPT !.body = new] \in Payloads
    BY <2>1 DEF Payloads, new
  <2> QED BY <2>2, <2>3
<1> QED BY <1>2, <1>3, <1>4, <1>5, SignedFacts DEF list

\* An edit of the kept receipt preserves the invariant.
LEMMA EditKeeps == BundleInv /\ EditReceipt => BundleInv'
<1> SUFFICES ASSUME BundleInv, EditReceipt PROVE BundleInv'
  OBVIOUS
<1> USE DEF BundleInv
<1>1. /\ UNCHANGED <<command, ran, pc, inventory, expected, import, imported, verdict>>
      /\ UNCHANGED <<files, dirId, root>>
      /\ clock' = clock + 1 /\ clock \in Nat
  BY DEF EditReceipt, Change, treeVars, BundleTypeOK
<1>2. kept \in KeptReceipts
  BY DEF EditReceipt, BundleTypeOK
<1>3. kept.payload \in Payloads /\ kept.madeBy \in Nat /\ kept.stamp \in Nat
  BY <1>2 DEF KeptReceipts
<1>4. PICK payload \in {kept.payload, Signed(Reverse(kept.payload.body.files)),
                 Signed(Append(kept.payload.body.files, Last(kept.payload.body.files))),
                 Signed(Tail(kept.payload.body.files)),
                 [kept.payload EXCEPT !.body.files = Tail(kept.payload.body.files)]} :
        kept' = [payload |-> payload, stamp |-> clock + 1,
                 madeBy |-> IF payload = kept.payload THEN kept.madeBy ELSE 0]
  BY DEF EditReceipt
<1>5. payload \in Payloads
  <2>1. kept.payload.body.files # <<>>
    BY DEF EditReceipt
  <2> QED BY <1>3, <1>4, <2>1, EditedPayload
<1>6. kept' \in KeptReceipts /\ (kept'.madeBy = kept.madeBy \/ kept'.madeBy = 0)
  <2> DEFINE by == IF payload = kept.payload THEN kept.madeBy ELSE 0
  <2>1. by \in Nat /\ (by = kept.madeBy \/ by = 0)
    BY <1>3
  <2>2. kept' = [payload |-> payload, stamp |-> clock + 1, madeBy |-> by]
    BY <1>4
  <2> HIDE DEF by
  <2> QED BY <1>1, <1>5, <2>1, <2>2 DEF KeptReceipts
<1>7. BundleTypeOK'
  BY <1>1, <1>6 DEF BundleTypeOK
<1>8. FilesInv' /\ InventoryInv'
  BY <1>1, LaterKeeps DEF treeVars
<1>9. CommandInv'
  <2>1. Len(ran) \in Nat
    BY DEF BundleTypeOK
  <2>2. kept # None /\ kept.madeBy <= Len(ran) /\ (pc # "idle" => kept.madeBy < Len(ran))
    BY DEF CommandInv, EditReceipt
  <2>3. kept'.madeBy <= Len(ran) /\ (pc # "idle" => kept'.madeBy < Len(ran))
    BY <1>3, <1>6, <2>1, <2>2
  <2> QED BY <1>1, <2>3 DEF CommandInv
<1>10. MomentInv'
  BY <1>1, Zenon DEF MomentInv, Tree, PresentIn
<1>11. ImportInv'
  <2>1. Unique' = Unique
    BY <1>1, Zenon DEF Unique
  <2> QED BY <1>1, <2>1 DEF ImportInv
<1>12. VerdictExplained' /\ MatchesAreStable'
  BY <1>1 DEF VerdictExplained, MatchesAreStable
<1> QED BY <1>7, <1>8, <1>9, <1>10, <1>11, <1>12

\* Starting a command preserves the invariant.
LEMMA StartKeeps ==
    BundleInv /\ (StartReceipt \/ StartVerification \/ StartImport) => BundleInv'
<1> SUFFICES ASSUME BundleInv, StartReceipt \/ StartVerification \/ StartImport PROVE BundleInv'
  OBVIOUS
<1> USE DEF BundleInv
<1>1. PICK c \in CommandNames :
        /\ pc = "idle" /\ command' = c /\ ran' = Append(ran, c)
        /\ UNCHANGED <<files, dirId, root, clock, kept, imported, inventory, expected, import>>
        /\ verdict' = verdict \/ verdict' = None
        /\ pc' = CASE c = "receipt" -> "bind" [] c = "verify" -> "load" [] c = "import" -> "discover"
  BY DEF StartReceipt, StartVerification, StartImport, Start, treeVars, CommandNames
<1>2. /\ ran \in Seq(CommandNames) /\ ran' \in Seq(CommandNames) /\ Len(ran') = Len(ran) + 1
      /\ Len(ran) \in Nat
  BY <1>1 DEF BundleTypeOK
<1>3. /\ c = "receipt" => pc' = "bind"
      /\ c = "verify" => pc' = "load"
      /\ c = "import" => pc' = "discover"
  BY <1>1
<1>4. c \in {"receipt", "verify", "import"}
  BY <1>1 DEF CommandNames
<1>5. BundleTypeOK'
  BY <1>1, <1>2, <1>3, <1>4 DEF BundleTypeOK, ImportSteps
<1>6. FilesInv'
  BY <1>1 DEF FilesInv, Known
<1>7. CommandInv'
  <2>1. \A n \in Nat : n <= Len(ran) => n < Len(ran') /\ n <= Len(ran')
    BY <1>2
  <2>2. /\ kept # None => kept.madeBy \in Nat
        /\ imported # None => imported.by \in Nat
        /\ verdict # None => verdict.by \in Nat
    BY DEF BundleTypeOK, KeptReceipts
  <2>3. /\ kept # None => kept.madeBy <= Len(ran)
        /\ imported # None => imported.by <= Len(ran)
        /\ verdict # None => verdict.by <= Len(ran)
    BY DEF CommandInv
  <2>4. /\ kept' # None => kept'.madeBy <= Len(ran') /\ (pc' # "idle" => kept'.madeBy < Len(ran'))
        /\ imported' # None =>
             imported'.by <= Len(ran') /\ (pc' # "idle" => imported'.by < Len(ran'))
        /\ verdict' # None =>
             verdict'.by <= Len(ran') /\ (pc' # "idle" => verdict'.by < Len(ran'))
    BY <1>1, <2>1, <2>2, <2>3
  <2> QED BY <1>1, <1>3, <1>4, <2>4 DEF CommandInv, ImportSteps
<1>8. pc' \notin InventorySteps
  BY <1>3, <1>4 DEF InventorySteps
<1>9. InventoryInv' /\ MomentInv'
  BY <1>8 DEF InventoryInv, MomentInv, InventorySteps
<1>10. import = NoImport
  BY <1>1, StepNames DEF CommandInv
<1>11. ImportInv'
  <2>1. imported' # None => DOMAIN imported'.described = DOMAIN imported'.checked
    BY <1>1 DEF ImportInv
  <2>2. SUFFICES ASSUME pc' \in ImportSteps PROVE ImportInv'
    BY <2>1 DEF ImportInv
  <2>3. pc' = "discover" /\ import' = NoImport
    BY <1>1, <1>3, <1>4, <1>10, <2>2, StepNames
  <2>4. /\ NoImport.replays = <<>> /\ NoImport.at = 1 /\ NoImport.listed = {}
        /\ NoImport.exports = <<>> /\ NoImport.checked = <<>> /\ NoImport.described = <<>>
    BY DEF NoImport
  <2>5. 1 <= Len(Walk)
    BY SourceAssumption
  <2> QED BY <2>1, <2>3, <2>4, <2>5, EmptyPart DEF ImportInv
<1>12. VerdictExplained' /\ MatchesAreStable'
  BY <1>1 DEF VerdictExplained, MatchesAreStable
<1> QED BY <1>5, <1>6, <1>7, <1>9, <1>11, <1>12

\* The end of a command preserves the invariant, when what it leaves behind does.
LEMMA EndKeeps ==
    ASSUME BundleInv, pc # "idle", End,
           kept' \in KeptReceipts \cup {None}, kept' # None => kept'.madeBy <= Len(ran),
           imported' # None => /\ ReadingsTyped(imported)' /\ imported'.by \in Nat
                               /\ imported'.by <= Len(ran)
                               /\ DOMAIN imported'.described = DOMAIN imported'.checked,
           verdict' # None => /\ verdict'.receipt \in KeptReceipts /\ verdict'.by \in Nat
                              /\ verdict'.by <= Len(ran),
           VerdictExplained', MatchesAreStable'
    PROVE  BundleInv'
<1> USE DEF BundleInv
<1>1. /\ command' = "none" /\ pc' = "idle" /\ inventory' = NoInventory /\ expected' = None
      /\ import' = NoImport /\ UNCHANGED <<files, dirId, root, clock, ran>>
  BY DEF End, treeVars
<1>2. BundleTypeOK'
  <2>1. InventoryTyped(inventory') /\ ImportTyped(import')
    BY <1>1, NothingTyped
  <2>2. /\ files' \in [Roots -> Trees] /\ dirId' \in [Roots -> [Dirs -> Nat]]
        /\ root' \in Roots /\ clock' \in Nat /\ ran' \in Seq(CommandNames)
    BY <1>1 DEF BundleTypeOK
  <2>3. imported' # None => ReadingsTyped(imported') /\ imported'.by \in Nat
    BY DEF ReadingsTyped, PartOf
  <2> QED BY <1>1, <2>1, <2>2, <2>3 DEF BundleTypeOK
<1>3. FilesInv'
  BY <1>1 DEF FilesInv, Known
<1>4. CommandInv'
  BY <1>1, StepNames DEF CommandInv
<1>5. InventoryInv' /\ MomentInv'
  BY <1>1, StepNames DEF InventoryInv, MomentInv
<1>6. ImportInv'
  BY <1>1, StepNames DEF ImportInv
<1> QED BY <1>2, <1>3, <1>4, <1>5, <1>6

\* A failed command preserves the invariant.
LEMMA FailKeeps == BundleInv /\ pc # "idle" /\ Fail => BundleInv'
<1> SUFFICES ASSUME BundleInv, pc # "idle", Fail PROVE BundleInv'
  OBVIOUS
<1>1. End /\ kept' = kept /\ imported' = imported /\ verdict' = verdict
  BY DEF Fail
<1>2. /\ kept \in KeptReceipts \cup {None} /\ (kept # None => kept.madeBy <= Len(ran))
      /\ imported # None => /\ ReadingsTyped(imported) /\ imported.by \in Nat
                            /\ imported.by <= Len(ran)
                            /\ DOMAIN imported.described = DOMAIN imported.checked
      /\ verdict # None => /\ verdict.receipt \in KeptReceipts /\ verdict.by \in Nat
                           /\ verdict.by <= Len(ran)
  BY DEF BundleInv, BundleTypeOK, CommandInv, ImportInv
<1>3. VerdictExplained' /\ MatchesAreStable'
  BY <1>1 DEF VerdictExplained, MatchesAreStable, BundleInv
<1>4. ReadingsTyped(imported)' <=> ReadingsTyped(imported)
  BY <1>1 DEF ReadingsTyped, PartOf
<1> QED BY <1>1, <1>2, <1>3, <1>4, EndKeeps

\* Reading the kept receipt preserves the invariant.
LEMMA LoadKeeps == BundleInv /\ (OpenReceipt \/ LoadReceipt) => BundleInv'
<1> SUFFICES ASSUME BundleInv, OpenReceipt \/ LoadReceipt PROVE BundleInv'
  OBVIOUS
<1>1. pc # "idle" /\ pc \in {"load", "loaded"}
  BY DEF OpenReceipt, LoadReceipt
<1>2. CASE Fail
  BY <1>1, <1>2, FailKeeps
<1>3. CASE ~Fail
  <2> USE DEF BundleInv
  <2>1. /\ UNCHANGED <<files, dirId, root, clock, kept, command, ran, inventory, import, imported,
                       verdict>>
        /\ expected' \in KeptReceipts /\ expected' # None
        /\ \/ pc' = "loaded"
           \/ pc' = "bind" /\ ValidReceipt(expected.payload) /\ expected' = expected
    <3>1. CASE OpenReceipt
      BY <1>3, <3>1 DEF OpenReceipt, treeVars, BundleTypeOK
    <3>2. CASE LoadReceipt
      <4>1. expected \in KeptReceipts /\ expected # None
        BY <3>2 DEF LoadReceipt, CommandInv
      <4> QED BY <1>3, <3>2, <4>1 DEF LoadReceipt, treeVars
    <3> QED BY <3>1, <3>2
  <2>2. BundleTypeOK'
    BY <2>1 DEF BundleTypeOK
  <2>3. FilesInv'
    BY <2>1 DEF FilesInv, Known
  <2>4. CommandInv'
    <3>1. command = "verify" /\ pc \notin ImportSteps /\ pc' \notin ImportSteps
          /\ pc' \in {"loaded", "bind"} /\ import = NoImport
      BY <1>1, <2>1, StepNames DEF CommandInv
    <3>2. pc' = "bind" => ValidReceipt(expected.payload) /\ expected' = expected
      BY <2>1
    <3> QED BY <1>1, <2>1, <3>1, <3>2 DEF CommandInv
  <2>5. InventoryInv' /\ MomentInv'
    BY <2>1 DEF InventoryInv, MomentInv, InventorySteps
  <2>6. ImportInv'
    BY <2>1 DEF ImportInv, ImportSteps
  <2>7. VerdictExplained' /\ MatchesAreStable'
    BY <2>1 DEF VerdictExplained, MatchesAreStable
  <2> QED BY <2>2, <2>3, <2>4, <2>5, <2>6, <2>7
<1> QED BY <1>2, <1>3

-----------------------------------------------------------------------------
(* The steps of an inventory.                                              *)

\* A step that only continues an inventory preserves the invariant, when the two
\* conjuncts about inventories do hold afterwards.
LEMMA InventoryKeeps ==
    ASSUME BundleInv, pc \notin ImportSteps, pc \notin {"idle", "load", "loaded"},
           UNCHANGED <<treeVars, clock, kept, command, ran, expected, import, imported, verdict>>,
           InventoryTyped(inventory'), pc' \in InventorySteps,
           pc' = "print" => command = "receipt", pc' = "compare" => command = "verify",
           InventoryInv', MomentInv'
    PROVE  BundleInv'
<1> USE DEF BundleInv
<1>1. UNCHANGED <<files, dirId, root, clock, kept, command, ran, expected, import, imported, verdict>>
  BY DEF treeVars
<1>2. BundleTypeOK'
  BY <1>1 DEF BundleTypeOK
<1>3. FilesInv'
  BY <1>1 DEF FilesInv, Known
<1>4. pc' \notin ImportSteps /\ pc' \notin {"idle", "load", "loaded"}
  BY StepNames
<1>5. CommandInv'
  BY <1>1, <1>4 DEF CommandInv
<1>6. ImportInv'
  BY <1>1, <1>4 DEF ImportInv
<1>7. VerdictExplained' /\ MatchesAreStable'
  BY <1>1 DEF VerdictExplained, MatchesAreStable
<1> QED BY <1>2, <1>3, <1>5, <1>6, <1>7

\* What the steps of an inventory rely on.
LEMMA InventoryFacts ==
    ASSUME BundleInv
    PROVE  /\ inventory = [root |-> inventory.root, at |-> inventory.at, found |-> inventory.found,
                           dirs |-> inventory.dirs, refound |-> inventory.refound,
                           redirs |-> inventory.redirs, hashed |-> inventory.hashed,
                           opened |-> inventory.opened, moment |-> inventory.moment]
           /\ inventory.root \in {0} \cup Roots /\ inventory.at \in Nat \ {0}
           /\ inventory.found \in SUBSET Sources /\ inventory.refound \in SUBSET Sources
           /\ inventory.dirs \in Seq(Nat) /\ inventory.redirs \in Seq(Nat)
           /\ PartOf(inventory.hashed, Entries) /\ inventory.moment \in Seq(Trees)
           /\ DOMAIN inventory.hashed \subseteq Sources
           /\ inventory.opened \in Entries \cup {None}
           /\ root \in Roots /\ files \in [Roots -> Trees] /\ dirId \in [Roots -> [Dirs -> Nat]]
           /\ clock \in Nat
           /\ Walk \in Seq(Dirs) /\ Len(Walk) \in Nat /\ 1 <= Len(Walk) /\ DOMAIN Walk = 1..Len(Walk)
<1>1. InventoryTyped(inventory)
  BY DEF BundleInv, BundleTypeOK
<1>2. PartOf(inventory.hashed, Entries)
  BY <1>1 DEF InventoryTyped
<1>3. Walk \in Seq(Dirs) /\ Len(Walk) \in Nat /\ 1 <= Len(Walk) /\ DOMAIN Walk = 1..Len(Walk)
  BY SourceAssumption
<1>4. root \in Roots /\ files \in [Roots -> Trees] /\ dirId \in [Roots -> [Dirs -> Nat]]
      /\ clock \in Nat
  BY DEF BundleInv, BundleTypeOK
<1> QED BY <1>1, <1>2, <1>3, <1>4, InventoryFields

\* The configured path is opened.
LEMMA BindKeeps == BundleInv /\ BindRoot => BundleInv'
<1> SUFFICES ASSUME BundleInv, BindRoot PROVE BundleInv'
  OBVIOUS
<1>1. /\ pc = "bind" /\ pc' = "list" /\ inventory' = [NoInventory EXCEPT !.root = root]
      /\ UNCHANGED <<treeVars, clock, kept, command, ran, expected, import, imported, verdict>>
  BY DEF BindRoot, Inventory
<1>2. /\ inventory' = [root |-> root, at |-> 1, found |-> {}, dirs |-> <<>>, refound |-> {},
                       redirs |-> <<>>, hashed |-> <<>>, opened |-> None, moment |-> <<>>]
      /\ root' = root /\ root \in Roots
  BY <1>1 DEF NoInventory, treeVars, BundleInv, BundleTypeOK
<1>3. <<>> \in Seq(Nat) /\ <<>> \in Seq(Trees) /\ 1 \in Nat \ {0}
  OBVIOUS
<1>4. InventoryTyped(inventory')
  BY <1>2, <1>3, EmptyPart, InventoryMade
<1>5. InventoryInv'
  <2>1. /\ inventory'.root = root /\ inventory'.at = 1 /\ inventory'.found = {}
        /\ inventory'.refound = {} /\ inventory'.moment = <<>> /\ DOMAIN inventory'.hashed = {}
    BY <1>2, EmptyPart
  <2>2. root <= root' /\ root \in Roots /\ 1 <= Len(Walk)
    BY <1>2, InventoryFacts DEF Roots
  <2> QED BY <1>1, <2>1, <2>2 DEF InventoryInv
<1>6. MomentInv'
  BY <1>1 DEF MomentInv
<1>7. pc' \in InventorySteps /\ pc \notin ImportSteps
  BY <1>1, StepNames DEF InventorySteps
<1> QED BY <1>1, <1>4, <1>5, <1>6, <1>7, InventoryKeeps

\* One directory is listed.
LEMMA ListKeeps == BundleInv /\ ListDirectory => BundleInv'
<1> SUFFICES ASSUME BundleInv, ListDirectory PROVE BundleInv'
  OBVIOUS
<1>1. pc = "list" /\ pc \in InventorySteps /\ pc \notin ImportSteps
  BY StepNames DEF ListDirectory, InventorySteps
<1>2. CASE Fail
  BY <1>1, <1>2, FailKeeps
<1>3. CASE ~Fail
  <2> DEFINE i == inventory
             d == Walk[i.at]
             found == i.found \cup PresentIn(Tree, d)
             dirs == Append(i.dirs, dirId[i.root][d])
             more == i.at < Len(Walk)
  <2>1. /\ UNCHANGED <<treeVars, clock, kept, command, ran, expected, import, imported, verdict>>
        /\ more => inventory' = [inventory EXCEPT !.at = i.at + 1, !.found = found, !.dirs = dirs]
                   /\ pc' = "list"
        /\ ~more => inventory' = [inventory EXCEPT !.at = 1, !.found = found, !.dirs = dirs]
                    /\ pc' = IF found = {} THEN "relist" ELSE "open"
    BY <1>3 DEF ListDirectory, Inventory
  <2>2. /\ i.root \in Roots /\ i.root <= root /\ i.at \in 1..Len(Walk)
        /\ DOMAIN i.hashed = {} /\ i.moment = <<>> /\ i.refound = {}
    BY <1>1, InventoryFacts DEF InventoryInv, BundleInv
  <2>3. found \in SUBSET Sources /\ dirs \in Seq(Nat)
    <3>1. d \in Dirs /\ dirId[i.root][d] \in Nat
      BY <2>2, InventoryFacts
    <3> QED BY <3>1, InventoryFacts DEF PresentIn
  <2> HIDE DEF found, dirs, d
  <2>4. /\ inventory' = [root |-> i.root, at |-> IF more THEN i.at + 1 ELSE 1, found |-> found,
                         dirs |-> dirs, refound |-> i.refound, redirs |-> i.redirs,
                         hashed |-> i.hashed, opened |-> i.opened, moment |-> i.moment]
    BY <2>1, InventoryFacts
  <2>5. (IF more THEN i.at + 1 ELSE 1) \in Nat \ {0}
        /\ (IF more THEN i.at + 1 ELSE 1) <= Len(Walk)
    BY <2>2, InventoryFacts
  <2>6. InventoryTyped(inventory')
    BY <2>3, <2>4, <2>5, InventoryFacts, InventoryMade
  <2>7. root' = root
    BY <2>1 DEF treeVars
  <2>8. /\ inventory'.root = i.root /\ inventory'.found = found /\ inventory'.hashed = i.hashed
        /\ inventory'.moment = <<>> /\ inventory'.refound = {} /\ inventory'.at <= Len(Walk)
        /\ ~more => inventory'.at = 1
    BY <2>2, <2>4, <2>5
  <2>9. /\ pc' \in {"list", "relist", "open"}
        /\ pc' = "relist" => ~more /\ found = {}
        /\ pc' = "open" => ~more /\ found # {}
    BY <2>1
  <2>10. InventoryInv'
    <3>1. Len(<<>>) = 1 - 1
      OBVIOUS
    <3> QED BY <2>2, <2>7, <2>8, <2>9, <3>1 DEF InventoryInv
  <2>11. MomentInv'
    BY <2>2, <2>8, <2>9 DEF MomentInv
  <2>12. pc' \in InventorySteps /\ pc' \notin {"print", "compare"}
    BY <2>9 DEF InventorySteps
  <2> QED BY <1>1, <2>1, <2>6, <2>10, <2>11, <2>12, InventoryKeeps
<1> QED BY <1>2, <1>3

\* The next source to be hashed is one that was found.
LEMMA NextSourceIn ==
    ASSUME BundleInv, pc \in {"open", "hash"}
    PROVE  NextSource \in inventory.found /\ NextSource \notin DOMAIN inventory.hashed
           /\ NextSource \in Sources
<1>1. /\ DOMAIN inventory.hashed \subseteq inventory.found /\ DOMAIN inventory.hashed # inventory.found
      /\ inventory.found \subseteq Sources
  BY InventoryFacts DEF BundleInv, InventoryInv, InventorySteps
<1>2. inventory.found \ DOMAIN inventory.hashed \in SUBSET Sources
      /\ inventory.found \ DOMAIN inventory.hashed # {}
  BY <1>1
<1>3. NextSource \in inventory.found \ DOMAIN inventory.hashed
  BY <1>2, FirstIn DEF NextSource
<1> QED BY <1>1, <1>3

\* A source is opened.
LEMMA OpenSourceKeeps == BundleInv /\ OpenSource => BundleInv'
<1> SUFFICES ASSUME BundleInv, OpenSource PROVE BundleInv'
  OBVIOUS
<1>1. pc = "open" /\ pc \in InventorySteps /\ pc \notin ImportSteps
  BY StepNames DEF OpenSource, InventorySteps
<1>2. CASE Fail
  BY <1>1, <1>2, FailKeeps
<1>3. CASE ~Fail
  <2> DEFINE i == inventory
             p == NextSource
  <2>1. /\ UNCHANGED <<treeVars, clock, kept, command, ran, expected, import, imported, verdict>>
        /\ inventory' = [inventory EXCEPT !.opened = Tree[p]] /\ pc' = "hash" /\ Tree[p] # None
    BY <1>3 DEF OpenSource, Inventory
  <2>2. /\ i.root \in Roots /\ i.root <= root /\ i.at = 1 /\ i.moment = <<>> /\ i.refound = {}
        /\ DOMAIN i.hashed \subseteq i.found /\ DOMAIN i.hashed # i.found
        /\ \A q \in DOMAIN i.hashed : Known(i.hashed[q])
    BY <1>1 DEF InventoryInv, BundleInv
  <2>3. Tree[p] \in Entries
    <3>1. Tree \in Trees
      BY <2>2, InventoryFacts DEF Tree
    <3> QED BY <1>1, <2>1, <3>1, NextSourceIn DEF Trees
  <2> HIDE DEF p
  <2>4. inventory' = [root |-> i.root, at |-> i.at, found |-> i.found,
                      dirs |-> i.dirs, refound |-> i.refound, redirs |-> i.redirs,
                      hashed |-> i.hashed, opened |-> Tree[p], moment |-> i.moment]
    BY <2>1, InventoryFacts
  <2>5. InventoryTyped(inventory')
    BY <2>3, <2>4, InventoryFacts, InventoryMade
  <2>6. root' = root /\ clock' = clock
    BY <2>1 DEF treeVars
  <2>7. /\ inventory'.root = i.root /\ inventory'.found = i.found /\ inventory'.hashed = i.hashed
        /\ inventory'.moment = <<>> /\ inventory'.refound = {} /\ inventory'.at = 1
        /\ inventory'.opened \in Entries
    BY <2>2, <2>3, <2>4
  <2>8. InventoryInv'
    BY <2>1, <2>2, <2>6, <2>7 DEF InventoryInv, Known
  <2>9. MomentInv'
    BY <2>1 DEF MomentInv
  <2>10. pc' \in InventorySteps /\ pc' \notin {"print", "compare"}
    BY <2>1 DEF InventorySteps
  <2> QED BY <1>1, <2>1, <2>5, <2>8, <2>9, <2>10, InventoryKeeps
<1> QED BY <1>2, <1>3

\* A source was read to its end.
LEMMA HashSourceKeeps == BundleInv /\ HashSource => BundleInv'
<1> SUFFICES ASSUME BundleInv, HashSource PROVE BundleInv'
  OBVIOUS
<1>1. pc = "hash" /\ pc \in InventorySteps /\ pc \notin ImportSteps
  BY StepNames DEF HashSource, InventorySteps
<1>2. CASE Fail
  BY <1>1, <1>2, FailKeeps
<1>3. CASE ~Fail
  <2> DEFINE i == inventory
             p == NextSource
             hashed == Extend(i.hashed, p, i.opened)
  <2>1. /\ UNCHANGED <<treeVars, clock, kept, command, ran, expected, import, imported, verdict>>
        /\ inventory' = [inventory EXCEPT !.hashed = hashed, !.opened = None]
        /\ pc' = IF DOMAIN hashed = i.found THEN "relist" ELSE "open"
        /\ Tree[p] = i.opened
    BY <1>3 DEF HashSource, Inventory
  <2>2. /\ i.root \in Roots /\ i.root <= root /\ i.at = 1 /\ i.moment = <<>> /\ i.refound = {}
        /\ DOMAIN i.hashed \subseteq i.found /\ DOMAIN i.hashed # i.found
        /\ \A q \in DOMAIN i.hashed : Known(i.hashed[q])
        /\ i.opened \in Entries
    BY <1>1 DEF InventoryInv, BundleInv
  <2>3. p \in i.found /\ p \in Sources /\ p \notin DOMAIN i.hashed
    BY <1>1, NextSourceIn
  <2> HIDE DEF p
  <2>4. Known(i.opened)
    <3>1. Tree[p] # None
      BY <2>1, <2>2, EntryFacts
    <3> QED BY <2>1, <2>2, <2>3, <3>1 DEF BundleInv, FilesInv, Tree
  <2>5. /\ PartOf(hashed, Entries) /\ DOMAIN hashed = DOMAIN i.hashed \cup {p}
        /\ \A q \in DOMAIN hashed : hashed[q] = IF q = p THEN i.opened ELSE i.hashed[q]
    <3>1. PartOf(hashed, Entries)
      BY <2>2, <2>3, InventoryFacts, PartExtended
    <3>2. /\ DOMAIN hashed = DOMAIN i.hashed \cup {p} /\ hashed[p] = i.opened
          /\ \A q \in DOMAIN i.hashed : q # p => hashed[q] = i.hashed[q]
      BY DEF Extend
    <3> HIDE DEF hashed
    <3> QED BY <3>1, <3>2
  <2> HIDE DEF hashed
  <2>6. inventory' = [root |-> i.root, at |-> i.at, found |-> i.found,
                      dirs |-> i.dirs, refound |-> i.refound, redirs |-> i.redirs,
                      hashed |-> hashed, opened |-> None, moment |-> i.moment]
    BY <2>1, InventoryFacts
  <2>7. InventoryTyped(inventory')
    BY <2>5, <2>6, InventoryFacts, InventoryMade
  <2>8. root' = root /\ clock' = clock
    BY <2>1 DEF treeVars
  <2>9. /\ inventory'.root = i.root /\ inventory'.found = i.found /\ inventory'.hashed = hashed
        /\ inventory'.moment = <<>> /\ inventory'.refound = {} /\ inventory'.at = 1
    BY <2>2, <2>6
  <2>10. \A q \in DOMAIN hashed : Known(hashed[q])
    BY <2>2, <2>4, <2>5
  <2>11. /\ pc' \in {"relist", "open"}
         /\ pc' = "relist" <=> DOMAIN hashed = i.found
    BY <2>1
  <2>12. InventoryInv'
    <3>1. 1 <= Len(Walk) /\ Len(<<>>) = 1 - 1
      BY InventoryFacts
    <3>2. DOMAIN hashed \subseteq i.found
      BY <2>2, <2>3, <2>5
    <3> QED BY <2>2, <2>8, <2>9, <2>10, <2>11, <3>1, <3>2 DEF InventoryInv, Known
  <2>13. MomentInv'
    BY <2>9, <2>11 DEF MomentInv
  <2>14. pc' \in InventorySteps /\ pc' \notin {"print", "compare"}
    BY <2>11 DEF InventorySteps
  <2> QED BY <1>1, <2>1, <2>7, <2>12, <2>13, <2>14, InventoryKeeps
<1> QED BY <1>2, <1>3

\* What one directory of the second inventory changes.
LEMMA RelistRecord ==
    ASSUME NEW i, InventoryTyped(i), NEW rf, NEW rd, NEW m, NEW j,
           j = [i EXCEPT !.refound = rf, !.redirs = rd, !.moment = m]
    PROVE  j = [root |-> i.root, at |-> i.at, found |-> i.found, dirs |-> i.dirs,
                refound |-> rf, redirs |-> rd, hashed |-> i.hashed, opened |-> i.opened,
                moment |-> m]
<1>1. i = [root |-> i.root, at |-> i.at, found |-> i.found, dirs |-> i.dirs,
           refound |-> i.refound, redirs |-> i.redirs, hashed |-> i.hashed,
           opened |-> i.opened, moment |-> i.moment]
  BY InventoryFields
<1> QED BY <1>1

\* One directory is listed again.
LEMMA RelistKeeps == BundleInv /\ RelistDirectory => BundleInv'
<1> SUFFICES ASSUME BundleInv, RelistDirectory PROVE BundleInv'
  OBVIOUS
<1>1. pc = "relist" /\ pc \in InventorySteps /\ pc \notin ImportSteps
  BY StepNames DEF RelistDirectory, InventorySteps
<1>2. CASE Fail
  BY <1>1, <1>2, FailKeeps
<1>3. CASE ~Fail
  <2> DEFINE i == inventory
             d == Walk[i.at]
             refound == i.refound \cup PresentIn(Tree, d)
             redirs == Append(i.redirs, dirId[i.root][d])
             moment == Append(i.moment, files[root])
             more == i.at < Len(Walk)
             step == [inventory EXCEPT !.refound = refound, !.redirs = redirs, !.moment = moment]
  <2>1. /\ UNCHANGED <<treeVars, clock, kept, command, ran, expected, import, imported, verdict>>
        /\ more => inventory' = [step EXCEPT !.at = @ + 1] /\ pc' = "relist"
        /\ ~more => /\ step.refound = step.found
                    /\ inventory' = [step EXCEPT !.at = 1, !.refound = {}, !.redirs = <<>>]
                    /\ pc' = IF step.found = {} THEN "reopen" ELSE "assert"
    BY <1>3 DEF RelistDirectory, Inventory
  <2>2. /\ i.root \in Roots /\ i.root <= root /\ i.at \in 1..Len(Walk)
        /\ DOMAIN i.hashed = i.found /\ Len(i.moment) = i.at - 1
        /\ \A q \in DOMAIN i.hashed : Known(i.hashed[q])
    BY <1>1, InventoryFacts DEF InventoryInv, BundleInv
  <2>3. d \in Dirs /\ dirId[i.root][d] \in Nat
    BY <2>2, InventoryFacts
  <2>4. refound \in SUBSET Sources /\ redirs \in Seq(Nat)
    BY <2>3, InventoryFacts DEF PresentIn
  <2>5. /\ moment \in Seq(Trees) /\ Len(moment) = i.at
        /\ \A n \in 1..i.at - 1 : moment[n] = i.moment[n]
        /\ moment[i.at] = files[root]
    BY <2>2, InventoryFacts
  <2>6. d = Walk[i.at]
    OBVIOUS
  <2>7. \A p : p \in refound <=> p \in i.refound \/ p \in PresentIn(Tree, d)
    OBVIOUS
  <2> HIDE DEF refound, redirs, d, moment
  <2>8. /\ step = [root |-> i.root, at |-> i.at, found |-> i.found,
                   dirs |-> i.dirs, refound |-> refound, redirs |-> redirs,
                   hashed |-> i.hashed, opened |-> i.opened, moment |-> moment]
    <3>1. InventoryTyped(inventory)
      BY DEF BundleInv, BundleTypeOK
    <3> QED BY <3>1, RelistRecord
  <2>9. more => inventory' = [root |-> i.root, at |-> i.at + 1, found |-> i.found,
                   dirs |-> i.dirs, refound |-> refound, redirs |-> redirs,
                   hashed |-> i.hashed, opened |-> i.opened, moment |-> moment]
    BY <2>1, <2>8
  <2>10. ~more => /\ inventory' = [root |-> i.root, at |-> 1, found |-> i.found,
                       dirs |-> i.dirs, refound |-> {}, redirs |-> <<>>,
                       hashed |-> i.hashed, opened |-> i.opened, moment |-> moment]
                  /\ refound = i.found
                  /\ pc' = IF i.found = {} THEN "reopen" ELSE "assert"
    BY <2>1, <2>8
  <2> HIDE DEF step
  <2>11. InventoryTyped(inventory')
    <3>1. i.at + 1 \in Nat \ {0} /\ 1 \in Nat \ {0} /\ <<>> \in Seq(Nat) /\ {} \in SUBSET Sources
      BY InventoryFacts
    <3>2. /\ PartOf(i.hashed, Entries) /\ i.root \in {0} \cup Roots /\ i.found \in SUBSET Sources
          /\ i.dirs \in Seq(Nat) /\ i.opened \in Entries \cup {None}
      BY InventoryFacts
    <3>3. InventoryTyped([root |-> i.root, at |-> i.at + 1, found |-> i.found,
             dirs |-> i.dirs, refound |-> refound, redirs |-> redirs,
             hashed |-> i.hashed, opened |-> i.opened, moment |-> moment])
      BY <2>4, <2>5, <3>1, <3>2, InventoryMade
    <3>4. InventoryTyped([root |-> i.root, at |-> 1, found |-> i.found,
             dirs |-> i.dirs, refound |-> {}, redirs |-> <<>>,
             hashed |-> i.hashed, opened |-> i.opened, moment |-> moment])
      BY <2>4, <2>5, <3>1, <3>2, InventoryMade
    <3> HIDE DEF i
    <3> QED BY <2>9, <2>10, <3>3, <3>4
  <2>12. root' = root /\ clock' = clock /\ files' = files
    BY <2>1 DEF treeVars
  <2>13. /\ inventory'.root = i.root /\ inventory'.found = i.found /\ inventory'.hashed = i.hashed
         /\ inventory'.moment = moment
         /\ more => inventory'.at = i.at + 1 /\ inventory'.refound = refound /\ pc' = "relist"
         /\ ~more => inventory'.at = 1 /\ pc' \in {"assert", "reopen"}
         /\ pc' = "assert" => i.found # {}
    BY <2>1, <2>9, <2>10
  <2> DEFINE now == root = i.root
  <2>14. ASSUME now
         PROVE  \A p \in Sources : p \in refound <=>
                   \E n \in 1..i.at : Walk[n] = DirOf[p] /\ moment[n][p] # None
    <3> TAKE p \in Sources
    <3>1. p \in i.refound <=> \E n \in DOMAIN i.moment : Walk[n] = DirOf[p] /\ i.moment[n][p] # None
      BY <1>1, <2>14 DEF BundleInv, MomentInv
    <3>2. DOMAIN i.moment = 1..i.at - 1
      BY <2>2, InventoryFacts
    <3>3. p \in PresentIn(Tree, d) <=> Walk[i.at] = DirOf[p] /\ moment[i.at][p] # None
      BY <2>5, <2>6, <2>14 DEF PresentIn, Tree
    <3>4. \A n : n \in 1..i.at <=> n \in 1..i.at - 1 \/ n = i.at
      BY <2>2
    <3> QED BY <2>5, <2>7, <3>1, <3>2, <3>3, <3>4
  <2>15. ASSUME now
         PROVE  \A n \in 1..i.at, p \in DOMAIN i.hashed :
                   moment[n][p] = i.hashed[p] \/ Tree[p] # i.hashed[p]
    <3>1. \A n \in DOMAIN i.moment, p \in DOMAIN i.hashed :
             i.moment[n][p] = i.hashed[p] \/ Tree[p] # i.hashed[p]
      BY <1>1, <2>15 DEF BundleInv, MomentInv
    <3>2. DOMAIN i.moment = 1..i.at - 1
      BY <2>2, InventoryFacts
    <3>3. moment[i.at] = Tree
      BY <2>5, <2>15 DEF Tree
    <3>4. \A n \in 1..i.at : n \in 1..i.at - 1 \/ n = i.at
      BY <2>2
    <3> QED BY <2>5, <3>1, <3>2, <3>3, <3>4
  <2>16. InventoryInv'
    <3>1. CASE more
      <4>1. i.at + 1 <= Len(Walk) /\ Len(moment) = (i.at + 1) - 1
        BY <2>2, <2>5, <3>1, InventoryFacts
      <4> QED BY <2>2, <2>12, <2>13, <3>1, <4>1 DEF InventoryInv, Known
    <3>2. CASE ~more
      <4>1. Len(moment) = Len(Walk)
        BY <2>2, <2>5, <3>2, InventoryFacts
      <4>2. i.found # {} => 1 <= Len(Canonical(i.found))
        <5>1. IsFiniteSet(i.found)
          BY FiniteSources, FS_Subset, InventoryFacts
        <5>2. i.found # {} => Cardinality(i.found) # 0 /\ Cardinality(i.found) \in Nat
          BY <5>1, FS_EmptySet, FS_CardinalityType
        <5> QED BY <5>2, CanonicalSeq, InventoryFacts
      <4> QED BY <2>2, <2>12, <2>13, <3>2, <4>1, <4>2 DEF InventoryInv, Known
    <3> QED BY <3>1, <3>2
  <2>17. MomentInv'
    <3>1. DOMAIN moment = 1..i.at
      BY <2>5, InventoryFacts
    <3>2. Tree' = Tree
      BY <2>12, <2>13 DEF Tree
    <3>3. CASE more
      BY <2>12, <2>13, <2>14, <2>15, <3>1, <3>2, <3>3 DEF MomentInv
    <3>4. CASE ~more
      <4>1. i.at = Len(Walk)
        BY <2>2, <3>4, InventoryFacts
      <4>2. ASSUME now, NEW n \in 1..i.at
            PROVE  PresentIn(moment[n], Walk[n]) = {p \in DOMAIN i.hashed : DirOf[p] = Walk[n]}
        <5>1. ASSUME NEW p \in Sources
              PROVE  p \in DOMAIN i.hashed <=>
                        \E m \in 1..i.at : Walk[m] = DirOf[p] /\ moment[m][p] # None
          BY <2>2, <2>10, <2>14, <3>4, <4>2
        <5>2. \A m \in 1..i.at : Walk[m] = Walk[n] => m = n
          BY <4>1, InventoryFacts, SourceAssumption DEF IsInjective
        <5>3. ASSUME NEW p \in Sources, DirOf[p] = Walk[n]
              PROVE  p \in DOMAIN i.hashed <=> moment[n][p] # None
          BY <5>1, <5>2, <5>3
        <5>4. DOMAIN i.hashed \subseteq Sources
          BY InventoryFacts
        <5> QED BY <5>3, <5>4 DEF PresentIn
      <4>3. i.found = {} \/ pc' = "assert"
        BY <2>1, <2>10, <3>4
      <4>4. pc' \in {"assert", "reopen"} /\ inventory'.at = 1 /\ 1..1 - 1 = {}
        BY <2>13, <3>4
      <4> QED BY <2>2, <2>12, <2>13, <2>15, <3>1, <3>2, <3>4, <4>2, <4>3, <4>4 DEF MomentInv
    <3> QED BY <3>3, <3>4
  <2>18. pc' \in InventorySteps /\ pc' \notin {"print", "compare"}
    BY <2>13 DEF InventorySteps
  <2> QED BY <1>1, <2>1, <2>11, <2>16, <2>17, <2>18, InventoryKeeps
<1> QED BY <1>2, <1>3

\* A hashed source is looked up again.
LEMMA AssertKeeps == BundleInv /\ AssertSource => BundleInv'
<1> SUFFICES ASSUME BundleInv, AssertSource PROVE BundleInv'
  OBVIOUS
<1>1. pc = "assert" /\ pc \in InventorySteps /\ pc \notin ImportSteps
  BY StepNames DEF AssertSource, InventorySteps
<1>2. CASE Fail
  BY <1>1, <1>2, FailKeeps
<1>3. CASE ~Fail
  <2> DEFINE i == inventory
             order == Canonical(i.found)
             last == i.at = Len(order)
  <2>1. /\ UNCHANGED <<treeVars, clock, kept, command, ran, expected, import, imported, verdict>>
        /\ inventory' = [inventory EXCEPT !.at = i.at + 1]
        /\ pc' = IF last THEN "reopen" ELSE "assert"
        /\ Tree[order[i.at]] = i.hashed[order[i.at]]
    BY <1>3 DEF AssertSource, Inventory, Unchanged
  <2>2. /\ i.root \in Roots /\ i.root <= root /\ i.at <= Len(order)
        /\ DOMAIN i.hashed = i.found /\ Len(i.moment) = Len(Walk)
        /\ \A q \in DOMAIN i.hashed : Known(i.hashed[q])
    BY <1>1 DEF InventoryInv, BundleInv
  <2>3. /\ order \in Seq(i.found) /\ DOMAIN order = 1..Len(order) /\ Len(order) \in Nat
        /\ \A p \in i.found : \E k \in 1..Len(order) : order[k] = p
    <3>1. i.found \in SUBSET Sources
      BY InventoryFacts
    <3> QED BY <3>1, CanonicalFacts, CanonicalSeq
  <2>4. i.at \in 1..Len(order) /\ i.at + 1 \in Nat \ {0} /\ (~last => i.at + 1 <= Len(order))
    BY <2>2, <2>3, InventoryFacts
  <2>5. order[i.at] \in DOMAIN i.hashed
    BY <2>2, <2>3, <2>4
  <2>6. inventory' = [root |-> i.root, at |-> i.at + 1, found |-> i.found,
                      dirs |-> i.dirs, refound |-> i.refound, redirs |-> i.redirs,
                      hashed |-> i.hashed, opened |-> i.opened, moment |-> i.moment]
    BY <2>1, InventoryFacts
  <2>7. InventoryTyped(inventory')
    BY <2>4, <2>6, InventoryFacts, InventoryMade
  <2>8. root' = root /\ clock' = clock /\ files' = files
    BY <2>1 DEF treeVars
  <2>9. /\ inventory'.root = i.root /\ inventory'.found = i.found /\ inventory'.hashed = i.hashed
        /\ inventory'.moment = i.moment /\ inventory'.at = i.at + 1
    BY <2>6
  <2>10. /\ pc' \in {"assert", "reopen"}
         /\ pc' = "assert" => ~last
         /\ pc' = "reopen" => last
    BY <2>1
  <2>11. InventoryInv'
    BY <2>2, <2>4, <2>8, <2>9, <2>10 DEF InventoryInv, Known
  <2> HIDE DEF last
  <2>12. ASSUME root = i.root
         PROVE  \A n \in DOMAIN i.moment, k \in 1..i.at : i.moment[n][order[k]] = i.hashed[order[k]]
    <3> SUFFICES ASSUME NEW n \in DOMAIN i.moment, NEW k \in 1..i.at
                 PROVE  i.moment[n][order[k]] = i.hashed[order[k]]
      OBVIOUS
    <3>1. i.moment[n][order[i.at]] = i.hashed[order[i.at]]
      BY <1>1, <2>1, <2>5, <2>12 DEF BundleInv, MomentInv
    <3>2. \A m \in 1..i.at - 1 : i.moment[n][order[m]] = i.hashed[order[m]]
      BY <1>1, <2>12 DEF BundleInv, MomentInv
    <3>3. k \in 1..i.at - 1 \/ k = i.at
      BY <2>4
    <3> QED BY <3>1, <3>2, <3>3
  <2>13. MomentInv'
    <3>1. Tree' = Tree
      BY <2>8, <2>9 DEF Tree
    <3>2. (i.at + 1) - 1 = i.at
      BY <2>4
    <3>3. root = i.root => \A n \in DOMAIN i.moment :
             PresentIn(i.moment[n], Walk[n]) = {p \in DOMAIN i.hashed : DirOf[p] = Walk[n]}
      BY <1>1 DEF BundleInv, MomentInv
    <3>4. CASE pc' = "assert"
      <4>1. root = i.root => \A n \in DOMAIN i.moment, p \in DOMAIN i.hashed :
               i.moment[n][p] = i.hashed[p] \/ Tree[p] # i.hashed[p]
        BY <1>1 DEF BundleInv, MomentInv
      <4> QED BY <2>8, <2>9, <2>12, <3>1, <3>2, <3>3, <3>4, <4>1 DEF MomentInv
    <3>5. CASE pc' = "reopen"
      <4>1. i.at = Len(order)
        BY <2>10, <3>5 DEF last
      <4>2. ASSUME root = i.root, NEW n \in DOMAIN i.moment, NEW p \in DOMAIN i.hashed
            PROVE  i.moment[n][p] = i.hashed[p]
        <5>1. PICK k \in 1..Len(order) : order[k] = p
          BY <2>2, <2>3
        <5>2. k \in 1..i.at
          BY <4>1, <5>1
        <5> QED BY <2>12, <4>2, <5>1, <5>2
      <4> QED BY <2>8, <2>9, <3>3, <3>5, <4>2 DEF MomentInv
    <3> QED BY <2>10, <3>4, <3>5
  <2>14. pc' \in InventorySteps /\ pc' \notin {"print", "compare"}
    BY <2>10 DEF InventorySteps
  <2> QED BY <1>1, <2>1, <2>7, <2>11, <2>13, <2>14, InventoryKeeps
<1> QED BY <1>2, <1>3

\* The configured path still leads to the root that was opened.
LEMMA ReopenKeeps == BundleInv /\ ReopenRoot => BundleInv'
<1> SUFFICES ASSUME BundleInv, ReopenRoot PROVE BundleInv'
  OBVIOUS
<1>1. pc = "reopen" /\ pc \in InventorySteps /\ pc \notin ImportSteps
  BY StepNames DEF ReopenRoot, InventorySteps
<1>2. CASE Fail
  BY <1>1, <1>2, FailKeeps
<1>3. CASE ~Fail
  <2>1. /\ UNCHANGED <<treeVars, clock, kept, command, ran, expected, import, imported, verdict>>
        /\ inventory' = inventory /\ root = inventory.root
        /\ pc' = IF command = "receipt" THEN "print" ELSE "compare"
    BY <1>3 DEF ReopenRoot, Inventory
  <2>2. root' = root /\ clock' = clock /\ files' = files
    BY <2>1 DEF treeVars
  <2>3. command \in {"receipt", "verify"}
    BY <1>1, StepNames DEF BundleInv, BundleTypeOK, CommandInv, CommandNames
  <2>4. InventoryTyped(inventory')
    BY <2>1 DEF BundleInv, BundleTypeOK
  <2>5. pc' \in {"print", "compare"}
    BY <2>1
  <2>6. InventoryInv'
    BY <1>1, <2>1, <2>2, <2>5 DEF BundleInv, InventoryInv, Known
  <2>7. MomentInv'
    BY <1>1, <2>1, <2>2, <2>5 DEF BundleInv, MomentInv
  <2>8. pc' \in InventorySteps
    BY <2>5 DEF InventorySteps
  <2> QED BY <1>1, <2>1, <2>3, <2>4, <2>6, <2>7, <2>8, InventoryKeeps
<1> QED BY <1>2, <1>3

\* The receipt of what was hashed.
LEMMA CurrentFacts ==
    ASSUME BundleInv
    PROVE  LET bodies == [p \in DOMAIN inventory.hashed |-> inventory.hashed[p].body] IN
           /\ Current = Receipt(bodies) /\ DOMAIN bodies = DOMAIN inventory.hashed
           /\ DOMAIN bodies \in SUBSET Sources /\ \A p \in DOMAIN bodies : bodies[p] \in Nat
           /\ Current \in Payloads
           /\ PathsIn(Current) = DOMAIN inventory.hashed
           /\ \A p : BodyIn(Current, p) =
                 IF p \in DOMAIN inventory.hashed THEN {inventory.hashed[p].body} ELSE {}
<1> DEFINE bodies == [p \in DOMAIN inventory.hashed |-> inventory.hashed[p].body]
<1>1. /\ DOMAIN bodies = DOMAIN inventory.hashed
      /\ \A p \in DOMAIN inventory.hashed : bodies[p] = inventory.hashed[p].body
  OBVIOUS
<1>2. DOMAIN bodies \in SUBSET Sources
  BY InventoryFacts
<1>3. \A p \in DOMAIN bodies : bodies[p] \in Nat
  BY InventoryFacts, EntryFacts DEF PartOf
<1>4. Current = Receipt(bodies)
  BY DEF Current
<1> HIDE DEF bodies
<1>5. Receipt(bodies) \in Payloads
  BY <1>2, <1>3, ReceiptFiles
<1>6. /\ PathsIn(Receipt(bodies)) = DOMAIN bodies
      /\ \A p : BodyIn(Receipt(bodies), p) = IF p \in DOMAIN bodies THEN {bodies[p]} ELSE {}
  BY <1>2, <1>3, ReceiptLists
<1> QED BY <1>1, <1>2, <1>3, <1>4, <1>5, <1>6 DEF bodies

\* What is left behind by a command that kept no new import is in order.
LEMMA ImportedStays ==
    ASSUME BundleInv, imported' = imported
    PROVE  /\ imported' # None => /\ ReadingsTyped(imported)' /\ imported'.by \in Nat
                                  /\ imported'.by <= Len(ran)
                                  /\ DOMAIN imported'.described = DOMAIN imported'.checked
           /\ MatchesAreStable'
<1>1. imported # None => /\ ReadingsTyped(imported) /\ imported.by \in Nat
                         /\ imported.by <= Len(ran)
                         /\ DOMAIN imported.described = DOMAIN imported.checked
  BY DEF BundleInv, BundleTypeOK, CommandInv, ImportInv
<1>2. MatchesAreStable'
  BY DEF MatchesAreStable, BundleInv
<1>3. ReadingsTyped(imported)' <=> ReadingsTyped(imported)
  BY DEF ReadingsTyped, PartOf
<1> QED BY <1>1, <1>2, <1>3

\* A receipt that the operator keeps.
LEMMA KeepKeeps == BundleInv /\ KeepReceipt => BundleInv'
<1> SUFFICES ASSUME BundleInv, KeepReceipt PROVE BundleInv'
  OBVIOUS
<1>1. /\ pc = "print" /\ kept' = [payload |-> Current, stamp |-> clock, madeBy |-> Len(ran)]
      /\ End /\ imported' = imported /\ verdict' = verdict
  BY DEF KeepReceipt
<1>2. Current \in Payloads /\ clock \in Nat /\ Len(ran) \in Nat /\ Len(ran) <= Len(ran)
  BY CurrentFacts DEF BundleInv, BundleTypeOK
<1>3. kept' \in KeptReceipts /\ kept'.madeBy <= Len(ran)
  BY <1>1, <1>2 DEF KeptReceipts
<1>4. verdict # None => /\ verdict.receipt \in KeptReceipts /\ verdict.by \in Nat
                        /\ verdict.by <= Len(ran)
  BY DEF BundleInv, BundleTypeOK, CommandInv
<1>5. VerdictExplained'
  BY <1>1 DEF VerdictExplained, BundleInv
<1> QED BY <1>1, <1>3, <1>4, <1>5, ImportedStays, EndKeeps

\* The verdict of a comparison.
LEMMA CompareVerdict ==
    ASSUME BundleInv, Compare, ~Fail
    PROVE  /\ kept = expected /\ expected \in KeptReceipts /\ End
           /\ kept' = kept /\ imported' = imported
           /\ verdict' # None => /\ verdict'.receipt = expected /\ verdict'.by = Len(ran)
                                 /\ verdict'.clean <=> expected.payload = Current
           /\ VerdictExplained'
<1>1. /\ pc = "compare" /\ kept = expected /\ End /\ kept' = kept /\ imported' = imported
      /\ verdict' = LET then == PathsIn(expected.payload)
                        now == PathsIn(Current)
                    IN [clean |-> expected.payload = Current,
                        missing |-> then \ now,
                        unexpected |-> now \ then,
                        changed |-> {p \in then \cap now :
                                       BodyIn(expected.payload, p) # BodyIn(Current, p)},
                        receipt |-> expected, by |-> Len(ran)]
  BY DEF Compare
<1>2. expected \in KeptReceipts /\ ValidReceipt(expected.payload)
  BY <1>1 DEF BundleInv, CommandInv
<1> DEFINE r == expected.payload
           then == PathsIn(r)
           now == PathsIn(Current)
           changed == {p \in then \cap now : BodyIn(r, p) # BodyIn(Current, p)}
<1>3. r \in Payloads
  BY <1>2 DEF KeptReceipts
<1>4. /\ verdict'.clean <=> r = Current
      /\ verdict'.missing = then \ now /\ verdict'.unexpected = now \ then
      /\ verdict'.changed = changed /\ verdict'.receipt = expected /\ verdict'.by = Len(ran)
  <2> DEFINE clean == r = Current
             missing == then \ now
             unexpected == now \ then
  <2>1. verdict' = [clean |-> clean, missing |-> missing, unexpected |-> unexpected,
                    changed |-> changed, receipt |-> expected, by |-> Len(ran)]
    BY <1>1
  <2> HIDE DEF clean, missing, unexpected, changed
  <2>2. /\ verdict'.missing = missing /\ verdict'.unexpected = unexpected
        /\ verdict'.changed = changed /\ verdict'.receipt = expected /\ verdict'.by = Len(ran)
    BY <2>1
  <2>3. verdict'.clean = clean
    BY <2>1, Zenon
  <2>4. verdict'.clean <=> clean
    BY <2>3, Zenon
  <2> QED BY <2>2, <2>4 DEF clean, missing, unexpected
<1>5. r = Current => then \ now = {} /\ now \ then = {} /\ changed = {}
  OBVIOUS
<1>6. ASSUME then \ now = {}, now \ then = {}, changed = {}
      PROVE  r = Current
  <2> DEFINE bodies == [p \in DOMAIN inventory.hashed |-> inventory.hashed[p].body]
  <2>1. /\ Current = Receipt(bodies) /\ DOMAIN bodies = DOMAIN inventory.hashed
        /\ DOMAIN bodies \in SUBSET Sources /\ \A p \in DOMAIN bodies : bodies[p] \in Nat
        /\ now = DOMAIN bodies
        /\ \A p \in DOMAIN bodies : BodyIn(Current, p) = {bodies[p]}
    BY CurrentFacts
  <2> HIDE DEF bodies
  <2>2. then = now
    BY <1>6
  <2>3. \A p \in DOMAIN bodies : BodyIn(r, p) = {bodies[p]}
    BY <1>6, <2>1, <2>2
  <2> QED BY <1>2, <1>3, <2>1, <2>2, <2>3, ValidIsMade
<1> HIDE DEF r, then, now, changed
<1>7. VerdictExplained'
  <2>1. verdict'.clean <=> verdict'.missing = {} /\ verdict'.unexpected = {} /\ verdict'.changed = {}
    BY <1>4, <1>5, <1>6
  <2> QED BY <2>1 DEF VerdictExplained
<1> QED BY <1>1, <1>2, <1>4, <1>7 DEF r

\* The kept receipt is compared with the current one.
LEMMA CompareKeeps == BundleInv /\ Compare => BundleInv'
<1> SUFFICES ASSUME BundleInv, Compare PROVE BundleInv'
  OBVIOUS
<1>1. pc # "idle"
  BY DEF Compare
<1>2. CASE Fail
  BY <1>1, <1>2, FailKeeps
<1>3. CASE ~Fail
  <2>1. /\ kept = expected /\ expected \in KeptReceipts /\ End
        /\ kept' = kept /\ imported' = imported
        /\ verdict' # None => verdict'.receipt = expected /\ verdict'.by = Len(ran)
        /\ VerdictExplained'
    BY <1>3, CompareVerdict
  <2>2. Len(ran) \in Nat /\ Len(ran) <= Len(ran)
    BY DEF BundleInv, BundleTypeOK
  <2>3. kept # None => kept.madeBy <= Len(ran)
    BY DEF BundleInv, CommandInv
  <2> QED BY <1>1, <2>1, <2>2, <2>3, ImportedStays, EndKeeps
<1> QED BY <1>2, <1>3

-----------------------------------------------------------------------------
(* The steps of an import.                                                 *)

\* A step that only continues an import preserves the invariant, when the conjunct
\* about imports does hold afterwards.
LEMMA ImportKeeps ==
    ASSUME BundleInv, pc \in ImportSteps, pc' \in ImportSteps,
           UNCHANGED <<treeVars, clock, kept, command, ran, inventory, expected, imported, verdict>>,
           ImportTyped(import'), ImportInv'
    PROVE  BundleInv'
<1> USE DEF BundleInv
<1>1. UNCHANGED <<files, dirId, root, clock, kept, command, ran, inventory, expected, imported,
                  verdict>>
  BY DEF treeVars
<1>2. BundleTypeOK'
  BY <1>1 DEF BundleTypeOK
<1>3. FilesInv'
  BY <1>1 DEF FilesInv, Known
<1>4. /\ pc \notin {"idle", "load", "loaded", "compare", "print"} /\ pc \notin InventorySteps
      /\ pc' \notin {"idle", "load", "loaded", "compare", "print"} /\ pc' \notin InventorySteps
  BY StepNames DEF InventorySteps, ImportSteps
<1>5. CommandInv'
  BY <1>1, <1>4 DEF CommandInv
<1>6. InventoryInv' /\ MomentInv'
  BY <1>4 DEF InventoryInv, MomentInv, InventorySteps
<1>7. VerdictExplained' /\ MatchesAreStable'
  BY <1>1 DEF VerdictExplained, MatchesAreStable
<1> QED BY <1>2, <1>3, <1>5, <1>6, <1>7

\* What the steps of an import rely on.
LEMMA ImportFacts ==
    ASSUME BundleInv
    PROVE  /\ import = [at |-> import.at, listed |-> import.listed, opened |-> import.opened,
                        replays |-> import.replays, checked |-> import.checked,
                        described |-> import.described, exports |-> import.exports]
           /\ import.at \in Nat \ {0} /\ import.listed \in SUBSET Sources
           /\ import.opened \in (Roots \X Entries) \cup {None}
           /\ PartOf(import.replays, Nat) /\ PartOf(import.exports, Nat)
           /\ PartOf(import.checked, Nat) /\ PartOf(import.described, Nat)
           /\ root \in Roots /\ files \in [Roots -> Trees]
           /\ Walk \in Seq(Dirs) /\ Len(Walk) \in Nat /\ 1 <= Len(Walk) /\ DOMAIN Walk = 1..Len(Walk)
           /\ Unique \subseteq DOMAIN import.replays /\ Unique \subseteq Sources
           /\ imported # None => DOMAIN imported.described = DOMAIN imported.checked
<1>1. ImportTyped(import)
  BY DEF BundleInv, BundleTypeOK
<1>2. Unique \subseteq DOMAIN import.replays
  BY DEF Unique
<1>3. DOMAIN import.replays \subseteq Sources
  BY <1>1, ImportFields DEF PartOf
<1>4. Walk \in Seq(Dirs) /\ Len(Walk) \in Nat /\ 1 <= Len(Walk) /\ DOMAIN Walk = 1..Len(Walk)
  BY SourceAssumption
<1>5. root \in Roots /\ files \in [Roots -> Trees]
  BY DEF BundleInv, BundleTypeOK
<1>6. imported # None => DOMAIN imported.described = DOMAIN imported.checked
  BY DEF BundleInv, ImportInv
<1> QED BY <1>1, <1>2, <1>3, <1>4, <1>5, <1>6, ImportFields

\* What is read at a path is a number.
LEMMA BytesAtFacts == BundleInv => \A p \in Sources : BytesAt(p) \in Nat
<1> SUFFICES ASSUME BundleInv, NEW p \in Sources PROVE BytesAt(p) \in Nat
  OBVIOUS
<1>1. EntryAt(p) \in Entries \cup {None}
  BY ImportFacts DEF EntryAt, Trees
<1> QED BY <1>1, EntryFacts DEF BytesAt

\* What a step of a traversal does to the locals of the import.
LEMMA TraverseFacts ==
    ASSUME BundleInv, NEW paths \in SUBSET Sources, NEW some, NEW nothing,
           import.at <= Len(Walk), Traverse(paths, some, nothing)
    PROVE  LET listed == import.listed \cup (PresentIn(files[root], Walk[import.at]) \cap paths) IN
           /\ UNCHANGED <<treeVars, clock, kept, command, ran, inventory, expected, imported, verdict>>
           /\ import' = [at |-> import'.at, listed |-> listed, opened |-> import.opened,
                         replays |-> import.replays, checked |-> import.checked,
                         described |-> import.described, exports |-> import.exports]
           /\ import'.at \in Nat \ {0} /\ import'.at <= Len(Walk)
           /\ ImportTyped(import') /\ Unique' = Unique
           /\ \/ import.at < Len(Walk) /\ import'.at = import.at + 1 /\ pc' = pc
              \/ import.at = Len(Walk) /\ import'.at = 1
                    /\ pc' = IF listed = {} THEN nothing ELSE some
<1> DEFINE i == import
           listed == i.listed \cup (PresentIn(files[root], Walk[i.at]) \cap paths)
           more == i.at < Len(Walk)
           at == IF more THEN i.at + 1 ELSE 1
<1>1. /\ UNCHANGED <<treeVars, clock, kept, command, ran, inventory, expected, imported, verdict>>
      /\ import' = [import EXCEPT !.at = at, !.listed = listed]
      /\ pc' = IF more THEN pc ELSE IF listed = {} THEN nothing ELSE some
  BY DEF Traverse, Import
<1>2. listed \in SUBSET Sources
  BY ImportFacts DEF PresentIn
<1>3. /\ at \in Nat \ {0} /\ at <= Len(Walk)
      /\ \/ more /\ at = i.at + 1
         \/ i.at = Len(Walk) /\ at = 1 /\ ~more
  BY ImportFacts
<1> HIDE DEF listed, at
<1>4. import' = [at |-> at, listed |-> listed, opened |-> i.opened, replays |-> i.replays,
                 checked |-> i.checked, described |-> i.described, exports |-> i.exports]
  BY <1>1, ImportFacts
<1>5. ImportTyped(import')
  BY <1>2, <1>3, <1>4, ImportFacts, ImportMade
<1>6. import'.at = at /\ import'.replays = i.replays
  BY <1>4
<1>7. Unique' = Unique
  BY <1>6, Zenon DEF Unique
<1> QED BY <1>1, <1>3, <1>4, <1>5, <1>6, <1>7 DEF listed

\* One directory of either traversal.
LEMMA TraverseKeeps == BundleInv /\ (DiscoverDirectory \/ ScanDirectory) => BundleInv'
<1> SUFFICES ASSUME BundleInv, DiscoverDirectory \/ ScanDirectory PROVE BundleInv'
  OBVIOUS
<1> DEFINE i == import
           listed(paths) == i.listed \cup (PresentIn(files[root], Walk[i.at]) \cap paths)
<1>1. pc \in {"discover", "scan"} /\ pc \in ImportSteps
  BY DEF DiscoverDirectory, ScanDirectory, ImportSteps
<1>2. /\ DOMAIN i.replays \subseteq Replays /\ i.at <= Len(Walk)
      /\ DOMAIN i.exports = {} /\ DOMAIN i.checked = {} /\ DOMAIN i.described = {}
      /\ pc = "discover" => DOMAIN i.replays = {} /\ i.listed \subseteq Replays
      /\ pc = "scan" => i.listed \subseteq Exports
  BY <1>1 DEF BundleInv, ImportInv
<1>3. Replays \in SUBSET Sources /\ Exports \in SUBSET Sources
  BY DEF Sources
<1>4. PICK paths \in {Replays, Exports}, some \in {"snapshot", "read"}, nothing \in {"scan", "validate"} :
        /\ Traverse(paths, some, nothing)
        /\ \/ pc = "discover" /\ paths = Replays /\ some = "snapshot" /\ nothing = "scan"
           \/ pc = "scan" /\ paths = Exports /\ some = "read" /\ nothing = "validate"
  BY DEF DiscoverDirectory, ScanDirectory
<1>5. /\ UNCHANGED <<treeVars, clock, kept, command, ran, inventory, expected, imported, verdict>>
      /\ import' = [at |-> import'.at, listed |-> listed(paths), opened |-> i.opened,
                    replays |-> i.replays, checked |-> i.checked,
                    described |-> i.described, exports |-> i.exports]
      /\ import'.at \in Nat \ {0} /\ import'.at <= Len(Walk)
      /\ ImportTyped(import') /\ Unique' = Unique
      /\ \/ import'.at = i.at + 1 /\ pc' = pc
         \/ import'.at = 1 /\ pc' = IF listed(paths) = {} THEN nothing ELSE some
  BY <1>2, <1>3, <1>4, TraverseFacts
<1>6. listed(paths) \subseteq i.listed \cup paths
  OBVIOUS
<1> HIDE DEF listed
<1>7. /\ import'.listed = listed(paths) /\ import'.replays = i.replays
      /\ import'.checked = i.checked /\ import'.described = i.described
      /\ import'.exports = i.exports
  BY <1>5
<1>8. imported' = imported /\ (imported # None => DOMAIN imported.described = DOMAIN imported.checked)
  BY <1>5, ImportFacts
<1>9. pc' \in ImportSteps
  BY <1>1, <1>4, <1>5 DEF ImportSteps
<1>10. ImportInv'
  <2>1. CASE pc = "discover"
    <3>1. listed(paths) \subseteq Replays /\ paths = Replays /\ some = "snapshot" /\ nothing = "scan"
      BY <1>2, <1>4, <1>6, <2>1
    <3>2. \/ pc' = "discover"
          \/ import'.at = 1 /\ pc' = "snapshot" /\ listed(paths) # {}
          \/ import'.at = 1 /\ pc' = "scan" /\ listed(paths) = {}
      BY <1>5, <2>1, <3>1
    <3> QED BY <1>2, <1>5, <1>7, <1>8, <2>1, <3>1, <3>2 DEF ImportInv
  <2>2. CASE pc = "scan"
    <3>1. listed(paths) \subseteq Exports /\ paths = Exports /\ some = "read" /\ nothing = "validate"
      BY <1>2, <1>4, <1>6, <2>2
    <3>2. \/ pc' = "scan"
          \/ import'.at = 1 /\ pc' = "read" /\ listed(paths) # {}
          \/ import'.at = 1 /\ pc' = "validate"
      BY <1>5, <2>2, <3>1
    <3> QED BY <1>2, <1>5, <1>7, <1>8, <2>2, <3>1, <3>2 DEF ImportInv
  <2> QED BY <1>1, <2>1, <2>2
<1> QED BY <1>1, <1>5, <1>9, <1>10, ImportKeeps

\* The next replay to be read is one that was listed.
LEMMA NextReplayIn ==
    ASSUME BundleInv, pc \in {"snapshot", "digest"}
    PROVE  NextReplay \in import.listed /\ NextReplay \notin DOMAIN import.replays
           /\ NextReplay \in Sources
<1>1. /\ DOMAIN import.replays \subseteq import.listed /\ DOMAIN import.replays # import.listed
      /\ import.listed \subseteq Sources
  BY ImportFacts DEF BundleInv, ImportInv, ImportSteps
<1>2. import.listed \ DOMAIN import.replays \in SUBSET Sources
      /\ import.listed \ DOMAIN import.replays # {}
  BY <1>1
<1>3. NextReplay \in import.listed \ DOMAIN import.replays
  BY <1>2, FirstIn DEF NextReplay
<1> QED BY <1>1, <1>3

\* A replay is opened.
LEMMA OpenReplayKeeps == BundleInv /\ OpenReplay => BundleInv'
<1> SUFFICES ASSUME BundleInv, OpenReplay PROVE BundleInv'
  OBVIOUS
<1>1. pc = "snapshot" /\ pc \in ImportSteps /\ pc # "idle"
  BY DEF OpenReplay, ImportSteps
<1>2. CASE Fail
  BY <1>1, <1>2, FailKeeps
<1>3. CASE ~Fail
  <2> DEFINE i == import
             entry == EntryAt(NextReplay)
  <2>1. /\ UNCHANGED <<treeVars, clock, kept, command, ran, inventory, expected, imported, verdict>>
        /\ import' = [import EXCEPT !.opened = <<root, entry>>]
        /\ pc' = "digest" /\ entry # None
    BY <1>3 DEF OpenReplay, Import
  <2>2. <<root, entry>> \in Roots \X Entries
    BY <1>1, <2>1, NextReplayIn, ImportFacts DEF EntryAt, Trees
  <2> HIDE DEF entry
  <2>3. import' = [at |-> i.at, listed |-> i.listed, opened |-> <<root, entry>>,
                   replays |-> i.replays, checked |-> i.checked,
                   described |-> i.described, exports |-> i.exports]
    BY <2>1, ImportFacts
  <2>4. ImportTyped(import')
    BY <2>2, <2>3, ImportFacts, ImportMade
  <2>5. /\ import'.at = i.at /\ import'.listed = i.listed /\ import'.replays = i.replays
        /\ import'.checked = i.checked /\ import'.described = i.described
        /\ import'.exports = i.exports /\ import'.opened \in Roots \X Entries
    BY <2>2, <2>3
  <2>6. pc' \in ImportSteps
    BY <2>1 DEF ImportSteps
  <2>7. ImportInv'
    BY <1>1, <2>1, <2>5 DEF BundleInv, ImportInv
  <2> QED BY <1>1, <2>1, <2>4, <2>6, <2>7, ImportKeeps
<1> QED BY <1>2, <1>3

\* A replay was read to its end.
LEMMA DigestReplayKeeps == BundleInv /\ DigestReplay => BundleInv'
<1> SUFFICES ASSUME BundleInv, DigestReplay PROVE BundleInv'
  OBVIOUS
<1>1. pc = "digest" /\ pc \in ImportSteps /\ pc # "idle"
  BY DEF DigestReplay, ImportSteps
<1>2. CASE Fail
  BY <1>1, <1>2, FailKeeps
<1>3. CASE ~Fail
  <2> DEFINE i == import
             p == NextReplay
             replays == Extend(i.replays, p, i.opened[2].body)
             done == DOMAIN replays = i.listed
             listed == IF done THEN {} ELSE i.listed
  <2>1. /\ UNCHANGED <<treeVars, clock, kept, command, ran, inventory, expected, imported, verdict>>
        /\ import' = [import EXCEPT !.opened = None, !.replays = replays, !.listed = listed]
        /\ pc' = IF done THEN "scan" ELSE "snapshot"
    <3>1. /\ UNCHANGED <<treeVars, clock, kept, command, ran, inventory, expected, imported, verdict>>
          /\ import' = IF done THEN [[import EXCEPT !.opened = None, !.replays = replays]
                                       EXCEPT !.listed = {}]
                       ELSE [import EXCEPT !.opened = None, !.replays = replays]
          /\ pc' = IF done THEN "scan" ELSE "snapshot"
      BY <1>3 DEF DigestReplay, Import
    <3> HIDE DEF done, replays
    <3>2. CASE done
      BY <3>1, <3>2, ImportFacts
    <3>3. CASE ~done
      BY <3>1, <3>3, ImportFacts
    <3> QED BY <3>2, <3>3
  <2>2. /\ i.opened[2].body \in Nat /\ DOMAIN i.replays \subseteq i.listed /\ i.listed \subseteq Replays
        /\ i.at = 1 /\ DOMAIN i.exports = {} /\ DOMAIN i.checked = {} /\ DOMAIN i.described = {}
    <3>1. i.opened \in Roots \X Entries
      BY <1>1 DEF BundleInv, ImportInv
    <3>2. i.opened[2] \in Entries
      BY <3>1
    <3> QED BY <1>1, <3>2, EntryFacts DEF BundleInv, ImportInv
  <2>3. p \in i.listed /\ p \in Sources
    BY <1>1, NextReplayIn
  <2> HIDE DEF p
  <2>4. PartOf(replays, Nat) /\ DOMAIN replays = DOMAIN i.replays \cup {p}
    <3>1. PartOf(replays, Nat)
      BY <2>2, <2>3, ImportFacts, PartExtended
    <3>2. DOMAIN replays = DOMAIN i.replays \cup {p}
      BY ExtendFacts
    <3> QED BY <3>1, <3>2
  <2> HIDE DEF replays
  <2>5. listed \in SUBSET Sources
    BY ImportFacts
  <2>6. /\ pc' \in {"scan", "snapshot"}
        /\ pc' = "scan" => listed = {}
        /\ pc' = "snapshot" => listed = i.listed /\ DOMAIN replays # i.listed
    BY <2>1
  <2> HIDE DEF listed, done
  <2>7. import' = [at |-> i.at, listed |-> listed, opened |-> None,
                   replays |-> replays, checked |-> i.checked,
                   described |-> i.described, exports |-> i.exports]
    BY <2>1, ImportFacts
  <2>8. ImportTyped(import')
    BY <2>4, <2>5, <2>7, ImportFacts, ImportMade
  <2>9. /\ import'.at = i.at /\ import'.listed = listed /\ import'.replays = replays
        /\ import'.checked = i.checked /\ import'.described = i.described
        /\ import'.exports = i.exports
    BY <2>7
  <2>10. pc' \in ImportSteps
    BY <2>6 DEF ImportSteps
  <2>11. ImportInv'
    <3>1. imported' = imported /\ (imported # None => DOMAIN imported.described = DOMAIN imported.checked)
      BY <2>1, ImportFacts
    <3>2. 1 <= Len(Walk) /\ DOMAIN replays \subseteq i.listed
      BY <2>2, <2>3, <2>4, ImportFacts
    <3> QED BY <2>2, <2>6, <2>9, <3>1, <3>2 DEF ImportInv
  <2> QED BY <1>1, <2>1, <2>8, <2>10, <2>11, ImportKeeps
<1> QED BY <1>2, <1>3

\* An export is read.
LEMMA ReadExportKeeps == BundleInv /\ ReadExport => BundleInv'
<1> SUFFICES ASSUME BundleInv, ReadExport PROVE BundleInv'
  OBVIOUS
<1> DEFINE i == import
           p == First(i.listed)
           left == i.listed \ {p}
           exports == Extend(i.exports, p, BytesAt(p))
<1>1. pc = "read" /\ pc \in ImportSteps
  BY DEF ReadExport, ImportSteps
<1>2. /\ UNCHANGED <<treeVars, clock, kept, command, ran, inventory, expected, imported, verdict>>
      /\ import' = [import EXCEPT !.exports = exports, !.listed = left]
      /\ pc' = IF left = {} THEN "validate" ELSE "read"
  BY DEF ReadExport, Import
<1>3. /\ DOMAIN i.replays \subseteq Replays /\ i.at <= Len(Walk) /\ i.at = 1
      /\ DOMAIN i.checked = {} /\ DOMAIN i.described = {}
      /\ i.listed \subseteq Exports /\ i.listed # {}
  BY <1>1 DEF BundleInv, ImportInv
<1>4. p \in i.listed /\ p \in Sources /\ BytesAt(p) \in Nat
  <2>1. p \in i.listed
    BY <1>3, FirstIn, ImportFacts
  <2> QED BY <2>1, ImportFacts, BytesAtFacts
<1> HIDE DEF p
<1>5. PartOf(exports, Nat)
  BY <1>4, ImportFacts, PartExtended
<1>6. left \in SUBSET Sources /\ left \subseteq Exports
  BY <1>3, ImportFacts
<1> HIDE DEF exports, left
<1>7. import' = [at |-> i.at, listed |-> left, opened |-> i.opened,
                 replays |-> i.replays, checked |-> i.checked,
                 described |-> i.described, exports |-> exports]
  BY <1>2, ImportFacts
<1>8. ImportTyped(import')
  BY <1>5, <1>6, <1>7, ImportFacts, ImportMade
<1>9. /\ import'.at = 1 /\ import'.listed = left /\ import'.replays = i.replays
      /\ import'.checked = i.checked /\ import'.described = i.described
  BY <1>3, <1>7
<1>10. /\ pc' \in {"validate", "read"}
       /\ pc' = "read" => left # {}
  BY <1>2
<1>11. pc' \in ImportSteps
  BY <1>10 DEF ImportSteps
<1>12. ImportInv'
  <2>1. imported' = imported /\ (imported # None => DOMAIN imported.described = DOMAIN imported.checked)
    BY <1>2, ImportFacts
  <2>2. 1 <= Len(Walk)
    BY ImportFacts
  <2> QED BY <1>3, <1>6, <1>9, <1>10, <2>1, <2>2 DEF ImportInv
<1> QED BY <1>1, <1>2, <1>8, <1>11, <1>12, ImportKeeps

\* A unique replay is opened again, for the matching or for its description.
LEMMA ReadAgainKeeps == BundleInv /\ (ValidateReplay \/ DescribeReplay) => BundleInv'
<1> SUFFICES ASSUME BundleInv, ValidateReplay \/ DescribeReplay PROVE BundleInv'
  OBVIOUS
<1> DEFINE i == import
<1>1. pc \in {"validate", "describe"} /\ pc \in ImportSteps
  BY DEF ValidateReplay, DescribeReplay, ImportSteps
<1>2. /\ DOMAIN i.replays \subseteq Replays /\ i.at <= Len(Walk) /\ i.at = 1
      /\ DOMAIN i.checked \subseteq Unique /\ DOMAIN i.described \subseteq Unique
      /\ pc = "validate" => DOMAIN i.described = {}
      /\ pc = "describe" => DOMAIN i.checked = Unique
  BY <1>1 DEF BundleInv, ImportInv
<1>3. /\ UNCHANGED <<treeVars, clock, kept, command, ran, inventory, expected, imported, verdict>>
      /\ pc' \in {"validate", "describe", "publish"}
  BY DEF ValidateReplay, DescribeReplay, Import
<1>4. pc' \in ImportSteps
  BY <1>3 DEF ImportSteps
<1>5. imported' = imported /\ (imported # None => DOMAIN imported.described = DOMAIN imported.checked)
  BY <1>3, ImportFacts
<1>6. CASE import' = import
  <2>1. \/ pc = "validate" /\ Unique = DOMAIN i.checked /\ pc' = "describe"
        \/ pc = "describe" /\ Unique = DOMAIN i.described /\ pc' = "publish"
    <3>1. CASE ValidateReplay /\ Unique # DOMAIN i.checked
      <4> DEFINE q == First(Unique \ DOMAIN i.checked)
      <4>1. q \in Unique \ DOMAIN i.checked
        BY <1>2, <3>1, FirstIn, ImportFacts
      <4>2. import' = [import EXCEPT !.checked = Extend(i.checked, q, BytesAt(q))]
        BY <3>1 DEF ValidateReplay, Import
      <4> HIDE DEF q
      <4>3. import'.checked = Extend(i.checked, q, BytesAt(q))
        BY <4>2, ImportFacts
      <4>4. q \in DOMAIN import'.checked
        BY <4>3 DEF Extend
      <4> QED BY <1>6, <4>1, <4>4
    <3>2. CASE DescribeReplay /\ Unique # DOMAIN i.described
      <4> DEFINE q == First(Unique \ DOMAIN i.described)
      <4>1. q \in Unique \ DOMAIN i.described
        BY <1>2, <3>2, FirstIn, ImportFacts
      <4>2. import' = [import EXCEPT !.described = Extend(i.described, q, BytesAt(q))]
        BY <3>2 DEF DescribeReplay, Import
      <4> HIDE DEF q
      <4>3. import'.described = Extend(i.described, q, BytesAt(q))
        BY <4>2, ImportFacts
      <4>4. q \in DOMAIN import'.described
        BY <4>3 DEF Extend
      <4> QED BY <1>6, <4>1, <4>4
    <3> QED BY <3>1, <3>2 DEF ValidateReplay, DescribeReplay, Import
  <2>2. ImportTyped(import') /\ Unique' = Unique
    <3>1. Unique' = Unique
      BY <1>6, Zenon DEF Unique
    <3> QED BY <1>6, <3>1 DEF BundleInv, BundleTypeOK
  <2>3. ImportInv'
    BY <1>2, <1>5, <1>6, <2>1, <2>2 DEF ImportInv
  <2> QED BY <1>1, <1>3, <1>4, <2>2, <2>3, ImportKeeps
<1>7. CASE ValidateReplay /\ import' # import
  <2> DEFINE q == First(Unique \ DOMAIN i.checked)
             checked == Extend(i.checked, q, BytesAt(q))
  <2>1. /\ pc = "validate" /\ pc' = "validate" /\ Unique # DOMAIN i.checked
        /\ import' = [import EXCEPT !.checked = checked]
    BY <1>7 DEF ValidateReplay, Import
  <2>2. q \in Unique /\ q \in Sources /\ BytesAt(q) \in Nat
    <3>1. q \in Unique \ DOMAIN i.checked
      BY <1>2, <2>1, FirstIn, ImportFacts
    <3> QED BY <3>1, ImportFacts, BytesAtFacts
  <2> HIDE DEF q
  <2>3. PartOf(checked, Nat) /\ DOMAIN checked \subseteq Unique
    <3>1. DOMAIN checked = DOMAIN i.checked \cup {q}
      BY ExtendFacts
    <3> QED BY <1>2, <2>2, <3>1, ImportFacts, PartExtended
  <2> HIDE DEF checked
  <2>4. import' = [at |-> i.at, listed |-> i.listed, opened |-> i.opened,
                   replays |-> i.replays, checked |-> checked,
                   described |-> i.described, exports |-> i.exports]
    BY <2>1, ImportFacts
  <2>5. ImportTyped(import')
    BY <2>3, <2>4, ImportFacts, ImportMade
  <2>6. /\ import'.at = 1 /\ import'.replays = i.replays
        /\ import'.checked = checked /\ import'.described = i.described
    BY <1>2, <2>4
  <2>7. Unique' = Unique
    BY <2>6, Zenon DEF Unique
  <2>8. ImportInv'
    BY <1>2, <1>5, <2>1, <2>3, <2>6, <2>7 DEF ImportInv
  <2> QED BY <1>1, <1>3, <1>4, <2>5, <2>8, ImportKeeps
<1>8. CASE DescribeReplay /\ import' # import
  <2> DEFINE q == First(Unique \ DOMAIN i.described)
             described == Extend(i.described, q, BytesAt(q))
  <2>1. /\ pc = "describe" /\ pc' = "describe" /\ Unique # DOMAIN i.described
        /\ import' = [import EXCEPT !.described = described]
    BY <1>8 DEF DescribeReplay, Import
  <2>2. q \in Unique /\ q \in Sources /\ BytesAt(q) \in Nat
    <3>1. q \in Unique \ DOMAIN i.described
      BY <1>2, <2>1, FirstIn, ImportFacts
    <3> QED BY <3>1, ImportFacts, BytesAtFacts
  <2> HIDE DEF q
  <2>3. PartOf(described, Nat) /\ DOMAIN described \subseteq Unique
    <3>1. DOMAIN described = DOMAIN i.described \cup {q}
      BY ExtendFacts
    <3> QED BY <1>2, <2>2, <3>1, ImportFacts, PartExtended
  <2> HIDE DEF described
  <2>4. import' = [at |-> i.at, listed |-> i.listed, opened |-> i.opened,
                   replays |-> i.replays, checked |-> i.checked,
                   described |-> described, exports |-> i.exports]
    BY <2>1, ImportFacts
  <2>5. ImportTyped(import')
    BY <2>3, <2>4, ImportFacts, ImportMade
  <2>6. /\ import'.at = 1 /\ import'.replays = i.replays
        /\ import'.checked = i.checked /\ import'.described = described
    BY <1>2, <2>4
  <2>7. Unique' = Unique
    BY <2>6, Zenon DEF Unique
  <2>8. ImportInv'
    BY <1>2, <1>5, <2>1, <2>3, <2>6, <2>7 DEF ImportInv
  <2> QED BY <1>1, <1>3, <1>4, <2>5, <2>8, ImportKeeps
<1> QED BY <1>6, <1>7, <1>8

\* What a complete import leaves behind.
LEMMA PublishEffect ==
    ASSUME BundleInv, Publish
    PROVE  /\ pc = "publish" /\ End /\ kept' = kept /\ verdict' = verdict
           /\ imported'.replays = import.replays /\ imported'.checked = import.checked
           /\ imported'.described = import.described /\ imported'.exports = import.exports
           /\ imported'.by = Len(ran)
           /\ MatchesAreStable'
<1> DEFINE valid == {p \in Unique : import.checked[p] # 0}
           read == Canonical(DOMAIN import.exports)
           reports == SortedReports([i \in DOMAIN read |-> import.exports[read[i]]])
           replays == [p \in valid |-> import.replays[p]]
<1>1. /\ pc = "publish" /\ End /\ kept' = kept /\ verdict' = verdict
      /\ \E evidence \in Evidences :
            imported' =
               [replays |-> import.replays, checked |-> import.checked,
                described |-> import.described, exports |-> import.exports,
                candidates |-> {Candidates(Scored(replays, reports, evidence))[i] :
                                  i \in DOMAIN Candidates(Scored(replays, reports, evidence))},
                matches |-> Greedy(Candidates(Scored(replays, reports, evidence))),
                by |-> Len(ran)]
  BY DEF Publish
<1>2. IsFiniteSet(DOMAIN replays) /\ \A p \in DOMAIN replays : replays[p] \in Nat
  <2>1. DOMAIN replays = valid /\ valid \subseteq Sources /\ valid \subseteq DOMAIN import.replays
    BY ImportFacts
  <2>2. IsFiniteSet(valid)
    BY <2>1, FiniteSources, FS_Subset
  <2>3. \A p \in valid : import.replays[p] \in Nat
    BY <2>1, ImportFacts DEF PartOf
  <2> QED BY <2>1, <2>2, <2>3
<1>3. IsFiniteSet(DOMAIN read) /\ DOMAIN read \subseteq Nat
  <2>1. DOMAIN import.exports \in SUBSET Sources
    BY ImportFacts DEF PartOf
  <2>2. DOMAIN read = 1..Cardinality(DOMAIN import.exports) /\ Cardinality(DOMAIN import.exports) \in Nat
    BY <2>1, CanonicalFacts, CanonicalSeq
  <2>3. IsFiniteSet(1..Cardinality(DOMAIN import.exports))
    BY <2>2, FS_Interval
  <2> QED BY <2>2, <2>3
<1>4. /\ IsFiniteSet(DOMAIN reports) /\ DOMAIN reports \subseteq Nat
      /\ \A i \in DOMAIN reports : reports[i] \in Reports
  <2> DEFINE bodies == [i \in DOMAIN read |-> import.exports[read[i]]]
  <2>1. DOMAIN bodies = DOMAIN read
    OBVIOUS
  <2> HIDE DEF bodies
  <2>2. IsFiniteSet(DOMAIN bodies) /\ DOMAIN bodies \subseteq Nat
    BY <1>3, <2>1
  <2> QED BY <2>2, SortedReportsFacts DEF bodies
<1> HIDE DEF replays, reports
<1>5. PICK evidence :
        imported' =
           [replays |-> import.replays, checked |-> import.checked,
            described |-> import.described, exports |-> import.exports,
            candidates |-> {Candidates(Scored(replays, reports, evidence))[i] :
                              i \in DOMAIN Candidates(Scored(replays, reports, evidence))},
            matches |-> Greedy(Candidates(Scored(replays, reports, evidence))),
            by |-> Len(ran)]
  BY <1>1
<1> DEFINE scored == Scored(replays, reports, evidence)
           candidates == Candidates(scored)
<1>6. IsFiniteSet(scored) /\ scored \in SUBSET Pairs
  BY <1>2, <1>4, ScoredFacts
<1>7. /\ imported'.replays = import.replays /\ imported'.checked = import.checked
      /\ imported'.described = import.described /\ imported'.exports = import.exports
      /\ imported'.by = Len(ran)
      /\ imported'.candidates = {candidates[i] : i \in DOMAIN candidates}
      /\ imported'.matches = Greedy(candidates)
  <2> DEFINE all == {candidates[i] : i \in DOMAIN candidates}
             matches == Greedy(candidates)
  <2>1. imported' =
           [replays |-> import.replays, checked |-> import.checked,
            described |-> import.described, exports |-> import.exports,
            candidates |-> all, matches |-> matches, by |-> Len(ran)]
    BY <1>5
  <2> HIDE DEF all, matches
  <2>2. /\ imported'.replays = import.replays /\ imported'.checked = import.checked
        /\ imported'.described = import.described /\ imported'.exports = import.exports
        /\ imported'.by = Len(ran) /\ imported'.candidates = all /\ imported'.matches = matches
    BY <2>1
  <2> QED BY <2>2 DEF all, matches
<1> HIDE DEF scored
<1>8. /\ \A a, b \in Greedy(candidates) : Conflict(a, b) => a = b
      /\ \A c \in {candidates[i] : i \in DOMAIN candidates} : \E m \in Greedy(candidates) :
            Conflict(c, m) /\ m.score >= c.score
  BY <1>6, StableMatching
<1> HIDE DEF candidates
<1>9. MatchesAreStable'
  <2>1. \A a, b \in imported'.matches : Conflict(a, b) => a = b
    BY <1>7, <1>8
  <2>2. \A c \in imported'.candidates : \E m \in imported'.matches :
           Conflict(c, m) /\ m.score >= c.score
    BY <1>7, <1>8
  <2> QED BY <2>1, <2>2 DEF MatchesAreStable, Conflict
<1> QED BY <1>1, <1>7, <1>9

\* The import writes its files.
LEMMA PublishKeeps == BundleInv /\ Publish => BundleInv'
<1> SUFFICES ASSUME BundleInv, Publish PROVE BundleInv'
  OBVIOUS
<1>1. /\ pc = "publish" /\ End /\ kept' = kept /\ verdict' = verdict
      /\ imported'.replays = import.replays /\ imported'.checked = import.checked
      /\ imported'.described = import.described /\ imported'.exports = import.exports
      /\ imported'.by = Len(ran)
      /\ MatchesAreStable'
  BY PublishEffect
<1>2. Len(ran) \in Nat /\ Len(ran) <= Len(ran)
  BY DEF BundleInv, BundleTypeOK
<1>3. ReadingsTyped(imported)'
  BY <1>1, ImportFacts DEF ReadingsTyped, PartOf
<1>4. DOMAIN imported'.described = DOMAIN imported'.checked
  BY <1>1 DEF BundleInv, ImportInv, ImportSteps
<1>5. kept \in KeptReceipts \cup {None} /\ (kept # None => kept.madeBy <= Len(ran))
  BY DEF BundleInv, BundleTypeOK, CommandInv
<1>6. verdict # None => /\ verdict.receipt \in KeptReceipts /\ verdict.by \in Nat
                        /\ verdict.by <= Len(ran)
  BY DEF BundleInv, BundleTypeOK, CommandInv
<1>7. VerdictExplained'
  BY <1>1 DEF VerdictExplained, BundleInv
<1> QED BY <1>1, <1>2, <1>3, <1>4, <1>5, <1>6, <1>7, EndKeeps

-----------------------------------------------------------------------------
(* The theorems about receipts and matches.                                *)

\* Every step preserves the invariant.
LEMMA NextKeeps == BundleInv /\ [Next]_vars => BundleInv'
<1> SUFFICES ASSUME BundleInv, [Next]_vars PROVE BundleInv'
  OBVIOUS
<1>1. CASE DownloaderStep
  <2>1. Download \/ EditReceipt
    BY <1>1 DEF DownloaderStep, Download
  <2> QED BY <2>1, DownloadKeeps, EditKeeps
<1>2. CASE StartReceipt \/ StartVerification \/ StartImport
  BY <1>2, StartKeeps
<1>3. CASE ReceiptStep
  BY <1>3, BindKeeps, ListKeeps, OpenSourceKeeps, HashSourceKeeps, RelistKeeps, AssertKeeps,
     ReopenKeeps, KeepKeeps, LoadKeeps, CompareKeeps DEF ReceiptStep
<1>4. CASE ImportStep
  BY <1>4, TraverseKeeps, OpenReplayKeeps, DigestReplayKeeps, ReadExportKeeps, ReadAgainKeeps,
     PublishKeeps DEF ImportStep
<1>5. CASE UNCHANGED vars
  <2>1. UNCHANGED <<files, dirId, root, clock, kept, command, ran, pc, inventory, expected,
                    import, imported, verdict>>
    BY <1>5 DEF vars, treeVars
  <2>2. Unique' = Unique
    BY <2>1, Zenon DEF Unique
  <2>3. BundleTypeOK' /\ FilesInv' /\ CommandInv'
    BY <2>1 DEF BundleInv, BundleTypeOK, FilesInv, CommandInv, Known
  <2>4. InventoryInv' /\ MomentInv' /\ ImportInv'
    BY <2>1, <2>2 DEF BundleInv, InventoryInv, MomentInv, ImportInv, Known, Tree
  <2>5. VerdictExplained' /\ MatchesAreStable'
    BY <2>1 DEF BundleInv, VerdictExplained, MatchesAreStable
  <2> QED BY <2>3, <2>4, <2>5 DEF BundleInv
<1> QED BY <1>1, <1>2, <1>3, <1>4, <1>5 DEF Next

\* The invariant of the receipts and of the import, always: in particular the types
\* of all that the directory, the commands and their results hold.
THEOREM BundleInvariant == Spec => []BundleInv
<1>1. BundleInv /\ [Next]_vars => BundleInv'
  BY NextKeeps
<1> QED BY <1>1, InitBundle, PTL DEF Spec

\* Every variable keeps its type: the payload of a receipt, what an import has read
\* and the verdict have the fields that their readers use.
THEOREM BundleTypes == Spec => []BundleTypeOK
<1>1. BundleInv => BundleTypeOK
  BY DEF BundleInv
<1> QED BY <1>1, BundleInvariant, PTL

\* A receipt that create_source_bundle_receipt returns speaks of one state of the
\* export, whatever the downloader did while the files were read.
THEOREM ReceiptsOfOneMoment == Spec => []ReceiptOfOneMoment
<1>1. BundleInv => ReceiptOfOneMoment
  <2> SUFFICES ASSUME BundleInv, pc \in {"print", "compare"}, NEW n \in DOMAIN Walk
               PROVE  /\ PresentIn(inventory.moment[n], Walk[n])
                           = {p \in DOMAIN inventory.hashed : DirOf[p] = Walk[n]}
                      /\ \A p \in DOMAIN inventory.hashed :
                            /\ inventory.moment[n][p] # None
                            /\ inventory.moment[n][p].body = inventory.hashed[p].body
    BY DEF ReceiptOfOneMoment
  <2>1. Len(inventory.moment) = Len(Walk)
    BY DEF BundleInv, InventoryInv, InventorySteps
  <2>2. n \in DOMAIN inventory.moment
    BY <2>1, InventoryFacts
  <2>3. \A p \in DOMAIN inventory.hashed : inventory.moment[n][p] = inventory.hashed[p]
    BY <2>2 DEF BundleInv, MomentInv
  <2>4. \A p \in DOMAIN inventory.hashed : inventory.hashed[p] # None
    BY InventoryFacts, EntryFacts DEF PartOf
  <2>5. PresentIn(inventory.moment[n], Walk[n]) = {p \in DOMAIN inventory.hashed : DirOf[p] = Walk[n]}
    BY <2>2 DEF BundleInv, MomentInv
  <2> QED BY <2>3, <2>4, <2>5
<1> QED BY <1>1, BundleInvariant, PTL

\* A verdict that is not clean names a path, and a clean one names none.
THEOREM VerdictsExplained == Spec => []VerdictExplained
<1>1. BundleInv => VerdictExplained
  BY DEF BundleInv
<1> QED BY <1>1, BundleInvariant, PTL

\* The matches of an import are stable, whatever the replays, the reports and the
\* evidence for each pair.
THEOREM MatchesStable == Spec => []MatchesAreStable
<1>1. BundleInv => MatchesAreStable
  BY DEF BundleInv
<1> QED BY <1>1, BundleInvariant, PTL

\* Only a comparison gives a verdict.
LEMMA NewVerdict ==
    ASSUME [Next]_vars, verdict' # verdict, verdict' # None
    PROVE  Compare /\ ~Fail
<1>1. CASE DownloaderStep
  BY <1>1 DEF DownloaderStep, WriteFile, TouchFile, RemoveFile, LinkFile, ReplaceDir, SwapRoot,
     EditReceipt, PutEntry, Change
<1>2. CASE StartReceipt \/ StartVerification \/ StartImport
  BY <1>2 DEF StartReceipt, StartVerification, StartImport
<1>3. CASE ReceiptStep
  BY <1>3 DEF ReceiptStep, BindRoot, ListDirectory, OpenSource, HashSource, RelistDirectory,
     AssertSource, ReopenRoot, KeepReceipt, OpenReceipt, LoadReceipt, Inventory, Fail
<1>4. CASE ImportStep
  BY <1>4 DEF ImportStep, DiscoverDirectory, OpenReplay, DigestReplay, ScanDirectory, ReadExport,
     ValidateReplay, DescribeReplay, Publish, Traverse, Import, Fail
<1>5. CASE UNCHANGED vars
  BY <1>5 DEF vars
<1> QED BY <1>1, <1>2, <1>3, <1>4, <1>5 DEF Next

\* A new verdict is about the receipt on file at the moment it is given, and a clean
\* one says that this receipt is the current one.
THEOREM CleanVerdicts == Spec => CleanOfKeptReceipt
<1>1. BundleInv /\ [Next]_vars =>
        [verdict' # verdict /\ verdict' # None =>
           verdict'.receipt = kept /\ (verdict'.clean => kept.payload = Current)]_vars
  <2> SUFFICES ASSUME BundleInv, [Next]_vars, verdict' # verdict, verdict' # None
               PROVE  verdict'.receipt = kept /\ (verdict'.clean => kept.payload = Current)
    OBVIOUS
  <2> QED BY NewVerdict, CompareVerdict
<1> QED BY <1>1, BundleInvariant, PTL DEF Spec, CleanOfKeptReceipt

-----------------------------------------------------------------------------
(* A receipt before an import, and its verification after it.              *)

\* No step brings these bytes to this path again.
NeverAgain(p, body) ==
    /\ \A r \in Roots : Held(p, body, r)' => Held(p, body, r)
    /\ root' = 1 => root = 1

\* Only those who change the files do.
LEMMA WhoChanges ==
    ASSUME BundleInv, [Next]_vars
    PROVE  \/ Download /\ OnlyFilesChange
           \/ /\ files' = files /\ root' = root /\ clock' \in Nat
              /\ clock' = clock \/ clock' = clock + 1
<1>0. clock \in Nat /\ clock + 1 \in Nat
  BY DEF BundleInv, BundleTypeOK
<1>1. CASE DownloaderStep
  <2>1. CASE Download
    BY <2>1, DownloadEffect DEF BundleInv
  <2>2. CASE EditReceipt
    BY <1>0, <2>2 DEF EditReceipt, Change, treeVars
  <2> QED BY <1>1, <2>1, <2>2 DEF DownloaderStep, Download
<1>2. CASE UNCHANGED <<treeVars, clock>>
  BY <1>0, <1>2 DEF treeVars
<1>3. CASE StartReceipt \/ StartVerification \/ StartImport
  BY <1>2, <1>3 DEF StartReceipt, StartVerification, StartImport, Start
<1>4. CASE ReceiptStep
  BY <1>2, <1>4 DEF ReceiptStep, BindRoot, ListDirectory, OpenSource, HashSource, RelistDirectory,
     AssertSource, ReopenRoot, KeepReceipt, OpenReceipt, LoadReceipt, Compare, Inventory, Fail, End
<1>5. CASE ImportStep
  BY <1>2, <1>5 DEF ImportStep, DiscoverDirectory, OpenReplay, DigestReplay, ScanDirectory, ReadExport,
     ValidateReplay, DescribeReplay, Publish, Traverse, Import, Fail, End
<1>6. CASE UNCHANGED vars
  BY <1>2, <1>6 DEF vars
<1> QED BY <1>1, <1>3, <1>4, <1>5, <1>6 DEF Next

\* What was there once is not brought again: all that is new is newer.
LEMMA NothingComesBack ==
    ASSUME BundleInv, [Next]_vars, NEW p \in Sources, NEW body \in Nat, body \in 1..clock
    PROVE  NeverAgain(p, body) /\ body \in 1..clock'
<1>1. CASE OnlyFilesChange
  <2>1. ASSUME NEW r \in Roots, Held(p, body, r)' PROVE Held(p, body, r)
    <3>1. files'[r][p] # None /\ files'[r][p].body = body
      BY <2>1 DEF Held
    <3>2. CASE files'[r][p] = files[r][p]
      BY <3>1, <3>2 DEF Held
    <3>3. CASE Fresh(files'[r][p], files[r][p])
      <4>1. body # clock + 1
        BY DEF BundleInv, BundleTypeOK
      <4> QED BY <3>1, <3>3, <4>1 DEF Fresh, Held
    <3> QED BY <1>1, <3>1, <3>2, <3>3 DEF OnlyFilesChange
  <2>2. root' = 1 => root = 1
    BY <1>1 DEF OnlyFilesChange
  <2>3. body \in 1..clock'
    BY <1>1 DEF OnlyFilesChange, BundleInv, BundleTypeOK
  <2> QED BY <2>1, <2>2, <2>3 DEF NeverAgain
<1>2. CASE files' = files /\ root' = root /\ clock' \in Nat
           /\ (clock' = clock \/ clock' = clock + 1)
  <2>1. body \in 1..clock'
    BY <1>2 DEF BundleInv, BundleTypeOK
  <2> QED BY <1>2, <2>1 DEF NeverAgain, Held
<1> QED BY <1>1, <1>2, WhoChanges

\* Bytes that only one export has stay with it, and lost bytes stay lost.
LEMMA ApartLater ==
    ASSUME NEW p, NEW body, NeverAgain(p, body)
    PROVE  /\ OnlyHere(p, body) => OnlyHere(p, body)'
           /\ Lost(p, body) => Lost(p, body)'
BY DEF NeverAgain, OnlyHere, Lost, Roots

\* Bytes that are not lost are below the root.
LEMMA StillHeld ==
    ASSUME BundleInv, NEW p, NEW body, OnlyHere(p, body), ~Lost(p, body)
    PROVE  files[root][p] # None /\ files[root][p].body = body
BY DEF OnlyHere, Lost, Held, Roots, BundleInv, BundleTypeOK

\* Lost bytes are not below the root.
LEMMA LostIsGone ==
    ASSUME BundleInv, NEW p, NEW body, Lost(p, body), files[root][p] # None
    PROVE  files[root][p].body # body
BY DEF Lost, Held, Roots, BundleInv, BundleTypeOK

\* The same for two bodies that are in the files, or in an inventory.
LEMMA ApartMeans ==
    ApartInv' <=>
      /\ \A p \in Sources : files'[1][p] # None =>
            ~(root' = 1 /\ files'[2][p] # None /\ files'[2][p].body = files'[1][p].body)
      /\ pc' \in InventorySteps => \A p \in DOMAIN inventory'.hashed :
            ~(root' = 1 /\ files'[2][p] # None /\ files'[2][p].body = inventory'.hashed[p].body)
BY DEF ApartInv, OnlyHere, Held

\* What a step of an inventory hashes is what its root has.
LEMMA NewlyHashed ==
    ASSUME BundleInv, [Next]_vars, pc' \in InventorySteps, NEW p \in DOMAIN inventory'.hashed
    PROVE  /\ pc \in InventorySteps /\ p \in Sources
           /\ \/ p \in DOMAIN inventory.hashed /\ inventory'.hashed[p] = inventory.hashed[p]
              \/ /\ Tree[p] # None /\ inventory'.hashed[p] = Tree[p]
                 /\ inventory.root \in Roots /\ inventory.root <= root
                 /\ files' = files /\ root' = root /\ inventory'.root = inventory.root
                 /\ pc = "hash" /\ command' = command
                 /\ UNCHANGED <<expected, imported>>
<1>1. CASE inventory' = inventory /\ pc \in InventorySteps
  BY <1>1, InventoryFacts
<1>2. CASE DownloaderStep
  <2>1. inventory' = inventory /\ pc' = pc
    BY <1>2 DEF DownloaderStep, WriteFile, TouchFile, RemoveFile, LinkFile, ReplaceDir, SwapRoot,
       EditReceipt, PutEntry, Change
  <2> QED BY <1>1, <2>1
<1>3. CASE StartReceipt \/ StartVerification \/ StartImport
  BY <1>3 DEF StartReceipt, StartVerification, StartImport, InventorySteps
<1>4. CASE BindRoot
  <2>1. inventory' = [NoInventory EXCEPT !.root = root]
    BY <1>4 DEF BindRoot, Inventory
  <2>2. inventory'.hashed = <<>>
    BY <2>1 DEF NoInventory
  <2> QED BY <2>2, EmptyPart
<1>5. CASE Fail \/ KeepReceipt \/ Compare \/ Publish
  BY <1>5, StepNames DEF Fail, KeepReceipt, Compare, Publish, End
<1>6. CASE HashSource /\ ~Fail
  <2> DEFINE q == NextSource
             hashed == Extend(inventory.hashed, q, inventory.opened)
  <2>1. /\ inventory' = [inventory EXCEPT !.hashed = hashed, !.opened = None]
        /\ Tree[q] = inventory.opened /\ pc = "hash"
        /\ UNCHANGED <<treeVars, command, expected, imported>>
    BY <1>6 DEF HashSource, Inventory
  <2>2. /\ inventory.root \in Roots /\ inventory.root <= root /\ inventory.opened \in Entries
        /\ pc \in InventorySteps /\ q \in Sources
    BY <2>1, NextSourceIn DEF BundleInv, InventoryInv, InventorySteps
  <2>3. inventory.opened # None
    BY <2>2, EntryFacts
  <2> HIDE DEF q
  <2>4. /\ hashed[q] = inventory.opened /\ DOMAIN hashed = DOMAIN inventory.hashed \cup {q}
        /\ \A x \in DOMAIN inventory.hashed : x # q => hashed[x] = inventory.hashed[x]
    BY DEF Extend
  <2> HIDE DEF hashed
  <2>5. inventory'.hashed = hashed /\ inventory'.root = inventory.root
    BY <2>1, InventoryFacts
  <2>6. p = q \/ (p \in DOMAIN inventory.hashed /\ p # q)
    BY <2>4, <2>5
  <2>7. files' = files /\ root' = root
    BY <2>1 DEF treeVars
  <2> QED BY <2>1, <2>2, <2>3, <2>4, <2>5, <2>6, <2>7, InventoryFacts
<1>7. CASE (ListDirectory \/ OpenSource \/ RelistDirectory \/ AssertSource \/ ReopenRoot) /\ ~Fail
  <2>1. inventory'.hashed = inventory.hashed /\ pc \in InventorySteps
    <3>1. CASE ListDirectory
      BY <1>7, <3>1, InventoryFacts DEF ListDirectory, Inventory, InventorySteps
    <3>2. CASE OpenSource
      BY <1>7, <3>2, InventoryFacts DEF OpenSource, Inventory, InventorySteps
    <3>3. CASE RelistDirectory
      BY <1>7, <3>3, InventoryFacts DEF RelistDirectory, Inventory, InventorySteps
    <3>4. CASE AssertSource
      BY <1>7, <3>4, InventoryFacts DEF AssertSource, Inventory, InventorySteps
    <3>5. CASE ReopenRoot
      BY <1>7, <3>5, InventoryFacts DEF ReopenRoot, Inventory, InventorySteps
    <3> QED BY <1>7, <3>1, <3>2, <3>3, <3>4, <3>5
  <2> QED BY <2>1, InventoryFacts
<1>8. CASE (OpenReceipt \/ LoadReceipt) /\ ~Fail
  BY <1>8 DEF OpenReceipt, LoadReceipt, InventorySteps
<1>9. CASE ImportStep /\ ~Fail /\ ~Publish
  <2>1. pc' \in ImportSteps
    BY <1>9 DEF ImportStep, DiscoverDirectory, OpenReplay, DigestReplay, ScanDirectory, ReadExport,
       ValidateReplay, DescribeReplay, Traverse, Import, ImportSteps
  <2> QED BY <2>1, StepNames
<1>10. CASE UNCHANGED vars
  BY <1>1, <1>10 DEF vars
<1> QED BY <1>2, <1>3, <1>4, <1>5, <1>6, <1>7, <1>8, <1>9, <1>10 DEF Next, ReceiptStep

\* Steps of the inventories and of the files keep the two exports apart.
LEMMA ApartKeeps == BundleInv /\ ApartInv /\ [Next]_vars => ApartInv'
<1> SUFFICES ASSUME BundleInv, ApartInv, [Next]_vars PROVE ApartInv'
  OBVIOUS
<1>0. /\ 1 \in Roots /\ 2 \in Roots
      /\ \A r \in Roots, p \in Sources : files[r][p] # None =>
            files[r][p] \in Entries /\ files[r][p].body \in 1..clock /\ files[r][p].body \in Nat
  BY EntryFacts DEF BundleInv, BundleTypeOK, FilesInv, Known, Trees, Roots
<1>1. ASSUME NEW p \in Sources, files'[1][p] # None, root' = 1, files'[2][p] # None,
             files'[2][p].body = files'[1][p].body
      PROVE  FALSE
  <2>1. files[1][p] # None =>
           ~(root = 1 /\ files[2][p] # None /\ files[2][p].body = files[1][p].body)
    BY DEF ApartInv, OnlyHere, Held
  <2>2. CASE OnlyFilesChange
    <3>1. root = 1 /\ files'[2][p] = files[2][p]
      BY <1>0, <1>1, <2>2 DEF OnlyFilesChange
    <3>2. CASE files'[1][p] = files[1][p]
      BY <1>1, <2>1, <3>1, <3>2
    <3>3. CASE Fresh(files'[1][p], files[1][p])
      <4>1. files[2][p].body # clock + 1
        BY <1>0, <1>1, <3>1 DEF BundleInv, BundleTypeOK
      <4> QED BY <1>1, <2>1, <3>1, <3>3, <4>1 DEF Fresh
    <3> QED BY <1>0, <1>1, <2>2, <3>2, <3>3 DEF OnlyFilesChange
  <2>3. CASE files' = files /\ root' = root
    BY <1>1, <2>1, <2>3
  <2> QED BY <2>2, <2>3, WhoChanges
<1>2. ASSUME pc' \in InventorySteps, NEW p \in DOMAIN inventory'.hashed, root' = 1,
             files'[2][p] # None, files'[2][p].body = inventory'.hashed[p].body
      PROVE  FALSE
  <2>1. CASE pc \in InventorySteps /\ p \in DOMAIN inventory.hashed
             /\ inventory'.hashed[p] = inventory.hashed[p]
    <3> SUFFICES ASSUME NEW body, body = inventory.hashed[p].body PROVE FALSE
      OBVIOUS
    <3>1. p \in Sources /\ body \in Nat /\ body \in 1..clock /\ OnlyHere(p, body)
      BY <2>1, InventoryFacts, EntryFacts DEF PartOf, BundleInv, InventoryInv, Known, ApartInv
    <3>2. files'[2][p].body = body
      BY <1>2, <2>1
    <3>3. NeverAgain(p, body)
      BY <3>1, NothingComesBack
    <3> QED BY <1>0, <1>2, <3>1, <3>2, <3>3 DEF NeverAgain, OnlyHere, Held
  <2>2. CASE /\ p \in Sources /\ Tree[p] # None /\ inventory'.hashed[p] = Tree[p]
             /\ inventory.root \in Roots /\ inventory.root <= root
             /\ files' = files /\ root' = root
    <3>1. inventory.root = 1
      BY <1>2, <2>2 DEF Roots
    <3> QED BY <1>2, <2>2, <3>1 DEF Tree, ApartInv, OnlyHere, Held
  <2> QED BY <1>2, <2>1, <2>2, NewlyHashed
<1> QED BY <1>1, <1>2, ApartMeans

\* The import that runs has read these bytes wherever it read this source, and has
\* met the source where it should.
OnTrack(p, body) == ReadOnly(import, p, body) /\ ~Overlooked(p)

\* One directory of a traversal.
LEMMA TraverseTracks ==
    ASSUME BundleInv, DiscoverDirectory \/ ScanDirectory, NEW p \in Sources, NEW body,
           OnTrack(p, body), files[root][p] # None
    PROVE  OnTrack(p, body)'
<1> DEFINE i == import
           listed(paths) == i.listed \cup (PresentIn(files[root], Walk[i.at]) \cap paths)
<1>1. pc \in {"discover", "scan"} /\ pc \in ImportSteps
  BY DEF DiscoverDirectory, ScanDirectory, ImportSteps
<1>2. i.at <= Len(Walk) /\ (pc = "discover" => DOMAIN i.replays = {})
  BY <1>1 DEF BundleInv, ImportInv
<1>3. Replays \in SUBSET Sources /\ Exports \in SUBSET Sources /\ Replays \cap Exports = {}
  BY SourceAssumption DEF Sources
<1>4. PICK paths \in {Replays, Exports}, some \in {"snapshot", "read"}, nothing \in {"scan", "validate"} :
        /\ Traverse(paths, some, nothing)
        /\ \/ pc = "discover" /\ paths = Replays /\ some = "snapshot" /\ nothing = "scan"
           \/ pc = "scan" /\ paths = Exports /\ some = "read" /\ nothing = "validate"
  BY DEF DiscoverDirectory, ScanDirectory
<1>5. /\ import' = [at |-> import'.at, listed |-> listed(paths), opened |-> i.opened,
                    replays |-> i.replays, checked |-> i.checked,
                    described |-> i.described, exports |-> i.exports]
      /\ \/ i.at < Len(Walk) /\ import'.at = i.at + 1 /\ pc' = pc
         \/ i.at = Len(Walk) /\ import'.at = 1
               /\ pc' = IF listed(paths) = {} THEN nothing ELSE some
  BY <1>2, <1>3, <1>4, TraverseFacts
<1>6. p \in listed(paths) <=> p \in i.listed \/ (p \in paths /\ DirOf[p] = Walk[i.at])
  BY DEF PresentIn
<1> HIDE DEF listed
<1>7. /\ import'.listed = listed(paths) /\ import'.replays = i.replays
      /\ import'.checked = i.checked /\ import'.described = i.described
      /\ import'.exports = i.exports
  BY <1>5
<1>8. ReadOnly(import, p, body)'
  BY <1>7 DEF OnTrack, ReadOnly
<1>9. p \in paths => (p \in i.listed \/ \A n \in 1..i.at - 1 : Walk[n] # DirOf[p])
  BY <1>4, <1>3 DEF OnTrack, Overlooked, Walked
<1>10. ASSUME p \in paths, NEW n \in 1..i.at, Walk[n] = DirOf[p]
       PROVE  p \in listed(paths)
  <2>1. n \in 1..i.at - 1 \/ n = i.at
    BY ImportFacts
  <2> QED BY <1>6, <1>9, <1>10, <2>1
<1>11. CASE i.at < Len(Walk)
  <2>1. import'.at = i.at + 1 /\ pc' = pc /\ (i.at + 1) - 1 = i.at
    BY <1>5, <1>11, ImportFacts
  <2>2. (\E n \in 1..import'.at - 1 : Walk[n] = DirOf[p]) /\ p \in paths => p \in listed(paths)
    BY <1>10, <2>1
  <2>3. CASE pc = "discover"
    <3>1. /\ pc' = "discover"
          /\ (\E n \in 1..import'.at - 1 : Walk[n] = DirOf[p]) /\ p \in Replays
                => p \in import'.listed
      BY <1>4, <1>7, <2>1, <2>2, <2>3
    <3> QED BY <1>8, <3>1 DEF OnTrack, Overlooked, Walked
  <2>4. CASE pc = "scan"
    <3>1. /\ pc' = "scan"
          /\ (\E n \in 1..import'.at - 1 : Walk[n] = DirOf[p]) /\ p \in Exports
                => p \in import'.listed
      BY <1>4, <1>7, <2>1, <2>2, <2>4
    <3>2. p \in Replays => p \in DOMAIN import'.replays
      BY <1>7, <2>4 DEF OnTrack, Overlooked
    <3> QED BY <1>8, <3>1, <3>2 DEF OnTrack, Overlooked, Walked
  <2> QED BY <1>1, <1>8, <2>3, <2>4 DEF OnTrack
<1>12. CASE i.at = Len(Walk)
  <2>1. import'.at = 1 /\ pc' = IF listed(paths) = {} THEN nothing ELSE some
    BY <1>5, <1>12, ImportFacts
  <2>2. p \in paths => p \in listed(paths)
    <3>1. \E n \in DOMAIN Walk : Walk[n] = DirOf[p]
      BY SourceAssumption DEF Dirs
    <3> QED BY <1>10, <1>12, <3>1, ImportFacts
  <2>3. ~\E n \in 1..import'.at - 1 : Walk[n] = DirOf[p]
    <3>1. 1..1 - 1 = {}
      OBVIOUS
    <3> QED BY <2>1, <3>1
  <2>4. CASE pc = "discover"
    <3>1. p \in Replays => p \in import'.listed
      BY <1>4, <1>7, <2>2, <2>4
    <3>2. \/ pc' = "snapshot"
          \/ pc' = "scan" /\ import'.listed = {}
      BY <1>4, <1>7, <2>1, <2>4
    <3> QED BY <1>8, <2>3, <3>1, <3>2 DEF OnTrack, Overlooked, Walked
  <2>5. CASE pc = "scan"
    <3>1. p \in Replays => p \in DOMAIN import'.replays
      BY <1>7, <2>5 DEF OnTrack, Overlooked
    <3>2. p \in Exports => p \in import'.listed
      BY <1>4, <1>7, <2>2, <2>5
    <3>3. \/ pc' = "read"
          \/ pc' = "validate" /\ import'.listed = {}
      BY <1>4, <1>7, <2>1, <2>5
    <3> QED BY <1>8, <3>1, <3>2, <3>3 DEF OnTrack, Overlooked, Walked
  <2> QED BY <1>1, <1>8, <2>4, <2>5 DEF OnTrack
<1> QED BY <1>2, <1>11, <1>12, ImportFacts

\* A replay is opened and read.
LEMMA SnapshotTracks ==
    ASSUME BundleInv, OpenReplay \/ DigestReplay, ~Fail, NEW p \in Sources, NEW body,
           OnTrack(p, body), files[root][p] # None, files[root][p].body = body
    PROVE  OnTrack(p, body)'
<1> DEFINE i == import
<1>1. Replays \cap Exports = {}
  BY SourceAssumption
<1>2. CASE OpenReplay
  <2>1. /\ import' = [import EXCEPT !.opened = <<root, EntryAt(NextReplay)>>]
        /\ pc = "snapshot" /\ pc' = "digest"
    BY <1>2 DEF OpenReplay, Import
  <2>2. /\ import'.listed = i.listed /\ import'.replays = i.replays
        /\ import'.checked = i.checked /\ import'.described = i.described
        /\ import'.exports = i.exports
    BY <2>1, ImportFacts
  <2>3. ReadOnly(import, p, body)'
    BY <2>2 DEF OnTrack, ReadOnly
  <2> QED BY <2>1, <2>2, <2>3 DEF OnTrack, Overlooked
<1>3. CASE DigestReplay
  <2> DEFINE q == NextReplay
             replays == Extend(i.replays, q, i.opened[2].body)
             done == DOMAIN replays = i.listed
  <2>1. /\ pc = "digest" /\ i.opened = <<root, EntryAt(q)>>
        /\ import' = IF done THEN [[import EXCEPT !.opened = None, !.replays = replays]
                                     EXCEPT !.listed = {}]
                     ELSE [import EXCEPT !.opened = None, !.replays = replays]
        /\ pc' = IF done THEN "scan" ELSE "snapshot"
    BY <1>3 DEF DigestReplay, Import
  <2>2. i.opened[2].body = files[root][q].body
    BY <2>1 DEF EntryAt
  <2> HIDE DEF q
  <2>3. /\ replays[q] = files[root][q].body /\ DOMAIN replays = DOMAIN i.replays \cup {q}
        /\ \A x \in DOMAIN i.replays : x # q => replays[x] = i.replays[x]
    BY <2>2 DEF Extend
  <2> HIDE DEF replays, done
  <2>4. /\ import'.replays = replays /\ import'.checked = i.checked
        /\ import'.described = i.described /\ import'.exports = i.exports
        /\ ~done => import'.listed = i.listed
        /\ import'.at = i.at
    <3>1. CASE done
      BY <2>1, <3>1, ImportFacts
    <3>2. CASE ~done
      BY <2>1, <3>2, ImportFacts
    <3> QED BY <3>1, <3>2
  <2>5. p \in DOMAIN replays => replays[p] = body
    BY <2>3 DEF OnTrack, ReadOnly
  <2>6. ReadOnly(import, p, body)'
    BY <2>4, <2>5 DEF OnTrack, ReadOnly
  <2>7. p \in Replays => p \in i.listed
    BY <2>1 DEF OnTrack, Overlooked
  <2>8. ~Walked(p)'
    <3>1. import'.at = 1 /\ 1..1 - 1 = {}
      BY <2>1, <2>4 DEF BundleInv, ImportInv, ImportSteps
    <3> QED BY <3>1 DEF Walked
  <2>9. ~Overlooked(p)'
    <3>1. CASE done
      BY <2>1, <2>4, <2>7, <2>8, <3>1 DEF Overlooked, done
    <3>2. CASE ~done
      BY <2>1, <2>4, <2>7, <3>2 DEF Overlooked
    <3> QED BY <3>1, <3>2
  <2> QED BY <2>6, <2>9 DEF OnTrack
<1> QED BY <1>2, <1>3

\* An export is read, or a unique replay once more.
LEMMA ReadTracks ==
    ASSUME BundleInv, ReadExport \/ ValidateReplay \/ DescribeReplay, NEW p \in Sources, NEW body,
           OnTrack(p, body), files[root][p] # None, files[root][p].body = body
    PROVE  OnTrack(p, body)'
<1> DEFINE i == import
<1>1. BytesAt(p) = body
  BY DEF BytesAt, EntryAt
<1>2. CASE ReadExport
  <2> DEFINE q == First(i.listed)
             left == i.listed \ {q}
             exports == Extend(i.exports, q, BytesAt(q))
  <2>1. /\ import' = [import EXCEPT !.exports = exports, !.listed = left]
        /\ pc = "read" /\ pc' = IF left = {} THEN "validate" ELSE "read"
    BY <1>2 DEF ReadExport, Import
  <2> HIDE DEF q
  <2>2. /\ exports[q] = BytesAt(q) /\ DOMAIN exports = DOMAIN i.exports \cup {q}
        /\ \A x \in DOMAIN i.exports : x # q => exports[x] = i.exports[x]
    BY DEF Extend
  <2> HIDE DEF exports
  <2>3. /\ import'.replays = i.replays /\ import'.checked = i.checked
        /\ import'.described = i.described /\ import'.exports = exports
        /\ import'.listed = left
    BY <2>1, ImportFacts
  <2>4. p \in DOMAIN exports => exports[p] = body
    BY <1>1, <2>2 DEF OnTrack, ReadOnly
  <2>5. ReadOnly(import, p, body)'
    BY <2>3, <2>4 DEF OnTrack, ReadOnly
  <2>6. /\ p \in Replays => p \in DOMAIN i.replays
        /\ p \in Exports => p \in i.listed \cup DOMAIN i.exports
    BY <2>1 DEF OnTrack, Overlooked
  <2>7. ~Overlooked(p)'
    BY <2>1, <2>2, <2>3, <2>6 DEF Overlooked
  <2> QED BY <2>5, <2>7 DEF OnTrack
<1>3. CASE ValidateReplay \/ DescribeReplay
  <2>1. /\ pc \in {"validate", "describe"} /\ pc' \in {"validate", "describe", "publish"}
        /\ \/ import' = import
           \/ \E q : \/ import' = [import EXCEPT !.checked = Extend(i.checked, q, BytesAt(q))]
                     \/ import' = [import EXCEPT !.described = Extend(i.described, q, BytesAt(q))]
    BY <1>3 DEF ValidateReplay, DescribeReplay, Import
  <2>2. /\ import'.replays = i.replays /\ import'.exports = i.exports
        /\ ReadOnly(import, p, body)'
    <3>1. CASE import' = import
      BY <3>1 DEF OnTrack, ReadOnly
    <3>2. ASSUME NEW f, NEW q, p \in DOMAIN f => f[p] = body
          PROVE  p \in DOMAIN Extend(f, q, BytesAt(q)) => Extend(f, q, BytesAt(q))[p] = body
      BY <1>1, <3>2 DEF Extend
    <3>3. ASSUME NEW q, import' = [import EXCEPT !.checked = Extend(i.checked, q, BytesAt(q))]
          PROVE  /\ import'.replays = i.replays /\ import'.exports = i.exports
                 /\ ReadOnly(import, p, body)'
      <4> DEFINE checked == Extend(i.checked, q, BytesAt(q))
      <4>1. p \in DOMAIN checked => checked[p] = body
        BY <3>2 DEF OnTrack, ReadOnly
      <4> HIDE DEF checked
      <4>2. /\ import'.replays = i.replays /\ import'.exports = i.exports
            /\ import'.described = i.described /\ import'.checked = checked
        BY <3>3, ImportFacts DEF checked
      <4> QED BY <4>1, <4>2 DEF OnTrack, ReadOnly
    <3>4. ASSUME NEW q, import' = [import EXCEPT !.described = Extend(i.described, q, BytesAt(q))]
          PROVE  /\ import'.replays = i.replays /\ import'.exports = i.exports
                 /\ ReadOnly(import, p, body)'
      <4> DEFINE described == Extend(i.described, q, BytesAt(q))
      <4>1. p \in DOMAIN described => described[p] = body
        BY <3>2 DEF OnTrack, ReadOnly
      <4> HIDE DEF described
      <4>2. /\ import'.replays = i.replays /\ import'.exports = i.exports
            /\ import'.checked = i.checked /\ import'.described = described
        BY <3>4, ImportFacts DEF described
      <4> QED BY <4>1, <4>2 DEF OnTrack, ReadOnly
    <3> QED BY <2>1, <3>1, <3>3, <3>4
  <2>3. /\ p \in Replays => p \in DOMAIN i.replays
        /\ p \in Exports => p \in DOMAIN i.exports
    BY <2>1 DEF OnTrack, Overlooked
  <2>4. ~Overlooked(p)'
    BY <2>1, <2>2, <2>3 DEF Overlooked
  <2> QED BY <2>2, <2>4 DEF OnTrack
<1> QED BY <1>2, <1>3

\* What every step does to the running import and to the last one.
LEMMA StepOfImport ==
    ASSUME BundleInv, [Next]_vars
    PROVE  \/ UNCHANGED <<pc, import, imported>>
           \/ pc' \notin ImportSteps /\ imported' = imported
           \/ pc' = "discover" /\ import' = NoImport /\ imported' = imported
           \/ /\ pc \in ImportSteps /\ imported' = imported
              /\ \/ DiscoverDirectory \/ ScanDirectory
                 \/ (OpenReplay \/ DigestReplay) /\ ~Fail
                 \/ ReadExport \/ ValidateReplay \/ DescribeReplay
           \/ Publish
<1>1. CASE DownloaderStep
  BY <1>1 DEF DownloaderStep, WriteFile, TouchFile, RemoveFile, LinkFile, ReplaceDir, SwapRoot,
     EditReceipt, PutEntry, Change
<1>2. CASE StartReceipt \/ StartVerification
  BY <1>2, StepNames DEF StartReceipt, StartVerification, Start
<1>3. CASE StartImport
  <2>1. pc = "idle" /\ pc' = "discover" /\ import' = import /\ imported' = imported
    BY <1>3 DEF StartImport, Start
  <2>2. import = NoImport
    BY <2>1, StepNames DEF BundleInv, CommandInv
  <2> QED BY <2>1, <2>2
<1>4. CASE Fail
  BY <1>4, StepNames DEF Fail, End
<1>5. CASE ReceiptStep /\ ~Fail
  <2>1. imported' = imported
    BY <1>5 DEF ReceiptStep, BindRoot, ListDirectory, OpenSource, HashSource, RelistDirectory,
       AssertSource, ReopenRoot, KeepReceipt, OpenReceipt, LoadReceipt, Compare, Inventory
  <2>2. pc' \in {"list", "relist", "open", "hash", "assert", "reopen", "print", "compare", "idle",
                 "loaded", "bind"}
    BY <1>5 DEF ReceiptStep, BindRoot, ListDirectory, OpenSource, HashSource, RelistDirectory,
       AssertSource, ReopenRoot, KeepReceipt, OpenReceipt, LoadReceipt, Compare, Inventory, End
  <2> QED BY <2>1, <2>2 DEF ImportSteps
<1>6. CASE ImportStep /\ ~Fail
  BY <1>6 DEF ImportStep, DiscoverDirectory, OpenReplay, DigestReplay, ScanDirectory, ReadExport,
     ValidateReplay, DescribeReplay, Traverse, Import, ImportSteps
<1>7. CASE UNCHANGED vars
  BY <1>7 DEF vars
<1> QED BY <1>1, <1>2, <1>3, <1>4, <1>5, <1>6, <1>7 DEF Next

\* What a receipt on file says of the later imports stays true.
LEMMA FiledStays ==
    ASSUME BundleInv, [Next]_vars, NEW by \in Nat, NEW p \in Sources, NEW body \in Nat,
           Filed(by, p, body)
    PROVE  Filed(by, p, body)'
<1>1. body \in 1..clock' /\ OnlyHere(p, body)' /\ (Lost(p, body) => Lost(p, body)')
  <2>1. NeverAgain(p, body) /\ body \in 1..clock' /\ OnlyHere(p, body)
    BY NothingComesBack DEF Filed
  <2> QED BY <2>1, ApartLater
<1>2. CASE Lost(p, body)
  BY <1>1, <1>2 DEF Filed
<1>3. CASE ~Lost(p, body)
  <2>1. files[root][p] # None /\ files[root][p].body = body
    BY <1>3, StillHeld DEF Filed
  <2>2. /\ pc \in ImportSteps => OnTrack(p, body)
        /\ imported # None /\ by < imported.by => Entered(p, body)
    BY <1>3 DEF Filed, OnTrack
  <2>3. imported' = imported /\ imported' # None /\ by < imported'.by => Entered(p, body)'
    BY <2>2 DEF Entered, ReadOnly
  <2>4. SUFFICES /\ pc' \in ImportSteps => OnTrack(p, body)'
                 /\ imported' # None /\ by < imported'.by => Entered(p, body)'
    BY <1>1 DEF Filed, OnTrack
  <2>5. CASE UNCHANGED <<pc, import, imported>>
    BY <2>2, <2>3, <2>5 DEF OnTrack, ReadOnly, Overlooked, Walked
  <2>6. CASE pc' \notin ImportSteps /\ imported' = imported
    BY <2>3, <2>6
  <2>7. CASE pc' = "discover" /\ import' = NoImport /\ imported' = imported
    <3>1. /\ import'.at = 1 /\ import'.replays = <<>> /\ import'.checked = <<>>
          /\ import'.described = <<>> /\ import'.exports = <<>>
      BY <2>7 DEF NoImport
    <3>2. ReadOnly(import, p, body)'
      BY <3>1, EmptyPart DEF ReadOnly
    <3>3. ~\E n \in 1..import'.at - 1 : Walk[n] = DirOf[p]
      <4>1. 1..1 - 1 = {}
        OBVIOUS
      <4> QED BY <3>1, <4>1
    <3>4. ~Overlooked(p)'
      BY <2>7, <3>3 DEF Overlooked, Walked
    <3> QED BY <2>3, <2>7, <3>2, <3>4 DEF OnTrack
  <2>8. CASE /\ pc \in ImportSteps /\ imported' = imported
             /\ \/ DiscoverDirectory \/ ScanDirectory
                \/ (OpenReplay \/ DigestReplay) /\ ~Fail
                \/ ReadExport \/ ValidateReplay \/ DescribeReplay
    <3>1. OnTrack(p, body)'
      BY <2>1, <2>2, <2>8, TraverseTracks, SnapshotTracks, ReadTracks
    <3> QED BY <2>3, <2>8, <3>1
  <2>9. CASE Publish
    <3>1. /\ pc = "publish" /\ pc' = "idle"
          /\ imported'.replays = import.replays /\ imported'.checked = import.checked
          /\ imported'.described = import.described /\ imported'.exports = import.exports
      BY <2>9, PublishEffect DEF End
    <3>2. ReadOnly(import, p, body) /\ ~Overlooked(p)
      BY <2>2, <3>1 DEF OnTrack, ImportSteps
    <3>3. ReadOnly(imported, p, body)'
      BY <3>1, <3>2 DEF ReadOnly
    <3>4. /\ p \in Replays => p \in DOMAIN imported'.replays
          /\ p \in Exports => p \in DOMAIN imported'.exports
      BY <3>1, <3>2 DEF Overlooked
    <3> QED BY <3>1, <3>3, <3>4, StepNames DEF Entered
  <2> QED BY <2>5, <2>6, <2>7, <2>8, <2>9, StepOfImport
<1> QED BY <1>2, <1>3

\* Where the receipts of the next state come from.
LEMMA ReceiptOrigins ==
    ASSUME BundleInv, [Next]_vars
    PROVE  /\ \/ kept' = kept
              \/ KeepReceipt
              \/ kept # None /\ kept'.payload = kept.payload /\ kept'.madeBy = kept.madeBy
              \/ kept'.madeBy = 0
           /\ expected' \in {expected, kept, None}
<1>1. CASE DownloaderStep
  <2>1. CASE EditReceipt
    <3>1. PICK payload :
            kept' = [payload |-> payload, stamp |-> clock + 1,
                     madeBy |-> IF payload = kept.payload THEN kept.madeBy ELSE 0]
      BY <2>1 DEF EditReceipt
    <3>2. kept # None
      BY <2>1 DEF EditReceipt
    <3>3. CASE payload = kept.payload
      <4>1. kept'.payload = kept.payload /\ kept'.madeBy = kept.madeBy
        BY <3>1, <3>3
      <4> QED BY <2>1, <3>2, <4>1 DEF EditReceipt, Change
    <3>4. CASE payload # kept.payload
      BY <2>1, <3>1, <3>4 DEF EditReceipt, Change
    <3> QED BY <3>3, <3>4
  <2>2. CASE ~EditReceipt
    BY <1>1, <2>2 DEF DownloaderStep, WriteFile, TouchFile, RemoveFile, LinkFile, ReplaceDir,
       SwapRoot, PutEntry, Change
  <2> QED BY <2>1, <2>2
<1>2. CASE StartReceipt \/ StartVerification \/ StartImport
  BY <1>2 DEF StartReceipt, StartVerification, StartImport, Start
<1>3. CASE Fail
  BY <1>3 DEF Fail, End
<1>4. CASE ReceiptStep /\ ~Fail
  BY <1>4 DEF ReceiptStep, BindRoot, ListDirectory, OpenSource, HashSource, RelistDirectory,
     AssertSource, ReopenRoot, KeepReceipt, OpenReceipt, LoadReceipt, Compare, Inventory, End
<1>5. CASE ImportStep /\ ~Fail
  BY <1>5 DEF ImportStep, DiscoverDirectory, OpenReplay, DigestReplay, ScanDirectory, ReadExport,
     ValidateReplay, DescribeReplay, Publish, Traverse, Import, End
<1>6. CASE UNCHANGED vars
  BY <1>6 DEF vars
<1> QED BY <1>1, <1>2, <1>3, <1>4, <1>5, <1>6 DEF Next

\* A receipt that is kept says something true of what comes after it: nothing yet.
LEMMA FiledAtFirst ==
    ASSUME BundleInv, ApartInv, KeepReceipt, NEW p \in Sources, NEW body, body \in BodyIn(Current, p)
    PROVE  Filed(Len(ran), p, body)'
<1>1. /\ pc = "print" /\ pc' = "idle" /\ ran' = ran /\ imported' = imported
      /\ files' = files /\ root' = root /\ clock' = clock
  BY DEF KeepReceipt, End, treeVars
<1>2. p \in DOMAIN inventory.hashed /\ body = inventory.hashed[p].body
  BY CurrentFacts
<1>3. body \in 1..clock /\ OnlyHere(p, body)
  BY <1>1, <1>2 DEF BundleInv, InventoryInv, Known, InventorySteps, ApartInv
<1>4. imported # None => imported.by < Len(ran) /\ imported.by \in Nat /\ Len(ran) \in Nat
  BY <1>1 DEF BundleInv, BundleTypeOK, CommandInv
<1>5. imported # None => ~(Len(ran) < imported.by)
  BY <1>4
<1>6. OnlyHere(p, body)'
  BY <1>1, <1>3 DEF OnlyHere, Held
<1> QED BY <1>1, <1>3, <1>5, <1>6, StepNames DEF Filed

\* What is said of the receipt on file.
LEMMA OnFileMeans ==
    /\ (\A by, p, body : by = kept'.madeBy /\ 0 < by /\ p \in Sources
                           /\ body \in BodyIn(kept'.payload, p) => Filed(by, p, body)')
         => OnFile(kept)'
    /\ (\A by, p, body : by = expected'.madeBy /\ 0 < by /\ p \in Sources
                           /\ body \in BodyIn(expected'.payload, p) => Filed(by, p, body)')
         => OnFile(expected)'
BY DEF OnFile, Filed

\* The receipts on file keep what they say.
LEMMA OnFileKeeps == BundleInv /\ ApartInv /\ OnFileInv /\ [Next]_vars => OnFileInv'
<1> SUFFICES ASSUME BundleInv, ApartInv, OnFileInv, [Next]_vars PROVE OnFileInv'
  OBVIOUS
<1>1. /\ \/ kept' = kept
         \/ KeepReceipt
         \/ kept # None /\ kept'.payload = kept.payload /\ kept'.madeBy = kept.madeBy
         \/ kept'.madeBy = 0
      /\ expected' \in {expected, kept, None}
  BY ReceiptOrigins
<1>2. /\ kept # None => kept.payload \in Payloads /\ kept.madeBy \in Nat
      /\ expected # None => expected.payload \in Payloads /\ expected.madeBy \in Nat
  BY DEF BundleInv, BundleTypeOK, KeptReceipts
<1>3. ASSUME NEW by, NEW p \in Sources, NEW body, kept # None, by = kept.madeBy, 0 < by,
             body \in BodyIn(kept.payload, p)
      PROVE  Filed(by, p, body)'
  <2>1. Filed(by, p, body)
    BY <1>3 DEF OnFileInv, OnFile
  <2>2. by \in Nat /\ body \in Nat
    BY <1>2, <1>3, BodyFacts
  <2> QED BY <2>1, <2>2, FiledStays
<1>4. ASSUME NEW by, NEW p \in Sources, NEW body, expected # None, by = expected.madeBy, 0 < by,
             body \in BodyIn(expected.payload, p)
      PROVE  Filed(by, p, body)'
  <2>1. Filed(by, p, body)
    BY <1>4 DEF OnFileInv, OnFile
  <2>2. by \in Nat /\ body \in Nat
    BY <1>2, <1>4, BodyFacts
  <2> QED BY <2>1, <2>2, FiledStays
<1>5. kept' # None => OnFile(kept)'
  <2> SUFFICES ASSUME kept' # None, NEW by, NEW p \in Sources, NEW body, by = kept'.madeBy, 0 < by,
                      body \in BodyIn(kept'.payload, p)
               PROVE  Filed(by, p, body)'
    BY OnFileMeans
  <2>1. CASE kept' = kept
    BY <1>3, <2>1
  <2>2. CASE KeepReceipt
    <3>1. kept'.payload = Current /\ kept'.madeBy = Len(ran)
      BY <2>2 DEF KeepReceipt
    <3> QED
      <4>1. body \in BodyIn(Current, p) /\ by = Len(ran)
        BY <3>1
      <4>2. ran' = ran
        BY <2>2 DEF KeepReceipt, End
      <4>3. Filed(Len(ran), p, body)'
        BY <2>2, <4>1, FiledAtFirst
      <4> QED BY <4>1, <4>2, <4>3 DEF Filed
  <2>3. CASE kept # None /\ kept'.payload = kept.payload /\ kept'.madeBy = kept.madeBy
    BY <1>3, <2>3
  <2> QED BY <1>1, <2>1, <2>2, <2>3
<1>6. expected' # None => OnFile(expected)'
  <2> SUFFICES ASSUME expected' # None, NEW by, NEW p \in Sources, NEW body, by = expected'.madeBy,
                      0 < by, body \in BodyIn(expected'.payload, p)
               PROVE  Filed(by, p, body)'
    BY OnFileMeans
  <2>1. CASE expected' = expected
    BY <1>4, <2>1
  <2>2. CASE expected' = kept
    BY <1>3, <2>2
  <2> QED BY <1>1, <2>1, <2>2
<1> QED BY <1>5, <1>6 DEF OnFileInv

\* What the steps of an inventory leave alone.
LEMMA WithinInventory ==
    ASSUME BundleInv, [Next]_vars, pc \in InventorySteps, pc' \in InventorySteps
    PROVE  /\ UNCHANGED <<command, expected, imported>>
           /\ inventory'.root = inventory.root
           /\ pc' = "compare" => pc = "compare" \/ root = inventory.root
           /\ root' = inventory.root => root = inventory.root
<1>1. CASE OnlyFilesChange
  BY <1>1 DEF OnlyFilesChange, BundleInv, InventoryInv, Roots
<1>2. CASE EditReceipt \/ UNCHANGED vars
  BY <1>2 DEF EditReceipt, Change, vars, treeVars
<1>3. CASE StartReceipt \/ StartVerification \/ StartImport \/ BindRoot \/ OpenReceipt \/ LoadReceipt
  BY <1>3, StepNames DEF StartReceipt, StartVerification, StartImport, Start, BindRoot, OpenReceipt,
     LoadReceipt
<1>4. CASE Fail \/ KeepReceipt \/ Compare
  BY <1>4, StepNames DEF Fail, KeepReceipt, Compare, End
<1>5. CASE ImportStep
  BY <1>5, StepNames DEF ImportStep, DiscoverDirectory, OpenReplay, DigestReplay, ScanDirectory,
     ReadExport, ValidateReplay, DescribeReplay, Publish, InventorySteps
<1>6. CASE ListDirectory \/ OpenSource \/ HashSource \/ RelistDirectory \/ AssertSource \/ ReopenRoot
  <2>1. CASE Fail
    BY <1>4, <2>1
  <2>2. CASE ~Fail
    <3>1. /\ UNCHANGED <<treeVars, command, expected, imported>>
          /\ pc' = "compare" => root = inventory.root
      BY <1>6, <2>2 DEF ListDirectory, OpenSource, HashSource, RelistDirectory, AssertSource,
         ReopenRoot, Inventory
    <3>2. inventory'.root = inventory.root
      <4>1. CASE ListDirectory
        BY <2>2, <4>1, InventoryFacts DEF ListDirectory, Inventory
      <4>2. CASE OpenSource
        BY <2>2, <4>2, InventoryFacts DEF OpenSource, Inventory
      <4>3. CASE HashSource
        BY <2>2, <4>3, InventoryFacts DEF HashSource, Inventory
      <4>4. CASE RelistDirectory
        BY <2>2, <4>4, InventoryFacts DEF RelistDirectory, Inventory
      <4>5. CASE AssertSource
        BY <2>2, <4>5, InventoryFacts DEF AssertSource, Inventory
      <4>6. CASE ReopenRoot
        BY <2>2, <4>6, InventoryFacts DEF ReopenRoot, Inventory
      <4> QED BY <1>6, <4>1, <4>2, <4>3, <4>4, <4>5, <4>6
    <3> QED BY <3>1, <3>2 DEF treeVars
  <2> QED BY <2>1, <2>2
<1> QED BY <1>1, <1>2, <1>3, <1>4, <1>5, <1>6, DownloadEffect
        DEF Next, DownloaderStep, Download, ReceiptStep, BundleInv

\* What a verification has found is what the import before it read.
LEMMA VerifiedKeeps == BundleInv /\ OnFileInv /\ VerifiedInv /\ [Next]_vars => VerifiedInv'
<1> SUFFICES ASSUME BundleInv, OnFileInv, VerifiedInv, [Next]_vars,
                    pc' \in InventorySteps, command' = "verify",
                    pc' = "compare" \/ root' = inventory'.root,
                    imported' # None, 0 < expected'.madeBy, expected'.madeBy < imported'.by,
                    NEW p \in DOMAIN inventory'.hashed, NEW body, body = inventory'.hashed[p].body,
                    body \in BodyIn(expected'.payload, p)
             PROVE  Entered(p, body)'
  BY DEF VerifiedInv, Entered, ReadOnly
<1>1. /\ pc \in InventorySteps /\ p \in Sources
      /\ \/ p \in DOMAIN inventory.hashed /\ inventory'.hashed[p] = inventory.hashed[p]
         \/ Tree[p] # None /\ inventory'.hashed[p] = Tree[p] /\ pc = "hash"
  BY NewlyHashed
<1>2. /\ command' = command /\ expected' = expected /\ imported' = imported
      /\ pc = "compare" \/ root = inventory.root
  BY <1>1, WithinInventory
<1>3. Entered(p, body)
  <2>1. CASE p \in DOMAIN inventory.hashed /\ inventory'.hashed[p] = inventory.hashed[p]
    BY <1>1, <1>2, <2>1 DEF VerifiedInv
  <2>2. CASE Tree[p] # None /\ inventory'.hashed[p] = Tree[p] /\ pc = "hash"
    <3>1. expected # None /\ expected.madeBy \in Nat
      BY <1>2, <2>2 DEF BundleInv, CommandInv, BundleTypeOK, KeptReceipts
    <3>2. Filed(expected.madeBy, p, body)
      BY <1>1, <1>2, <3>1 DEF OnFileInv, OnFile
    <3>3. files[root][p] # None /\ files[root][p].body = body
      BY <1>2, <2>2 DEF Tree
    <3> QED BY <1>2, <3>2, <3>3, LostIsGone DEF Filed
  <2> QED BY <1>1, <2>1, <2>2
<1> QED BY <1>2, <1>3 DEF Entered, ReadOnly

\* A clean verdict after an import confirms what it read.
LEMMA BracketedKeeps ==
    BundleInv /\ VerifiedInv /\ BracketedImport /\ [Next]_vars => BracketedImport'
<1> SUFFICES ASSUME BundleInv, VerifiedInv, BracketedImport, [Next]_vars PROVE BracketedImport'
  OBVIOUS
<1>1. CASE verdict' = None
  BY <1>1 DEF BracketedImport
<1>2. CASE verdict' = verdict /\ imported' = imported
  BY <1>2 DEF BracketedImport
<1>3. CASE verdict' = verdict /\ Publish
  <2>1. imported'.by = Len(ran) /\ Len(ran) \in Nat
    BY <1>3, PublishEffect DEF BundleInv, BundleTypeOK
  <2>2. verdict # None => verdict.by \in Nat /\ verdict.by <= Len(ran)
    BY DEF BundleInv, BundleTypeOK, CommandInv
  <2>3. verdict # None => ~(imported'.by < verdict'.by)
    BY <1>3, <2>1, <2>2
  <2> QED BY <1>3, <2>3 DEF BracketedImport
<1>4. CASE verdict' # verdict /\ verdict' # None
  <2>1. Compare /\ ~Fail
    BY <1>4, NewVerdict
  <2>2. /\ kept = expected /\ imported' = imported
        /\ verdict'.receipt = expected
        /\ verdict'.clean => expected.payload = Current
    BY <1>4, <2>1, CompareVerdict
  <2>3. pc = "compare" /\ command = "verify" /\ pc \in InventorySteps
    BY <2>1 DEF Compare, BundleInv, CommandInv, InventorySteps
  <2> SUFFICES ASSUME imported # None, verdict'.clean, 0 < expected.madeBy,
                      expected.madeBy < imported.by, NEW p \in PathsIn(expected.payload)
               PROVE  /\ p \in Replays =>
                            p \in DOMAIN imported.replays
                            /\ imported.replays[p] \in BodyIn(expected.payload, p)
                      /\ p \in DOMAIN imported.checked =>
                            /\ imported.checked[p] \in BodyIn(expected.payload, p)
                            /\ imported.described[p] \in BodyIn(expected.payload, p)
                      /\ p \in Exports =>
                            p \in DOMAIN imported.exports
                            /\ imported.exports[p] \in BodyIn(expected.payload, p)
    BY <2>2 DEF BracketedImport
  <2>4. /\ p \in DOMAIN inventory.hashed
        /\ BodyIn(expected.payload, p) = {inventory.hashed[p].body}
    BY <2>2, CurrentFacts
  <2>5. Entered(p, inventory.hashed[p].body)
    BY <2>3, <2>4 DEF VerifiedInv
  <2>6. DOMAIN imported.described = DOMAIN imported.checked
    BY ImportFacts
  <2> QED BY <2>4, <2>5, <2>6 DEF Entered, ReadOnly
<1> QED BY <1>1, <1>2, <1>3, <1>4, StepOfImport

\* The first state satisfies the rest of the invariant, when the two exports hold
\* different bytes at each path.
LEMMA InitBracket == ExportsTellApart /\ Init => BracketInv
<1> SUFFICES ASSUME ExportsTellApart, Init PROVE BracketInv
  OBVIOUS
<1>1. BundleInv
  BY InitBundle
<1>2. /\ kept = None /\ pc = "idle" /\ expected = None /\ verdict = None
  BY DEF Init
<1>3. ApartInv
  <2>1. PICK original \in Originals :
          files = [r \in Roots |-> [p \in Sources |->
                     IF original[r][p] = 0 THEN None
                     ELSE [link |-> FALSE, stamp |-> 0, body |-> original[r][p]]]]
    BY DEF Init
  <2>2. \A r \in Roots, p \in Sources :
           files[r][p] # None => original[r][p] # 0 /\ files[r][p].body = original[r][p]
    BY <2>1
  <2>3. \A p \in Sources : files[1][p] # None => OnlyHere(p, files[1][p].body)
    BY <2>2 DEF ExportsTellApart, OnlyHere, Held, Roots
  <2> QED BY <1>2, <2>3, StepNames DEF ApartInv
<1> QED BY <1>1, <1>2, <1>3, StepNames DEF BracketInv, OnFileInv, VerifiedInv, BracketedImport

\* When a receipt was made before an import and verified clean after it, the import
\* read the listed bytes, at every time it opened a listed source and in whatever
\* order the files changed, the receipt was edited and the root was replaced.  The
\* condition is on the two exports an operator may swap: no path has the same bytes
\* in both.
THEOREM ImportsBracketed == ExportsTellApart => (Spec => []BracketedImport)
<1> SUFFICES ASSUME ExportsTellApart PROVE Spec => []BracketedImport
  OBVIOUS
<1>1. Init => BracketInv
  BY InitBracket
<1>2. BracketInv /\ [Next]_vars => BracketInv'
  BY NextKeeps, ApartKeeps, OnFileKeeps, VerifiedKeeps, BracketedKeeps DEF BracketInv
<1>3. BracketInv => BracketedImport
  BY DEF BracketInv
<1> QED BY <1>1, <1>2, <1>3, PTL DEF Spec
==============================================================================
