------------------------ MODULE LegacyVerifierProofs ------------------------
(***************************************************************************)
(* Proofs about LegacyVerifier, for any names, any limits, any number of   *)
(* changes by other processes and any files: what the tool holds in memory *)
(* stays within its limits, what PASS says is true of the bytes the        *)
(* manifest lists, and left alone the tool passes a directory exactly if   *)
(* it is in order.                                                         *)
(*                                                                         *)
(* IInv holds whoever interferes.  It says what can be there to be read    *)
(* (Typed), that the manifest the loop follows has passed its own checks   *)
(* (Listed), that the loop has read, up to where it is, what the manifest  *)
(* says (Collected), and that total is the number of fragments it holds,   *)
(* which leaves room for those of the entry it is at (Counted).            *)
(*                                                                         *)
(* AInv holds as long as nobody does.  Then what has been read is the      *)
(* beginning of what there is (Followed), and the directory agrees with    *)
(* the manifest in all the loop has come to (Matched), so that a check     *)
(* fails only where the directory is not in order.                         *)
(***************************************************************************)
EXTENDS LegacyVerifier, FiniteSetTheorems, SequenceTheorems, TLAPS

(* Where the calls for the manifest and those for an entry are.            *)
ReadingManifest ==
    target = ManifestName /\ pc \in {"lstat", "open", "waiting", "fstat", "read", "parse"}

ReadingEntry ==
    target # ManifestName /\ pc \in {"lstat", "open", "waiting", "fstat", "read", "compare"}

Looping == ReadingEntry \/ pc \in {"entry", "contracts"} \/ verdict = "PASS"

(* What was there to be read.                                              *)
Typed ==
    /\ IsDirectory(root)
    /\ target \in Names /\ IsArray(payload)
    /\ pc \in {"waiting", "fstat", "read"} => IsFile(target, stream)
    /\ pc \in {"waiting", "fstat", "read", "parse", "compare"} => IsContent(target, payload)
    /\ pc \in {"lstat", "open", "waiting", "fstat", "read", "parse", "list", "entry", "compare",
               "contracts", "done"}
    /\ pc = "parse" => target = ManifestName
    /\ pc = "compare" => target # ManifestName
    /\ verdict = "PENDING" <=> pc # "done"

(* The manifest as it was read.                                            *)
Sound ==
    /\ IsManifest(manifest) /\ manifest # WrongType /\ manifest.schema_version = 1
    /\ InventoryFault(manifest.snapshot) = {}

Listed ==
    /\ ReadingManifest \/ pc = "list" => k = 1 /\ total = 0 /\ contents = << >>
    /\ Looping \/ pc = "list" => Sound
    /\ Looping =>
          /\ Range(PathsOf(Inventory)) \subseteq HtmlLike \cup {Site}
          /\ k \in 1..(Len(Inventory) + 1)

(* The files as they were read.                                            *)
Collected ==
    Looping =>
       /\ contents = [path \in {Inventory[i].path : i \in 1..(k - 1)} |-> contents[path]]
       /\ \A i \in 1..(k - 1) : contents[Inventory[i].path] = Inventory[i].sha256
       /\ \A path \in DOMAIN contents : IsContent(path, contents[path])

Counted ==
    /\ total = Cardinality(Places(contents)) /\ IsFiniteSet(Places(contents))
    /\ total \in Nat /\ total <= MaxTotal
    /\ Len(payload) <= MaxBytes + 1
    /\ pc \in {"list", "entry"} => Len(payload) <= MaxFile + 1
    /\ ReadingEntry =>
          k \in 1..Len(Inventory) /\ target = Entry.path /\ total + Entry.bytes <= MaxTotal
    /\ pc = "contracts" \/ verdict = "PASS" =>
          k = Len(Inventory) + 1 /\ total = DeclaredBytes(Inventory)

Passed == verdict = "PASS" => ContractsFault(manifest, contents) = {}

IInv == Typed /\ Listed /\ Collected /\ Counted /\ Passed

(* The bytes the first entries declare.                                    *)
Sum(inventory) ==
    LET sum[n \in 0..Len(inventory)] == IF n = 0 THEN 0 ELSE sum[n - 1] + inventory[n].bytes
    IN  sum

(* The reader, when nobody else does anything.                             *)
Followed ==
    /\ pc # "waiting"
    /\ pc \in {"open", "fstat", "read", "parse", "compare"} =>
          root[target].kind = "regular" /\ Len(root[target].data) <= MaxBytes
    /\ pc \in {"fstat", "read"} => stream = root[target]
    /\ pc = "fstat" => payload = << >>
    /\ pc = "read" => /\ Len(payload) <= Len(root[target].data)
                      /\ \A i \in 1..Len(payload) : payload[i] = root[target].data[i]
    /\ pc \in {"parse", "compare"} => payload = root[target].data

(* The loop over the entries, when nobody else does anything.              *)
Matched ==
    /\ Looping \/ pc = "list" => root[ManifestName] = [kind |-> "regular", data |-> <<manifest>>]
    /\ Looping =>
          /\ Range(PathsOf(Inventory)) =
                {Site} \cup {name \in HtmlLike : root[name].kind # "absent"}
          /\ \A i \in 1..(k - 1) :
                /\ root[Inventory[i].path] = [kind |-> "regular", data |-> Inventory[i].sha256]
                /\ Len(Inventory[i].sha256) = Inventory[i].bytes
          /\ total = Sum(Inventory)[k - 1]

AInv == alone => /\ verdict = "PENDING" => Followed /\ Matched
                 /\ verdict # "PENDING" => (verdict = "PASS" <=> Intact)

-----------------------------------------------------------------------------
(* Checks.                                                                 *)

LEMMA Faultless ==
  /\ \A bad : (Schema(bad) = {} <=> ~bad) /\ (Limit(bad) = {} <=> ~bad)
  /\ \A bad, code : Blame(bad, code) = {} <=> ~bad
  /\ \A f, g : (f ?? g) = {} <=> (f = {} /\ g = {})
  BY DEF Schema, Limit, Blame, ??

(* Nothing is wrong: both checks of two passed.                            *)
Clean(f) == f = {}

LEMMA BothClean ==
  /\ \A f, g : Clean(f ?? g) => Clean(f) /\ Clean(g)
  /\ \A f, g : Clean(f) /\ Clean(g) => Clean(f ?? g)
  BY DEF Clean, ??

(* Some member of a finite set of integers is least: one of its initial    *)
(* parts is minimal for inclusion.                                         *)
LEMMA SomeLeast ==
  ASSUME NEW S \in SUBSET Int, S # {}, IsFiniteSet(S)
  PROVE  \E x \in S : \A y \in S : x <= y
<1> DEFINE upTo(n) == {y \in S : y <= n}
           starts  == {upTo(n) : n \in S}
<1>1. starts \subseteq FiniteSubsetsOf(S)
  <2> SUFFICES ASSUME NEW n \in S PROVE upTo(n) \in FiniteSubsetsOf(S)  OBVIOUS
  <2>1. IsFiniteSet(upTo(n))
    BY FS_Subset
  <2> QED  BY <2>1 DEF FiniteSubsetsOf
<1>2. PICK T \in starts : \A U \in starts : ~(<<U, T>> \in StrictSubsetOrdering(S))
  <2>1. starts # {}  OBVIOUS
  <2>2. IsWellFoundedOn(StrictSubsetOrdering(S), FiniteSubsetsOf(S))
    BY FS_StrictSubsetOrderingWellFounded
  <2> HIDE DEF starts
  <2> QED  BY <1>1, <2>1, <2>2, WFMin
<1>3. PICK x \in S : T = upTo(x)  OBVIOUS
<1>4. ASSUME NEW y \in S, y < x PROVE FALSE
  <2>1. x \in Int /\ y \in Int /\ \A z \in S : z \in Int  OBVIOUS
  <2>2. \A z \in S : z <= y => z <= x  BY <1>4, <2>1
  <2>3. ~(x <= y) /\ x <= x  BY <1>4, <2>1
  <2>4. upTo(y) \subseteq upTo(x)  BY <2>2
  <2>5. x \in upTo(x) /\ x \notin upTo(y)  BY <2>3
  <2>6. <<upTo(y), T>> \in StrictSubsetOrdering(S)
    BY <2>4, <2>5, <1>3 DEF StrictSubsetOrdering
  <2> QED  BY <1>2, <2>6
<1>5. \A y \in S : x <= y  BY <1>4
<1> QED  BY <1>5

LEMMA Least ==
  ASSUME NEW n \in Nat, NEW S \in SUBSET (1..n), S # {}
  PROVE  Min(S) \in S /\ \A y \in S : Min(S) <= y
<1>1. IsFiniteSet(S)
  <2>1. IsFiniteSet(1..n)  BY FS_Interval
  <2> QED  BY <2>1, FS_Subset
<1>2. S \in SUBSET Int  OBVIOUS
<1>3. \E x \in S : \A y \in S : x <= y
  BY <1>1, <1>2, SomeLeast
<1> QED  BY <1>3 DEF Min

-----------------------------------------------------------------------------
(* The sum of the declared sizes.                                          *)

LEMMA UpTo ==
  ASSUME NEW n \in Nat, NEW P, 0 \in P, \A m \in 1..n : m - 1 \in P => m \in P
  PROVE  0..n \subseteq P
<1> DEFINE S == (1..n) \ P
<1>1. SUFFICES ASSUME S # {} PROVE FALSE
  <2> SUFFICES ASSUME S = {} PROVE 0..n \subseteq P  OBVIOUS
  <2>1. \A i \in 0..n : i = 0 \/ i \in 1..n  OBVIOUS
  <2> QED  BY <2>1
<1>2. S \in SUBSET (1..n)  OBVIOUS
<1> DEFINE m == Min(S)
<1>3. m \in S /\ \A y \in S : m <= y
  <2> HIDE DEF S
  <2> QED  BY <1>1, <1>2, Least
<1> HIDE DEF m
<1>4. m \in 1..n /\ m \notin P /\ m - 1 \notin S  BY <1>3
<1>5. m - 1 \in P
  <2>1. m - 1 = 0 \/ m - 1 \in 1..n  BY <1>4
  <2> QED  BY <1>4, <2>1
<1> QED  BY <1>4, <1>5

LEMMA SumExists ==
  ASSUME NEW n \in Nat, NEW b \in [1..n -> Nat]
  PROVE  \E g \in [0..n -> Nat] : g[0] = 0 /\ \A i \in 1..n : g[i] = g[i - 1] + b[i]
<1> DEFINE IsSum(g, m) ==
              g \in [0..m -> Nat] /\ g[0] = 0 /\ \A i \in 1..m : g[i] = g[i - 1] + b[i]
           P == {m \in 0..n : \E g : IsSum(g, m)}
<1>1. 0 \in P
  <2>1. IsSum([i \in 0..0 |-> 0], 0)  OBVIOUS
  <2> HIDE DEF IsSum
  <2> QED  BY <2>1
<1>2. ASSUME NEW m \in 1..n, m - 1 \in P PROVE m \in P
  <2>1. PICK g : IsSum(g, m - 1)  BY <1>2
  <2> DEFINE h == [i \in 0..m |-> IF i = m THEN g[m - 1] + b[m] ELSE g[i]]
  <2>2. m \in Nat /\ 0 \in 0..m /\ 0 # m /\ m - 1 \in 0..(m - 1) /\ m \in 0..m
    OBVIOUS
  <2>3. \A i \in 0..m : i = m \/ i \in 0..(m - 1)  OBVIOUS
  <2>4. \A i \in 1..m : i \in 0..m /\ i - 1 \in 0..m /\ i - 1 # m /\ (i = m \/ i \in 1..(m - 1))
    OBVIOUS
  <2>5. h \in [0..m -> Nat] /\ h[0] = 0  BY <2>1, <2>2, <2>3
  <2>6. ASSUME NEW i \in 1..m PROVE h[i] = h[i - 1] + b[i]
    <3>1. CASE i = m
      <4>1. h[i] = g[m - 1] + b[m] /\ h[i - 1] = g[m - 1]  BY <2>4, <3>1
      <4> QED  BY <3>1, <4>1
    <3>2. CASE i # m
      <4>1. h[i] = g[i] /\ h[i - 1] = g[i - 1]  BY <2>4, <3>2
      <4>2. g[i] = g[i - 1] + b[i]  BY <2>1, <2>4, <3>2
      <4> QED  BY <4>1, <4>2
    <3> QED  BY <3>1, <3>2
  <2>7. IsSum(h, m)  BY <2>5, <2>6
  <2> HIDE DEF h, IsSum
  <2> QED  BY <1>2, <2>7
<1>3. n \in P
  <2> HIDE DEF P
  <2>1. 0..n \subseteq P  BY <1>1, <1>2, UpTo
  <2> QED  BY <2>1
<1> QED  BY <1>3 DEF P

LEMMA Sums ==
  ASSUME NEW inventory, Len(inventory) \in Nat,
         \A i \in 1..Len(inventory) : inventory[i].bytes \in Nat
  PROVE  /\ DeclaredBytes(inventory) = Sum(inventory)[Len(inventory)]
         /\ Sum(inventory)[0] = 0
         /\ \A i \in 1..Len(inventory) :
               Sum(inventory)[i] = Sum(inventory)[i - 1] + inventory[i].bytes
         /\ \A i \in 0..Len(inventory) :
               Sum(inventory)[i] \in Nat /\ Sum(inventory)[i] <= DeclaredBytes(inventory)
<1> DEFINE n == Len(inventory)
           sum == Sum(inventory)
<1>1. PICK g \in [0..n -> Nat] : g[0] = 0 /\ \A i \in 1..n : g[i] = g[i - 1] + inventory[i].bytes
  <2> DEFINE b == [i \in 1..n |-> inventory[i].bytes]
  <2>1. b \in [1..n -> Nat]  OBVIOUS
  <2>2. PICK g \in [0..n -> Nat] : g[0] = 0 /\ \A i \in 1..n : g[i] = g[i - 1] + b[i]
    <3> HIDE DEF b, n
    <3>1. n \in Nat  BY DEF n
    <3> QED  BY <2>1, <3>1, SumExists
  <2> QED  BY <2>2
<1>2. g = [i \in 0..n |-> IF i = 0 THEN 0 ELSE g[i - 1] + inventory[i].bytes]
  <2>1. \A i \in 0..n : i = 0 \/ i \in 1..n  OBVIOUS
  <2> QED  BY <1>1, <2>1
<1>3. sum = [i \in 0..n |-> IF i = 0 THEN 0 ELSE sum[i - 1] + inventory[i].bytes]
  BY <1>2 DEF Sum
<1>4. DeclaredBytes(inventory) = sum[n]
  BY DEF DeclaredBytes, Total, Sum
<1> HIDE DEF sum
<1>5. /\ sum[0] = 0
      /\ \A i \in 1..n : sum[i] = sum[i - 1] + inventory[i].bytes
  <2>1. 0 \in 0..n /\ \A i \in 1..n : i \in 0..n /\ i # 0  OBVIOUS
  <2> QED  BY <1>3, <2>1
<1>6. \A i \in 0..n : sum[i] \in Nat
  <2> DEFINE P == {i \in 0..n : sum[i] \in Nat}
  <2>1. 0 \in P  BY <1>5
  <2>2. \A m \in 1..n : m - 1 \in P => m \in P
    <3> SUFFICES ASSUME NEW m \in 1..n, sum[m - 1] \in Nat PROVE m \in 0..n /\ sum[m] \in Nat
      OBVIOUS
    <3> QED  BY <1>5
  <2> HIDE DEF P, n
  <2>3. n \in Nat  BY DEF n
  <2>4. 0..n \subseteq P  BY <2>1, <2>2, <2>3, UpTo
  <2> QED  BY <2>4 DEF P
<1>7. \A i \in 0..n : sum[i] <= sum[n]
  <2> DEFINE P == {d \in 0..n : sum[n - d] <= sum[n]}
  <2>1. 0 \in P  BY <1>6
  <2>2. \A m \in 1..n : m - 1 \in P => m \in P
    <3> SUFFICES ASSUME NEW m \in 1..n, sum[n - (m - 1)] <= sum[n]
                 PROVE  m \in 0..n /\ sum[n - m] <= sum[n]
      BY DEF P
    <3>1. n - (m - 1) \in 1..n /\ n - m \in 0..n /\ n \in 0..n /\ n - (m - 1) - 1 = n - m
      <4>1. n \in Nat /\ m \in 1..n  OBVIOUS
      <4> HIDE DEF n
      <4> QED  BY ONLY <4>1
    <3>2. sum[n - (m - 1)] = sum[n - m] + inventory[n - (m - 1)].bytes  BY <1>5, <3>1
    <3>3. /\ sum[n - (m - 1)] \in Nat /\ sum[n - m] \in Nat /\ sum[n] \in Nat
          /\ inventory[n - (m - 1)].bytes \in Nat
      <4>1. n - (m - 1) \in 0..n  BY <3>1
      <4> QED  BY <1>6, <3>1, <4>1
    <3>4. m \in 0..n  OBVIOUS
    <3> QED  BY <3>2, <3>3, <3>4
  <2> HIDE DEF P, n
  <2>3. n \in Nat  BY DEF n
  <2>4. 0..n \subseteq P  BY <2>1, <2>2, <2>3, UpTo
  <2> SUFFICES ASSUME NEW i \in 0..n PROVE sum[i] <= sum[n]  OBVIOUS
  <2>5. n - i \in 0..n /\ n - (n - i) = i  BY <2>3
  <2>6. n - i \in P  BY <2>4, <2>5
  <2>7. sum[n - (n - i)] <= sum[n]  BY <2>6 DEF P
  <2> QED  BY <2>5, <2>7
<1> QED  BY <1>4, <1>5, <1>6, <1>7 DEF sum

(* ... and the size of what was read.                                      *)
LEMMA PlacesOfOneMore ==
  ASSUME NEW c, NEW p, p \notin DOMAIN c, NEW d, IsArray(d), IsFiniteSet(Places(c)),
         NEW e, e = [path \in DOMAIN c \cup {p} |-> IF path = p THEN d ELSE c[path]]
  PROVE  /\ IsFiniteSet(Places(e))
         /\ Cardinality(Places(e)) = Cardinality(Places(c)) + Len(d)
<1> DEFINE new == {p} \X (1..Len(d))
<1>1. Len(d) \in Nat /\ DOMAIN d = 1..Len(d)  BY DEF IsArray
<1>2. Places(e) = Places(c) \cup new  BY <1>1 DEF Places
<1>3. Places(c) \cap new = {}  BY DEF Places
<1>4. IsFiniteSet(new) /\ Cardinality(new) = Len(d)
  <2>1. IsFiniteSet(1..Len(d)) /\ Cardinality(1..Len(d)) = Len(d)  BY <1>1, FS_Interval
  <2>2. IsFiniteSet({p}) /\ Cardinality({p}) = 1  BY FS_Singleton
  <2>3. IsFiniteSet(new) /\ Cardinality(new) = Cardinality({p}) * Cardinality(1..Len(d))
    BY <2>1, <2>2, FS_Product
  <2> QED  BY <1>1, <2>1, <2>2, <2>3
<1> HIDE DEF new
<1>5. /\ IsFiniteSet(Places(c) \cup new)
      /\ Cardinality(Places(c) \cup new) =
            Cardinality(Places(c)) + Cardinality(new) - Cardinality(Places(c) \cap new)
  BY <1>4, FS_Union
<1>6. Cardinality({}) = 0 /\ Cardinality(Places(c)) \in Nat  BY FS_EmptySet, FS_CardinalityType
<1>7. IsFiniteSet(Places(e)) /\ Cardinality(Places(e)) = Cardinality(Places(c)) + Len(d) - 0
  BY <1>2, <1>3, <1>4, <1>5, <1>6
<1> QED  BY <1>1, <1>6, <1>7

-----------------------------------------------------------------------------
(* The verdict of a check that fails is a failure code.                    *)

IsFault(f) == "PASS" \notin f /\ "PENDING" \notin f

LEMMA FaultCodes ==
  /\ \A bad, code : code # "PASS" /\ code # "PENDING" => IsFault(Blame(bad, code))
  /\ \A bad : IsFault(Schema(bad)) /\ IsFault(Limit(bad))
  /\ \A f, g : IsFault(f) /\ IsFault(g) => IsFault(f ?? g)
  BY DEF IsFault, Blame, Schema, Limit, ??

LEMMA KindAndSizeCodes ==
  \A file : IsFault(KindAndSizeFault(file))
<1> SUFFICES ASSUME NEW file PROVE IsFault(KindAndSizeFault(file))  OBVIOUS
<1>1. Unreadable # "PASS" /\ Unreadable # "PENDING"  BY DEF Unreadable
<1>2. IsFault(Blame(file.kind # "regular", Unreadable))  BY <1>1, FaultCodes
<1> QED  BY <1>2, FaultCodes DEF KindAndSizeFault

LEMMA NaturalCodes ==
  \A value : IsFault(Natural(value))
  BY FaultCodes DEF Natural

LEMMA EntryCodes ==
  \A entry : IsFault(EntryFault(entry))
<1> SUFFICES ASSUME NEW entry PROVE IsFault(EntryFault(entry))  OBVIOUS
<1>1. IsFault(Schema(entry = WrongType)) /\ IsFault(Schema(entry.path = WrongType))  BY FaultCodes
<1>2. IsFault(Natural(entry.bytes))  BY NaturalCodes
<1>3. IsFault(Limit(entry.bytes > MaxFile)) /\ IsFault(Schema(entry.sha256 = WrongType))
  BY FaultCodes
<1> QED  BY <1>1, <1>2, <1>3, FaultCodes, Zenon DEF EntryFault

LEMMA InventoryCodes ==
  \A snapshot : IsFault(InventoryFault(snapshot))
<1> SUFFICES ASSUME NEW s PROVE IsFault(InventoryFault(s))  OBVIOUS
<1>1. IsFault(FirstFault(s.inventory, EntryFault))
  BY EntryCodes DEF FirstFault, IsFault
<1>2. IsFault(Natural(s.count)) /\ IsFault(Natural(s.total))  BY NaturalCodes
<1>3. \A bad : IsFault(Schema(bad)) /\ IsFault(Limit(bad))  BY FaultCodes
<1>4. \A f, g : IsFault(f) /\ IsFault(g) => IsFault(f ?? g)  BY FaultCodes
<1> QED  BY <1>1, <1>2, <1>3, <1>4, Zenon DEF InventoryFault

(* A data URI that cannot be decoded ends in one of the codes of its       *)
(* fragment: of finitely many places one is first.                         *)
LEMMA FirstPlace ==
  ASSUME NEW bad, IsFiniteSet(bad), bad # {}, \A x \in bad : x[1] \in Int /\ x[2] \in Int
  PROVE  \E x \in bad : \A y \in bad : x[1] < y[1] \/ (x[1] = y[1] /\ x[2] <= y[2])
<1> DEFINE files == {x[1] : x \in bad}
<1>1. PICK m \in files : \A n \in files : m <= n
  <2>1. IsFiniteSet(files)
    <3>1. [x \in bad |-> x[1]] \in Surjection(bad, files)  BY DEF Surjection
    <3> HIDE DEF files
    <3> QED  BY <3>1, FS_Surjection
  <2>2. files \in SUBSET Int /\ files # {}  OBVIOUS
  <2> HIDE DEF files
  <2> QED  BY <2>1, <2>2, SomeLeast
<1> DEFINE here == {x \in bad : x[1] = m}
           places == {x[2] : x \in here}
<1>2. PICK i \in places : \A j \in places : i <= j
  <2>1. IsFiniteSet(here)  BY FS_Subset
  <2>2. IsFiniteSet(places)
    <3>1. [x \in here |-> x[2]] \in Surjection(here, places)  BY DEF Surjection
    <3> HIDE DEF here, places
    <3> QED  BY <2>1, <3>1, FS_Surjection
  <2>3. places \in SUBSET Int /\ places # {}  OBVIOUS
  <2> HIDE DEF places
  <2> QED  BY <2>2, <2>3, SomeLeast
<1>3. PICK x \in bad : x[1] = m /\ x[2] = i  OBVIOUS
<1>4. ASSUME NEW y \in bad PROVE x[1] < y[1] \/ (x[1] = y[1] /\ x[2] <= y[2])
  <2>1. m <= y[1] /\ y[1] \in Int /\ m \in Int  BY <1>1, <1>3
  <2>2. CASE y[1] = m
    <3>1. y[2] \in places  BY <2>2
    <3> QED  BY <1>2, <1>3, <2>2, <3>1
  <2>3. CASE y[1] # m  BY <1>3, <2>1, <2>3
  <2> QED  BY <2>2, <2>3
<1> QED  BY <1>4

(* What is known of the contents that were read.                           *)
AreContents(c) ==
    /\ DOMAIN c \subseteq HtmlLike \cup {Site} /\ IsFiniteSet(Places(c))
    /\ \A path \in DOMAIN c : IsContent(path, c[path])

LEMMA CollectCodes ==
  ASSUME NEW c, AreContents(c), NEW media \in SUBSET Places(c)
  PROVE  IsFault(CollectFault(c, media))
<1> DEFINE bad == {x \in media : Fragment(c, x).flaw # ""}
<1>1. CASE bad = {}  BY <1>1 DEF CollectFault, IsFault
<1>2. CASE bad # {}
  <2>1. ASSUME NEW x \in bad
        PROVE  /\ x[1] \in Int /\ x[2] \in Int
               /\ Fragment(c, x).flaw \in {"", "embedded_media_invalid", "resource_limit_exceeded"}
    <3> x \in Places(c)  OBVIOUS
    <3> HIDE DEF bad
    <3>1. PICK path \in DOMAIN c : x \in {path} \X DOMAIN c[path]  BY DEF Places
    <3>2. x[1] = path /\ x[2] \in DOMAIN c[path]  BY <3>1
    <3>3. IsContent(path, c[path]) /\ path \in HtmlLike \cup {Site}  BY DEF AreContents
    <3>4. path \in Nat /\ path # ManifestName
      BY <3>3, NamesAssumption, PathsAssumption
    <3>5. IsArray(c[path]) /\ \A y \in Range(c[path]) : IsFragment(y)  BY <3>3, <3>4 DEF IsContent
    <3>6. DOMAIN c[path] = 1..Len(c[path]) /\ Len(c[path]) \in Nat  BY <3>5 DEF IsArray
    <3>7. x[2] \in Int  BY <3>2, <3>6
    <3>8. IsFragment(c[path][x[2]])  BY <3>2, <3>5 DEF Range
    <3>9. Fragment(c, x) = c[path][x[2]]  BY <3>2 DEF Fragment
    <3>10. Fragment(c, x).flaw \in {"", "embedded_media_invalid", "resource_limit_exceeded"}
      BY <3>8, <3>9 DEF IsFragment
    <3>11. x[1] \in Int  BY <3>2, <3>4
    <3> QED  BY <3>7, <3>10, <3>11
  <2>2. IsFiniteSet(bad)  BY FS_Subset DEF AreContents
  <2>3. \E x \in bad : \A y \in bad : x[1] < y[1] \/ (x[1] = y[1] /\ x[2] <= y[2])
    <3> HIDE DEF bad
    <3> QED  BY <1>2, <2>1, <2>2, FirstPlace
  <2> DEFINE first == CHOOSE x \in bad :
                          \A y \in bad : x[1] < y[1] \/ (x[1] = y[1] /\ x[2] <= y[2])
  <2>4. first \in bad
    <3> HIDE DEF bad
    <3> QED  BY <2>3
  <2>5. CollectFault(c, media) = {Fragment(c, first).flaw}  BY <1>2 DEF CollectFault
  <2> HIDE DEF first, bad
  <2> QED  BY <2>1, <2>4, <2>5 DEF IsFault
<1> QED  BY <1>1, <1>2

LEMMA ContractCodes ==
  ASSUME NEW m, NEW c, AreContents(c)
  PROVE  IsFault(ContractsFault(m, c))
<1>1. \A bad : IsFault(Schema(bad)) /\ IsFault(Limit(bad))  BY FaultCodes
<1>2. \A f, g : IsFault(f) /\ IsFault(g) => IsFault(f ?? g)  BY FaultCodes
<1>3. \A bad, code : code # "PASS" /\ code # "PENDING" => IsFault(Blame(bad, code))  BY FaultCodes
<1>4. ASSUME NEW mime
      PROVE  /\ IsFault(CollectFault(c, InBytes(c, mime)))
             /\ IsFault(CollectFault(c, InSettings(c, mime)))
             /\ IsFault(CollectFault(c, InDocuments(c, mime)))
  <2>1. /\ InBytes(c, mime) \subseteq Places(c) /\ InSettings(c, mime) \subseteq Places(c)
        /\ InDocuments(c, mime) \subseteq Places(c)
    BY DEF InBytes, InSettings, InDocuments
  <2> QED  BY <2>1, CollectCodes
<1>5. IsFault(GeneratorFault(m.generator, c[Site]))
  BY <1>1, <1>2, <1>3 DEF GeneratorFault
<1>6. IsFault(JpegSchemaFault(m.jpegs))
  <2>1. \A location : IsFault(LocationFault(location))
    BY <1>1, <1>2, NaturalCodes, Zenon DEF LocationFault
  <2>2. ASSUME NEW locations PROVE IsFault(FirstFault(locations, LocationFault))
    BY <2>1 DEF FirstFault, IsFault
  <2>3. \A value : IsFault(PayloadFault(value))
    BY <1>1, <1>2, <2>2, NaturalCodes, Zenon DEF PayloadFault
  <2>4. IsFault(FirstFault(m.jpegs.payloads, PayloadFault))
    BY <2>3 DEF FirstFault, IsFault
  <2> QED  BY <1>1, <1>2, <2>4, NaturalCodes, Zenon DEF JpegSchemaFault
<1>7. IsFault(JpegFault(m.jpegs, c))
  <2>1. \A bad : /\ IsFault(Blame(bad, "generator_metadata_mismatch"))
                 /\ IsFault(Blame(bad, "embedded_media_mismatch"))
    BY <1>3
  <2> QED  BY <1>2, <1>4, <1>6, <2>1, Zenon DEF JpegFault
<1>8. IsFault(RiskFault(m.risk, c))
  <2>1. \A bad : /\ IsFault(Blame(bad, "legacy_text_invalid"))
                 /\ IsFault(Blame(bad, "third_party_mark_mismatch"))
                 /\ IsFault(Blame(bad, "redacted_risk_mismatch"))
    BY <1>3
  <2> QED  BY <1>1, <1>2, <1>4, <2>1, Zenon DEF RiskFault
<1> QED  BY <1>2, <1>5, <1>7, <1>8, Zenon DEF ContractsFault

-----------------------------------------------------------------------------
(* What the schema says of an inventory without a fault.                   *)

LEMMA InventoryFacts ==
  ASSUME NEW s, IsSnapshot(s), InventoryFault(s) = {}
  PROVE  /\ Len(s.inventory) \in Nat /\ DOMAIN s.inventory = 1..Len(s.inventory)
         /\ \A i \in 1..Len(s.inventory) :
               s.inventory[i].bytes \in Nat /\ s.inventory[i].bytes <= MaxFile
         /\ \A i, j \in 1..Len(s.inventory) :
               s.inventory[i].path = s.inventory[j].path => i = j
         /\ DeclaredBytes(s.inventory) = s.total /\ s.total \in Nat /\ s.total <= MaxTotal
<1> DEFINE inventory == s.inventory
           paths == PathsOf(inventory)
<1>1. /\ s # WrongType /\ Natural(s.total) = {} /\ ~(s.total > MaxTotal)
      /\ inventory # WrongType /\ FirstFault(inventory, EntryFault) = {}
      /\ IsInjective(paths) /\ DeclaredBytes(inventory) = s.total
  <2> DEFINE bad == \/ s.count # FileCount \/ Len(paths) # FileCount
                    \/ ~Ascending(paths) \/ ~IsInjective(paths)
                    \/ Cardinality(Range(paths) \cap Html) # HtmlCount
                    \/ Site \notin Range(paths)
                    \/ DeclaredBytes(inventory) # s.total
  <2>1. /\ Schema(s = WrongType) = {} /\ Natural(s.total) = {} /\ Limit(s.total > MaxTotal) = {}
        /\ Schema(inventory = WrongType) = {} /\ FirstFault(inventory, EntryFault) = {}
        /\ Schema(bad) = {}
    <3>1. Clean(InventoryFault(s))  BY DEF Clean
    <3> DEFINE entries == FirstFault(inventory, EntryFault)
               last == Schema(bad)
    <3>2. InventoryFault(s) = (Schema(s = WrongType) ?? Natural(s.count) ?? Natural(s.total) ??
                               Limit(s.total > MaxTotal) ?? Schema(inventory = WrongType) ??
                               entries ?? last)
      BY DEF InventoryFault
    <3> HIDE DEF entries, last, bad
    <3>3. /\ Clean(Schema(s = WrongType)) /\ Clean(Natural(s.total))
          /\ Clean(Limit(s.total > MaxTotal)) /\ Clean(Schema(inventory = WrongType))
          /\ Clean(entries) /\ Clean(last)
      BY <3>1, <3>2, BothClean
    <3> QED  BY <3>3 DEF Clean, entries, last
  <2>2. ~bad
    <3> HIDE DEF bad
    <3> QED  BY <2>1 DEF Schema, Blame
  <2> QED  BY <2>1, <2>2 DEF Schema, Limit, Blame
<1>2. ASSUME NEW value \in Int \cup {WrongType}, Natural(value) = {} PROVE value \in Nat
  <2>1. value # WrongType /\ ~(value < 0)  BY <1>2, Faultless DEF Natural
  <2> QED  BY <1>2, <2>1
<1>3. /\ IsArray(inventory) /\ \A x \in Range(inventory) : IsEntry(x)
      /\ s.total \in Int \cup {WrongType}
  BY <1>1 DEF IsSnapshot
<1>4. Len(inventory) \in Nat /\ DOMAIN inventory = 1..Len(inventory)
  BY <1>3 DEF IsArray
<1>5. s.total \in Nat /\ s.total <= MaxTotal
  <2>1. s.total \in Nat  BY <1>1, <1>2, <1>3
  <2> QED  BY <1>1, <2>1, LimitsAssumption
<1>6. ASSUME NEW i \in 1..Len(inventory) PROVE EntryFault(inventory[i]) = {}
  <2> DEFINE bad == {n \in DOMAIN inventory : EntryFault(inventory[n]) # {}}
  <2>1. SUFFICES ASSUME bad # {} PROVE FALSE  BY <1>4
  <2>2. bad \in SUBSET (1..Len(inventory))  BY <1>4
  <2>3. FirstFault(inventory, EntryFault) = EntryFault(inventory[Min(bad)])
    BY <2>1 DEF FirstFault
  <2>4. Min(bad) \in bad
    <3> HIDE DEF bad
    <3> QED  BY <1>4, <2>1, <2>2, Least
  <2> QED  BY <1>1, <2>3, <2>4
<1>7. ASSUME NEW i \in 1..Len(inventory)
      PROVE  inventory[i].bytes \in Nat /\ inventory[i].bytes <= MaxFile
  <2>1. EntryFault(inventory[i]) = {}  BY <1>6
  <2>2. /\ inventory[i] # WrongType /\ Natural(inventory[i].bytes) = {}
        /\ ~(inventory[i].bytes > MaxFile)
    <3>1. Clean(EntryFault(inventory[i]))  BY <2>1 DEF Clean
    <3>2. /\ Clean(Schema(inventory[i] = WrongType)) /\ Clean(Natural(inventory[i].bytes))
          /\ Clean(Limit(inventory[i].bytes > MaxFile))
      BY <3>1, BothClean, SMTT(30) DEF EntryFault
    <3> QED  BY <3>2 DEF Clean, Schema, Limit, Blame
  <2>3. IsEntry(inventory[i])  BY <1>3, <1>4 DEF Range
  <2>4. inventory[i].bytes \in Int \cup {WrongType}  BY <2>2, <2>3 DEF IsEntry
  <2>5. inventory[i].bytes \in Nat  BY <1>2, <2>2, <2>4
  <2> QED  BY <2>2, <2>5, LimitsAssumption
<1>8. ASSUME NEW i \in 1..Len(inventory), NEW j \in 1..Len(inventory),
             inventory[i].path = inventory[j].path
      PROVE  i = j
  <2>1. paths = [n \in 1..Len(inventory) |-> inventory[n].path]  BY <1>4 DEF PathsOf
  <2>2. \A a, b \in DOMAIN paths : paths[a] = paths[b] => a = b  BY <1>1 DEF IsInjective
  <2> HIDE DEF paths
  <2> QED  BY <1>8, <2>1, <2>2
<1> QED  BY <1>1, <1>4, <1>5, <1>7, <1>8

-----------------------------------------------------------------------------
(* Contents.                                                               *)

LEMMA EmptyContent ==
  \A name : IsContent(name, << >>)
  BY DEF IsContent, IsArray, Range

LEMMA OneOfArray ==
  ASSUME NEW d, IsArray(d), Len(d) = 1
  PROVE  d = <<d[1]>>
  BY DEF IsArray

LEMMA ArrayIsSequence ==
  ASSUME NEW d, IsArray(d)
  PROVE  Len(d) \in Nat /\ DOMAIN d = 1..Len(d) /\ d \in Seq(Range(d))
<1>1. Len(d) \in Nat /\ DOMAIN d = 1..Len(d) /\ d = [i \in 1..Len(d) |-> d[i]]  BY DEF IsArray
<1>2. d \in [1..Len(d) -> Range(d)]  BY <1>1 DEF Range
<1> QED  BY <1>1, <1>2

LEMMA FunctionIsArray ==
  ASSUME NEW n \in Nat, NEW S, NEW d \in [1..n -> S]
  PROVE  IsArray(d) /\ Len(d) = n
<1>1. d \in Seq(S)  OBVIOUS
<1>2. Len(d) = n  BY <1>1
<1> QED  BY <1>2 DEF IsArray

(* A read appends what stands at the reader's place.                       *)
LEMMA Chunk ==
  ASSUME NEW p, NEW d, IsArray(p), IsArray(d), NEW n \in (Len(p) + 1)..Len(d)
  PROVE  LET q == p \o SubSeq(d, Len(p) + 1, n)
         IN  /\ IsArray(q) /\ Len(q) = n
             /\ \A i \in 1..Len(p) : q[i] = p[i]
             /\ \A i \in (Len(p) + 1)..n : q[i] = d[i]
             /\ Range(q) \subseteq Range(p) \cup Range(d)
<1> DEFINE S == Range(p) \cup Range(d)
           q == p \o SubSeq(d, Len(p) + 1, n)
<1>1. /\ Len(p) \in Nat /\ DOMAIN p = 1..Len(p) /\ p \in Seq(S)
      /\ Len(d) \in Nat /\ DOMAIN d = 1..Len(d) /\ d \in Seq(S)
  <2>1. p \in Seq(Range(p)) /\ d \in Seq(Range(d))  BY ArrayIsSequence
  <2>2. p \in Seq(S) /\ d \in Seq(S)
    <3>1. \A T : Range(p) \subseteq T /\ Range(d) \subseteq T => p \in Seq(T) /\ d \in Seq(T)
      BY <2>1
    <3> QED  BY <3>1
  <2> QED  BY <2>2, ArrayIsSequence
<1> DEFINE r == SubSeq(d, Len(p) + 1, n)
<1>2. /\ r \in Seq(S) /\ Len(r) = n - Len(p)
      /\ \A i \in 1..(n - Len(p)) : r[i] = d[Len(p) + i]
  <2> HIDE DEF S
  <2>1. 1 <= Len(p) + 1 /\ Len(p) + 1 <= n /\ n <= Len(d)  BY <1>1
  <2> QED  BY <1>1, <2>1
<1>3. /\ q \in Seq(S) /\ Len(q) = n
      /\ \A i \in 1..n : q[i] = IF i <= Len(p) THEN p[i] ELSE r[i - Len(p)]
  <2> HIDE DEF r, S
  <2>1. q = p \o r  BY DEF r
  <2> HIDE DEF q
  <2> QED  BY <1>1, <1>2, <2>1
<1> HIDE DEF q, r
<1>4. IsArray(q)
  <2>1. q = [i \in 1..n |-> q[i]] /\ n \in Nat  BY <1>1, <1>3
  <2> QED  BY <1>3, <2>1 DEF IsArray
<1>5. \A i \in 1..Len(p) : q[i] = p[i]  BY <1>1, <1>3
<1>6. ASSUME NEW i \in (Len(p) + 1)..n PROVE q[i] = d[i]
  <2>1. i \in 1..n /\ ~(i <= Len(p)) /\ i - Len(p) \in 1..(n - Len(p)) /\ Len(p) + (i - Len(p)) = i
    BY <1>1
  <2> QED  BY <1>2, <1>3, <2>1
<1>7. Range(q) \subseteq S
  <2> HIDE DEF S
  <2>1. \A i \in DOMAIN q : q[i] \in S  BY <1>3
  <2> QED  BY <2>1 DEF Range
<1> QED  BY <1>3, <1>4, <1>5, <1>6, <1>7 DEF q

LEMMA MinOfTwo ==
  ASSUME NEW a \in Nat, NEW b \in Nat
  PROVE  Min({a, b}) = IF a <= b THEN a ELSE b
<1> DEFINE m == IF a <= b THEN a ELSE b
<1>1. m \in {a, b} /\ \A y \in {a, b} : m <= y  OBVIOUS
<1>2. ASSUME NEW x \in {a, b}, \A y \in {a, b} : x <= y PROVE x = m  BY <1>2
<1> HIDE DEF m
<1>3. (CHOOSE x \in {a, b} : \A y \in {a, b} : x <= y) = m  BY <1>1, <1>2
<1> QED  BY <1>3 DEF Min, m

LEMMA SoundFacts ==
  ASSUME Sound
  PROVE  /\ Len(Inventory) \in Nat /\ DOMAIN Inventory = 1..Len(Inventory)
         /\ \A i \in 1..Len(Inventory) : Inventory[i].bytes \in Nat /\ Inventory[i].bytes <= MaxFile
         /\ \A i, j \in 1..Len(Inventory) : Inventory[i].path = Inventory[j].path => i = j
         /\ DeclaredBytes(Inventory) = manifest.snapshot.total
         /\ manifest.snapshot.total \in Nat /\ manifest.snapshot.total <= MaxTotal
         /\ Range(PathsOf(Inventory)) = {Inventory[i].path : i \in 1..Len(Inventory)}
<1>1. IsSnapshot(manifest.snapshot) /\ InventoryFault(manifest.snapshot) = {}
  BY DEF Sound, IsManifest
<1>2. /\ Len(Inventory) \in Nat /\ DOMAIN Inventory = 1..Len(Inventory)
      /\ \A i \in 1..Len(Inventory) : Inventory[i].bytes \in Nat /\ Inventory[i].bytes <= MaxFile
      /\ \A i, j \in 1..Len(Inventory) : Inventory[i].path = Inventory[j].path => i = j
      /\ DeclaredBytes(Inventory) = manifest.snapshot.total
      /\ manifest.snapshot.total \in Nat /\ manifest.snapshot.total <= MaxTotal
  BY <1>1, InventoryFacts DEF Inventory
<1>3. Range(PathsOf(Inventory)) = {Inventory[i].path : i \in 1..Len(Inventory)}
  BY <1>2 DEF Range, PathsOf
<1> QED  BY <1>2, <1>3

-----------------------------------------------------------------------------
(* What a step may do, as far as the invariant goes.                       *)

Refused ==
    /\ verdict' # "PASS" /\ verdict' # "PENDING" /\ pc' = "done"
    /\ UNCHANGED <<root, target, payload, manifest, k, total, contents>>

LEMMA RefusedKeeps ==
  ASSUME IInv, Refused
  PROVE  IInv'
<1>1. Typed'  BY DEF IInv, Typed, Refused
<1>2. Listed'  BY DEF IInv, Listed, Refused, Looping, ReadingManifest, ReadingEntry
<1>3. Collected'  BY DEF Collected, Refused, Looping, ReadingEntry
<1>4. Counted'  BY DEF IInv, Counted, Refused, ReadingEntry, MaxBytes
<1>5. Passed'  BY DEF Passed, Refused
<1> QED  BY <1>1, <1>2, <1>3, <1>4, <1>5 DEF IInv

LEMMA CheckRefuses ==
  ASSUME NEW STATE here, NEW STATE fault, IsFault(fault), Check(here, fault)
  PROVE  Refused
  BY DEF Check, IsFault, Refused, directory, loop

(* Only the files and the open stream change, or what the stream is of.    *)
LEMMA FilesKeep ==
  ASSUME IInv, IsDirectory(root)',
         pc \in {"waiting", "fstat", "read"} => IsFile(target, stream)',
         UNCHANGED <<target, payload, manifest, k, total, contents, verdict>>,
         pc' = pc \/ (pc = "waiting" /\ pc' = "fstat")
  PROVE  IInv'
<1>1. Typed'
  <2>1. pc' \in {"waiting", "fstat", "read"} => pc \in {"waiting", "fstat", "read"}  OBVIOUS
  <2>2. IsFile(target, stream)' = IsFile(target', stream')  OBVIOUS
  <2> QED  BY <2>1 DEF IInv, Typed
<1>2. Listed'
  BY DEF IInv, Listed, Looping, ReadingManifest, ReadingEntry, Sound, Inventory
<1>3. Collected'  BY DEF IInv, Collected, Looping, ReadingEntry, Inventory
<1>4. Counted'  BY DEF IInv, Counted, ReadingEntry, MaxBytes, Inventory, Entry
<1>5. Passed'  BY DEF IInv, Passed
<1> QED  BY <1>1, <1>2, <1>3, <1>4, <1>5 DEF IInv

LEMMA ContentsAreContents ==
  ASSUME IsDirectory(root), NEW name \in Names, NEW data \in Contents(name)
  PROVE  IsContent(name, data)
<1>1. CASE name = ManifestName
  <2>1. CASE data = << >>  BY <2>1, EmptyContent
  <2>2. CASE data # << >>
    <3>1. PICK m \in Drafts : data = <<m>>  BY <1>1, <2>2 DEF Contents
    <3>2. IsManifest(m)  BY FilesAssumption
    <3>3. data \in [1..1 -> {m}]  BY <3>1
    <3>4. IsArray(data)  BY <3>3, FunctionIsArray
    <3>5. \A x \in Range(data) : x = m  BY <3>3 DEF Range
    <3> QED  BY <1>1, <3>2, <3>4, <3>5 DEF IsContent
  <2> QED  BY <2>1, <2>2
<1>2. CASE name # ManifestName
  <2>1. PICK n \in 0..(MaxFile + 2) : data \in [1..n -> Cells \cup Range(root[name].data)]
    BY <1>2 DEF Contents
  <2>2. n \in Nat  BY LimitsAssumption
  <2>3. IsArray(data)  BY <2>1, <2>2, FunctionIsArray
  <2>4. \A x \in Cells \cup Range(root[name].data) : IsFragment(x)
    <3>1. IsContent(name, root[name].data)  BY DEF IsDirectory, IsFile
    <3>2. \A x \in Range(root[name].data) : IsFragment(x)  BY <1>2, <3>1 DEF IsContent
    <3> QED  BY <3>2, FilesAssumption
  <2>5. Range(data) \subseteq Cells \cup Range(root[name].data)  BY <2>1 DEF Range
  <2> QED  BY <1>2, <2>3, <2>4, <2>5 DEF IsContent
<1> QED  BY <1>1, <1>2

LEMMA DisturbKeeps ==
  ASSUME IInv, Disturb
  PROVE  IInv'
<1>1. UNCHANGED <<pc, target, payload, manifest, k, total, contents, verdict>>
  BY DEF Disturb, loop
<1>2. IsDirectory(root) /\ target \in Names
      /\ (pc \in {"waiting", "fstat", "read"} => IsFile(target, stream))
  BY DEF IInv, Typed
<1>3. CASE Write
  <2>0. PICK name \in Names : \E data \in Contents(name) \ {root[name].data} :
           /\ root' = [root EXCEPT ![name].data = data]
           /\ stream' = IF attached /\ name = target THEN [stream EXCEPT !.data = data] ELSE stream
    BY <1>3 DEF Write
  <2>1. PICK data \in Contents(name) :
           /\ root' = [root EXCEPT ![name].data = data]
           /\ stream' = IF attached /\ name = target THEN [stream EXCEPT !.data = data] ELSE stream
    BY <2>0
  <2>2. IsContent(name, data)  BY <1>2, ContentsAreContents
  <2>3. ASSUME NEW file, IsFile(name, file) PROVE IsFile(name, [file EXCEPT !.data = data])
    <3>1. /\ file = [kind |-> file.kind, data |-> file.data] /\ file.kind \in Kinds
      BY <2>3 DEF IsFile
    <3>2. [file EXCEPT !.data = data] = [kind |-> file.kind, data |-> data]  BY <3>1
    <3> QED  BY <2>2, <3>1, <3>2 DEF IsFile
  <2>4. IsDirectory(root)'
    <3>1. /\ root = [n \in Names |-> root[n]]
          /\ \A n \in Names : IsFile(n, root[n])
      BY <1>2 DEF IsDirectory
    <3>2. root' = [n \in Names |-> IF n = name THEN [root[name] EXCEPT !.data = data] ELSE root[n]]
      BY <2>1, <3>1
    <3>3. \A n \in Names : IsFile(n, root'[n])
      <4> SUFFICES ASSUME NEW n \in Names PROVE IsFile(n, root'[n])  OBVIOUS
      <4>1. CASE n = name
        <5>1. IsFile(name, [root[name] EXCEPT !.data = data])  BY <2>3, <3>1
        <5>2. root'[n] = [root[name] EXCEPT !.data = data]  BY <3>2, <4>1
        <5> QED  BY <4>1, <5>1, <5>2
      <4>2. CASE n # name  BY <3>1, <3>2, <4>2
      <4> QED  BY <4>1, <4>2
    <3>4. root' = [n \in Names |-> root'[n]]  BY <3>2
    <3> QED  BY <3>3, <3>4 DEF IsDirectory
  <2>5. pc \in {"waiting", "fstat", "read"} => IsFile(target, stream)'
    <3> SUFFICES ASSUME IsFile(target, stream) PROVE IsFile(target', stream')  BY <1>2
    <3>1. CASE attached /\ name = target  BY <1>1, <2>1, <2>3, <3>1
    <3>2. CASE ~(attached /\ name = target)  BY <1>1, <2>1, <3>2
    <3> QED  BY <3>1, <3>2
  <2> QED  BY <1>1, <2>4, <2>5, FilesKeep
<1>4. CASE Replace
  <2>1. PICK name \in Names, kind \in Kinds :
        \E data \in IF kind \in {"regular", "symlink"} THEN Contents(name) \cup {root[name].data}
                                                       ELSE {<< >>} :
           root' = [root EXCEPT ![name] = [kind |-> kind, data |-> data]] /\ stream' = stream
    BY <1>4 DEF Replace
  <2>2. PICK data \in Contents(name) \cup {root[name].data, << >>} :
           root' = [root EXCEPT ![name] = [kind |-> kind, data |-> data]] /\ stream' = stream
    BY <2>1
  <2>3. IsContent(name, data)
    <3>1. IsContent(name, root[name].data)  BY <1>2 DEF IsDirectory, IsFile
    <3> QED  BY <1>2, <3>1, ContentsAreContents, EmptyContent
  <2>4. IsFile(name, [kind |-> kind, data |-> data])  BY <2>3 DEF IsFile
  <2>5. IsDirectory(root)'
    <3>1. /\ root = [n \in Names |-> root[n]]
          /\ \A n \in Names : IsFile(n, root[n])
      BY <1>2 DEF IsDirectory
    <3>2. root' = [n \in Names |-> IF n = name THEN [kind |-> kind, data |-> data] ELSE root[n]]
      BY <2>2, <3>1
    <3>3. \A n \in Names : IsFile(n, root'[n])  BY <2>4, <3>1, <3>2
    <3>4. root' = [n \in Names |-> root'[n]]  BY <3>2
    <3> QED  BY <3>3, <3>4 DEF IsDirectory
  <2>6. pc \in {"waiting", "fstat", "read"} => IsFile(target, stream)'  BY <1>1, <1>2, <2>2
  <2> QED  BY <1>1, <2>5, <2>6, FilesKeep
<1> QED  BY <1>3, <1>4 DEF Disturb

LEMMA ConnectKeeps ==
  ASSUME IInv, Connect
  PROVE  IInv'
<1>1. /\ UNCHANGED <<root, target, stream, payload, manifest, k, total, contents, verdict>>
      /\ pc = "waiting" /\ pc' = "fstat"
  BY DEF Connect, reader, loop
<1>2. IsDirectory(root)' /\ (pc \in {"waiting", "fstat", "read"} => IsFile(target, stream)')
  BY <1>1 DEF IInv, Typed
<1> QED  BY <1>1, <1>2, FilesKeep

-----------------------------------------------------------------------------
(* The steps of the tool.                                                  *)

LEMMA InitHolds ==
  ASSUME Init
  PROVE  IInv
<1>1. PICK start \in Starts : root = start.root  BY DEF Init
<1>2. Typed
  <2>1. IsDirectory(root)  BY <1>1, FilesAssumption
  <2>2. IsArray(payload)  BY EmptyContent DEF Init, IsContent
  <2> QED  BY <2>1, <2>2 DEF Init, Typed, Names
<1>3. Places(contents) = {}  BY DEF Init, Places
<1>4. Listed /\ Collected /\ Passed
  BY DEF Init, Listed, Collected, Passed, Looping, ReadingEntry
<1>5. Counted
  <2>1. Cardinality(Places(contents)) = 0 /\ IsFiniteSet(Places(contents))  BY <1>3, FS_EmptySet
  <2> QED  BY <2>1, LimitsAssumption DEF Init, Counted, ReadingEntry, MaxBytes
<1> QED  BY <1>2, <1>4, <1>5 DEF IInv

LEMMA SystemFailsKeeps ==
  ASSUME IInv, SystemFails
  PROVE  IInv'
<1>1. Refused  BY DEF SystemFails, Refused, Unreadable, directory, loop
<1> QED  BY <1>1, RefusedKeeps

LEMMA LstatKeeps ==
  ASSUME IInv, Lstat
  PROVE  IInv'
<1>1. CASE Check("lstat", KindAndSizeFault(root[target]))
  <2>1. IsFault(KindAndSizeFault(root[target]))  BY KindAndSizeCodes
  <2> QED  BY <1>1, <2>1, CheckRefuses, RefusedKeeps
<1>2. CASE Passes("lstat", KindAndSizeFault(root[target]), "open") /\ UNCHANGED <<reader, loop>>
  <2> USE <1>2 DEF Passes, directory, reader, loop
  <2>1. pc = "lstat" /\ pc' = "open" /\ UNCHANGED <<root, verdict, reader, loop>>  OBVIOUS
  <2>2. Typed'  BY <2>1 DEF IInv, Typed
  <2>3. Listed'
    BY <2>1 DEF IInv, Listed, Looping, ReadingManifest, ReadingEntry, Sound, Inventory
  <2>4. Collected'  BY <2>1 DEF IInv, Collected, Looping, ReadingEntry, Inventory
  <2>5. Counted'  BY <2>1 DEF IInv, Counted, ReadingEntry, MaxBytes, Inventory, Entry
  <2>6. Passed'  BY <2>1 DEF IInv, Passed
  <2> QED  BY <2>2, <2>3, <2>4, <2>5, <2>6 DEF IInv
<1> QED  BY <1>1, <1>2 DEF Lstat

LEMMA OpenKeeps ==
  ASSUME IInv, Open
  PROVE  IInv'
<1> DEFINE file == root[target]
           fault == Blame(file.kind \in {"absent", "directory"}, Unreadable)
<1>1. CASE Check("open", fault)
  <2>1. IsFault(fault)  BY FaultCodes DEF Unreadable
  <2> HIDE DEF fault
  <2> QED  BY <1>1, <2>1, CheckRefuses, RefusedKeeps
<1>2. CASE /\ Passes("open", fault, IF file.kind = "fifo" THEN "waiting" ELSE "fstat")
           /\ stream' = IF file.kind = "symlink" THEN [file EXCEPT !.kind = "regular"] ELSE file
           /\ payload' = << >>
           /\ UNCHANGED <<target, loop>>
  <2>1. /\ pc = "open" /\ pc' \in {"waiting", "fstat"} /\ payload' = << >>
        /\ UNCHANGED <<root, verdict, target, manifest, k, total, contents>>
    BY <1>2 DEF Passes, directory, loop
  <2>2. Typed'
    <3>1. IsFile(target, file)  BY DEF IInv, Typed, IsDirectory
    <3>2. IsFile(target, [file EXCEPT !.kind = "regular"])
      <4>1. /\ file = [kind |-> file.kind, data |-> file.data] /\ IsContent(target, file.data)
        BY <3>1 DEF IsFile
      <4> HIDE DEF file
      <4>2. [file EXCEPT !.kind = "regular"] = [kind |-> "regular", data |-> file.data]  BY <4>1
      <4> QED  BY <4>1, <4>2 DEF IsFile, Kinds
    <3>3. IsFile(target, stream)'  BY <1>2, <3>1, <3>2
    <3>4. IsContent(target, payload)' /\ IsArray(payload)'
      <4>1. IsContent(target', << >>) /\ IsArray(<< >>)  BY EmptyContent DEF IsContent
      <4> QED  BY <2>1, <4>1
    <3> QED  BY <2>1, <3>3, <3>4 DEF IInv, Typed
  <2>3. Listed'
    BY <2>1 DEF IInv, Listed, Looping, ReadingManifest, ReadingEntry, Sound, Inventory
  <2>4. Collected'  BY <2>1 DEF IInv, Collected, Looping, ReadingEntry, Inventory
  <2>5. Counted'
    <3>1. Len(payload') <= (MaxBytes + 1)'
      <4>1. Len(payload') = 0 /\ MaxBytes' = MaxBytes  BY <2>1 DEF MaxBytes
      <4>2. MaxBytes \in Nat  BY LimitsAssumption DEF MaxBytes
      <4> QED  BY <4>1, <4>2
    <3> QED  BY <2>1, <3>1 DEF IInv, Counted, ReadingEntry, Inventory, Entry
  <2>6. Passed'  BY <2>1 DEF IInv, Passed
  <2> QED  BY <2>2, <2>3, <2>4, <2>5, <2>6 DEF IInv
<1> QED  BY <1>1, <1>2 DEF Open

LEMMA FstatKeeps ==
  ASSUME IInv, Fstat
  PROVE  IInv'
<1>1. CASE Check("fstat", KindAndSizeFault(stream))
  <2>1. IsFault(KindAndSizeFault(stream))  BY KindAndSizeCodes
  <2> QED  BY <1>1, <2>1, CheckRefuses, RefusedKeeps
<1>2. CASE Passes("fstat", KindAndSizeFault(stream), "read") /\ UNCHANGED <<reader, loop>>
  <2>1. /\ pc = "fstat" /\ pc' = "read"
        /\ UNCHANGED <<root, verdict, target, stream, payload, manifest, k, total, contents>>
    BY <1>2 DEF Passes, directory, reader, loop
  <2>2. Typed'  BY <2>1 DEF IInv, Typed
  <2>3. Listed'
    BY <2>1 DEF IInv, Listed, Looping, ReadingManifest, ReadingEntry, Sound, Inventory
  <2>4. Collected'  BY <2>1 DEF IInv, Collected, Looping, ReadingEntry, Inventory
  <2>5. Counted'  BY <2>1 DEF IInv, Counted, ReadingEntry, MaxBytes, Inventory, Entry
  <2>6. Passed'  BY <2>1 DEF IInv, Passed
  <2> QED  BY <2>2, <2>3, <2>4, <2>5, <2>6 DEF IInv
<1> QED  BY <1>1, <1>2 DEF Fstat

LEMMA ReadSomeKeeps ==
  ASSUME IInv, ReadSome
  PROVE  IInv'
<1>1. /\ pc = "read" /\ pc' = "read"
      /\ UNCHANGED <<root, verdict, target, stream, manifest, k, total, contents>>
  BY DEF ReadSome, directory, loop
<1>2. PICK n \in (Len(payload) + 1)..Min({ReadAtMost, Len(stream.data)}) :
         payload' = payload \o SubSeq(stream.data, Len(payload) + 1, n)
  BY DEF ReadSome
<1>3. /\ IsFile(target, stream) /\ IsContent(target, stream.data) /\ IsContent(target, payload)
      /\ IsArray(payload) /\ IsArray(stream.data)
  BY <1>1 DEF IInv, Typed, IsFile, IsContent
<1>4. /\ Len(payload) \in Nat /\ Len(stream.data) \in Nat /\ MaxBytes \in Nat
      /\ n \in (Len(payload) + 1)..Len(stream.data) /\ n <= MaxBytes + 1
  <2>1. Len(payload) \in Nat /\ Len(stream.data) \in Nat  BY <1>3 DEF IsArray
  <2>2. MaxBytes \in Nat  BY LimitsAssumption DEF MaxBytes
  <2>3. MaxBytes + 1 \in Nat  BY <2>2
  <2>4. Min({MaxBytes + 1, Len(stream.data)}) =
           IF MaxBytes + 1 <= Len(stream.data) THEN MaxBytes + 1 ELSE Len(stream.data)
    BY <2>1, <2>3, MinOfTwo
  <2>5. ReadAtMost = MaxBytes + 1  BY DEF ReadAtMost
  <2> QED  BY <2>1, <2>2, <2>4, <2>5
<1>5. /\ IsArray(payload') /\ Len(payload') = n
      /\ Range(payload') \subseteq Range(payload) \cup Range(stream.data)
  BY <1>2, <1>3, <1>4, Chunk
<1>6. Typed'
  <2>1. IsContent(target, payload)'  BY <1>1, <1>3, <1>5 DEF IsContent
  <2> QED  BY <1>1, <1>5, <2>1 DEF IInv, Typed
<1>7. Listed'
  BY <1>1 DEF IInv, Listed, Looping, ReadingManifest, ReadingEntry, Sound, Inventory
<1>8. Collected'  BY <1>1 DEF IInv, Collected, Looping, ReadingEntry, Inventory
<1>9. Counted'
  <2>1. Len(payload') <= MaxBytes' + 1  BY <1>1, <1>4, <1>5 DEF MaxBytes
  <2> QED  BY <1>1, <2>1 DEF IInv, Counted, ReadingEntry, Inventory, Entry
<1>10. Passed'  BY <1>1 DEF IInv, Passed
<1> QED  BY <1>6, <1>7, <1>8, <1>9, <1>10 DEF IInv

LEMMA ReadEndsKeeps ==
  ASSUME IInv, ReadEnds
  PROVE  IInv'
<1> DEFINE fault == Limit(Len(payload) > MaxBytes)
<1>1. CASE Check("read", fault)
  <2>1. IsFault(fault)  BY FaultCodes
  <2> HIDE DEF fault
  <2> QED  BY <1>1, <2>1, CheckRefuses, RefusedKeeps
<1>2. CASE /\ Passes("read", fault, IF target = ManifestName THEN "parse" ELSE "compare")
           /\ UNCHANGED <<target, payload, loop>>
  <2>1. /\ pc = "read" /\ pc' = IF target = ManifestName THEN "parse" ELSE "compare"
        /\ UNCHANGED <<root, verdict, target, payload, manifest, k, total, contents>>
    BY <1>2 DEF Passes, directory, loop
  <2>2. Typed'  BY <2>1 DEF IInv, Typed
  <2>3. Listed'
    BY <2>1 DEF IInv, Listed, Looping, ReadingManifest, ReadingEntry, Sound, Inventory
  <2>4. Collected'  BY <2>1 DEF IInv, Collected, Looping, ReadingEntry, Inventory
  <2>5. Counted'  BY <2>1 DEF IInv, Counted, ReadingEntry, MaxBytes, Inventory, Entry
  <2>6. Passed'  BY <2>1 DEF IInv, Passed
  <2> QED  BY <2>2, <2>3, <2>4, <2>5, <2>6 DEF IInv
<1> QED  BY <1>1, <1>2 DEF ReadEnds

LEMMA ParseManifestKeeps ==
  ASSUME IInv, ParseManifest
  PROVE  IInv'
<1> DEFINE first == payload[1]
           fault == Blame(Len(payload) # 1, "manifest_unreadable") ??
                    Schema(first = WrongType) ?? Schema(first.schema_version # 1) ??
                    InventoryFault(first.snapshot)
<1>1. CASE Check("parse", fault)
  <2>1. IsFault(InventoryFault(first.snapshot)) /\ IsFault(Schema(first = WrongType))
        /\ IsFault(Schema(first.schema_version # 1))
    BY FaultCodes, InventoryCodes
  <2>2. IsFault(Blame(Len(payload) # 1, "manifest_unreadable"))  BY FaultCodes
  <2>3. IsFault(fault)  BY <2>1, <2>2, FaultCodes, Zenon
  <2> HIDE DEF fault
  <2> QED  BY <1>1, <2>3, CheckRefuses, RefusedKeeps
<1>2. CASE /\ Passes("parse", fault, "list")
           /\ manifest' = first
           /\ UNCHANGED <<reader, k, total, contents>>
  <2>1. /\ pc = "parse" /\ pc' = "list" /\ manifest' = first
        /\ UNCHANGED <<root, verdict, target, payload, k, total, contents>>
    BY <1>2 DEF Passes, directory, reader
  <2>2. /\ Len(payload) = 1 /\ first # WrongType /\ first.schema_version = 1
        /\ InventoryFault(first.snapshot) = {}
    <3>1. Clean(fault)  BY <1>2 DEF Passes, Clean
    <3>2. /\ Clean(Blame(Len(payload) # 1, "manifest_unreadable"))
          /\ Clean(Schema(first = WrongType)) /\ Clean(Schema(first.schema_version # 1))
          /\ Clean(InventoryFault(first.snapshot))
      BY <3>1, BothClean
    <3> QED  BY <3>2 DEF Clean, Schema, Blame
  <2>3. target = ManifestName /\ IsContent(target, payload) /\ verdict = "PENDING"
    BY <2>1 DEF IInv, Typed
  <2>4. IsManifest(first)
    <3>1. DOMAIN payload = 1..1  BY <2>2, <2>3 DEF IsContent, IsArray
    <3>2. first \in Range(payload)  BY <3>1 DEF Range
    <3> QED  BY <2>3, <3>2 DEF IsContent
  <2> HIDE DEF first, fault
  <2>5. Typed'  BY <2>1 DEF IInv, Typed
  <2>6. k = 1 /\ total = 0 /\ contents = << >>
    BY <2>1, <2>3 DEF IInv, Listed, ReadingManifest
  <2>7. Sound'  BY <2>1, <2>2, <2>4 DEF Sound
  <2>8. ~Looping'  BY <2>1, <2>3 DEF Looping, ReadingEntry
  <2>9. Listed'  BY <2>1, <2>6, <2>7, <2>8 DEF Listed
  <2>10. Collected'  BY <2>8 DEF Collected
  <2>11. Counted'
    <3>1. Len(payload') <= MaxFile + 1  BY <2>1, <2>2, LimitsAssumption
    <3> QED  BY <2>1, <2>3, <3>1 DEF IInv, Counted, ReadingEntry, MaxBytes
  <2>12. Passed'  BY <2>1, <2>3 DEF Passed
  <2> QED  BY <2>5, <2>9, <2>10, <2>11, <2>12 DEF IInv
<1> QED  BY <1>1, <1>2 DEF ParseManifest

LEMMA ListDirectoryKeeps ==
  ASSUME IInv, ListDirectory
  PROVE  IInv'
<1> DEFINE discovered == {name \in Names : Discovers(name)} \cup {Site}
           fault == Blame(discovered # Range(PathsOf(Inventory)), "inventory_mismatch")
<1>1. CASE Check("list", fault)
  <2>1. IsFault(fault)  BY FaultCodes
  <2> HIDE DEF fault
  <2> QED  BY <1>1, <2>1, CheckRefuses, RefusedKeeps
<1>2. CASE Passes("list", fault, "entry") /\ UNCHANGED <<reader, loop>>
  <2>1. /\ pc = "list" /\ pc' = "entry"
        /\ UNCHANGED <<root, verdict, target, stream, payload, manifest, k, total, contents>>
    BY <1>2 DEF Passes, directory, reader, loop
  <2>2. Range(PathsOf(Inventory)) \subseteq HtmlLike \cup {Site}
    <3>1. discovered = Range(PathsOf(Inventory))  BY <1>2 DEF Passes, Blame
    <3>2. discovered \subseteq HtmlLike \cup {Site}  BY DEF Discovers
    <3> HIDE DEF discovered
    <3> QED  BY <3>1, <3>2
  <2>3. Sound /\ k = 1 /\ total = 0 /\ contents = << >> /\ verdict = "PENDING"
    BY <2>1 DEF IInv, Typed, Listed
  <2>4. Len(Inventory) \in Nat  BY <2>3, SoundFacts
  <2>5. Typed'  BY <2>1 DEF IInv, Typed
  <2>6. Listed'
    <3>1. k \in 1..(Len(Inventory) + 1)  BY <2>3, <2>4
    <3> QED  BY <2>1, <2>2, <2>3, <3>1
             DEF Listed, Looping, ReadingManifest, ReadingEntry, Sound, Inventory
  <2>7. Collected'
    <3>1. DOMAIN contents = {} /\ k - 1 = 0  BY <2>3
    <3>2. {Inventory[i].path : i \in 1..(k - 1)} = {}  BY <3>1
    <3>3. contents = [path \in {Inventory[i].path : i \in 1..(k - 1)} |-> contents[path]]
      BY <2>3, <3>2
    <3>4. \A i \in 1..(k - 1) : contents[Inventory[i].path] = Inventory[i].sha256  BY <3>1
    <3> QED  BY <2>1, <3>1, <3>3, <3>4 DEF Collected, Inventory
  <2>8. Counted'  BY <2>1, <2>3 DEF IInv, Counted, ReadingEntry, MaxBytes
  <2>9. Passed'  BY <2>1, <2>3 DEF Passed
  <2> QED  BY <2>5, <2>6, <2>7, <2>8, <2>9 DEF IInv
<1> QED  BY <1>1, <1>2 DEF ListDirectory

LEMMA ExamineEntryKeeps ==
  ASSUME IInv, ExamineEntry
  PROVE  IInv'
<1> DEFINE file  == root[Entry.path]
           size  == Len(file.data)
           fault == Blame(file.kind = "absent", "inventory_unreadable") ??
                    Blame(file.kind # "regular", "inventory_mismatch") ??
                    Limit(size > MaxFile \/ total + size > MaxTotal) ??
                    Blame(size # Entry.bytes, "size_mismatch")
<1>1. CASE Check("entry", fault)
  <2>1. /\ IsFault(Blame(file.kind = "absent", "inventory_unreadable"))
        /\ IsFault(Blame(file.kind # "regular", "inventory_mismatch"))
        /\ IsFault(Limit(size > MaxFile \/ total + size > MaxTotal))
        /\ IsFault(Blame(size # Entry.bytes, "size_mismatch"))
    BY FaultCodes
  <2>2. IsFault(fault)  BY <2>1, FaultCodes, Zenon
  <2> HIDE DEF fault
  <2> QED  BY <1>1, <2>2, CheckRefuses, RefusedKeeps
<1>2. CASE /\ pc = "entry" /\ k \in DOMAIN Inventory
           /\ Passes("entry", fault, "lstat")
           /\ target' = Entry.path
           /\ UNCHANGED <<stream, attached, payload, loop>>
  <2>1. /\ pc = "entry" /\ pc' = "lstat" /\ target' = Entry.path
        /\ UNCHANGED <<root, verdict, payload, manifest, k, total, contents>>
    BY <1>2 DEF Passes, directory, loop
  <2>2. ~(total + size > MaxTotal) /\ size = Entry.bytes
    <3>1. Clean(fault)  BY <1>2 DEF Passes, Clean
    <3>2. /\ Clean(Limit(size > MaxFile \/ total + size > MaxTotal))
          /\ Clean(Blame(size # Entry.bytes, "size_mismatch"))
      BY <3>1, BothClean
    <3> QED  BY <3>2 DEF Clean, Limit, Blame
  <2> HIDE DEF fault, size
  <2>3. Sound /\ verdict = "PENDING" /\ Looping  BY <2>1 DEF IInv, Typed, Listed, Looping
  <2>4. k \in 1..Len(Inventory) /\ Entry.bytes \in Nat /\ total \in Nat
    BY <1>2, <2>3, SoundFacts DEF Entry, IInv, Counted
  <2>5. Entry.path \in HtmlLike \cup {Site}
    <3>1. Entry.path \in Range(PathsOf(Inventory))  BY <2>3, <2>4, SoundFacts DEF Entry
    <3> QED  BY <2>3, <3>1 DEF IInv, Listed
  <2>6. Entry.path # ManifestName /\ Entry.path \in Names  BY <2>5, NamesAssumption DEF Names
  <2> Looping'  BY <2>1, <2>6 DEF Looping, ReadingEntry
  <2>7. Typed'  BY <2>1, <2>6 DEF IInv, Typed
  <2>8. Listed'
    BY <2>1, <2>3, <2>6 DEF IInv, Listed, ReadingManifest, Sound, Inventory
  <2>9. Collected'  BY <2>1, <2>3 DEF IInv, Collected, Inventory
  <2>10. Counted'
    <3>1. total + Entry.bytes <= MaxTotal  BY <2>2, <2>4, LimitsAssumption
    <3>2. Len(payload) <= MaxFile + 1  BY <2>1 DEF IInv, Counted
    <3>3. MaxBytes' = MaxFile  BY <2>1, <2>6 DEF MaxBytes
    <3> QED  BY <2>1, <2>3, <2>4, <3>1, <3>2, <3>3
             DEF IInv, Counted, ReadingEntry, Inventory, Entry
  <2>11. Passed'  BY <2>1, <2>3 DEF Passed
  <2> QED  BY <2>7, <2>8, <2>9, <2>10, <2>11 DEF IInv
<1> QED  BY <1>1, <1>2 DEF ExamineEntry

LEMMA CompareEntryKeeps ==
  ASSUME IInv, CompareEntry
  PROVE  IInv'
<1>1. CASE Check("compare", EntryContentFault)
  <2>1. /\ IsFault(Blame(Len(payload) # Entry.bytes, "size_mismatch"))
        /\ IsFault(Blame(payload # Entry.sha256, "checksum_mismatch"))
    BY FaultCodes
  <2>2. IsFault(EntryContentFault)  BY <2>1, FaultCodes DEF EntryContentFault
  <2> QED  BY <1>1, <2>2, CheckRefuses, RefusedKeeps
<1>2. CASE /\ Passes("compare", EntryContentFault, "entry")
           /\ total' = total + Len(payload)
           /\ contents' = [path \in DOMAIN contents \cup {target} |->
                              IF path = target THEN payload ELSE contents[path]]
           /\ k' = k + 1
           /\ UNCHANGED <<reader, manifest>>
  <2>1. /\ pc = "compare" /\ pc' = "entry" /\ total' = total + Len(payload) /\ k' = k + 1
        /\ UNCHANGED <<root, verdict, target, stream, payload, manifest>>
    BY <1>2 DEF Passes, directory, reader
  <2>2. contents' = [path \in DOMAIN contents \cup {target} |->
                        IF path = target THEN payload ELSE contents[path]]
    BY <1>2
  <2>3. Len(payload) = Entry.bytes /\ payload = Entry.sha256
    <3>1. Clean(EntryContentFault)  BY <1>2 DEF Passes, Clean
    <3>2. /\ Clean(Blame(Len(payload) # Entry.bytes, "size_mismatch"))
          /\ Clean(Blame(payload # Entry.sha256, "checksum_mismatch"))
      BY <3>1, BothClean DEF EntryContentFault
    <3> QED  BY <3>2 DEF Clean, Blame
  <2>4. /\ ReadingEntry /\ Looping /\ Looping' /\ verdict = "PENDING" /\ target # ManifestName
        /\ IsContent(target, payload) /\ IsArray(payload)
    BY <2>1 DEF IInv, Typed, ReadingEntry, Looping
  <2>5. /\ Sound /\ k \in 1..Len(Inventory) /\ target = Entry.path
        /\ total + Entry.bytes <= MaxTotal /\ total \in Nat
    BY <2>4 DEF IInv, Listed, Counted
  <2>6. /\ Len(Inventory) \in Nat /\ k \in Nat /\ k - 1 \in Nat
        /\ 1..k = 1..(k - 1) \cup {k} /\ k \notin 1..(k - 1) /\ 1..(k - 1) \subseteq 1..Len(Inventory)
    BY <2>5, SoundFacts
  <2>7. /\ contents = [path \in {Inventory[i].path : i \in 1..(k - 1)} |-> contents[path]]
        /\ \A i \in 1..(k - 1) : contents[Inventory[i].path] = Inventory[i].sha256
        /\ \A path \in DOMAIN contents : IsContent(path, contents[path])
    BY <2>4 DEF IInv, Collected
  <2>8. target \notin DOMAIN contents
    <3>1. DOMAIN contents = {Inventory[i].path : i \in 1..(k - 1)}  BY <2>7
    <3>2. \A i, j \in 1..Len(Inventory) : Inventory[i].path = Inventory[j].path => i = j
      BY <2>5, SoundFacts
    <3> QED  BY <2>5, <2>6, <3>1, <3>2 DEF Entry
  <2>9. Typed'  BY <2>1 DEF IInv, Typed
  <2>10. Listed'
    <3>1. k + 1 \in 1..(Len(Inventory) + 1)  BY <2>5, <2>6
    <3>2. Range(PathsOf(Inventory)) \subseteq HtmlLike \cup {Site}  BY <2>4 DEF IInv, Listed
    <3> QED  BY <2>1, <2>4, <2>5, <3>1, <3>2 DEF Listed, ReadingManifest, Sound, Inventory
  <2>11. Collected'
    <3>1. k' - 1 = k /\ Inventory' = Inventory  BY <2>1, <2>6 DEF Inventory
    <3>2. DOMAIN contents' = {Inventory[i].path : i \in 1..k}
      <4>1. DOMAIN contents = {Inventory[i].path : i \in 1..(k - 1)}  BY <2>7
      <4>2. target = Inventory[k].path  BY <2>5 DEF Entry
      <4> QED  BY <2>2, <2>6, <4>1, <4>2
    <3>3. contents' = [path \in {Inventory[i].path : i \in 1..k} |-> contents'[path]]
      BY <2>2, <3>2
    <3>4. ASSUME NEW i \in 1..k PROVE contents'[Inventory[i].path] = Inventory[i].sha256
      <4>1. CASE i = k  BY <2>2, <2>3, <2>5, <4>1 DEF Entry
      <4>2. CASE i # k
        <5>1. i \in 1..(k - 1)  BY <2>6, <4>2
        <5>2. Inventory[i].path \in DOMAIN contents  BY <2>7, <5>1
        <5> QED  BY <2>2, <2>7, <2>8, <5>1, <5>2
      <4> QED  BY <4>1, <4>2
    <3>5. \A path \in DOMAIN contents' : IsContent(path, contents'[path])
      BY <2>2, <2>4, <2>7
    <3> HIDE DEF Inventory
    <3> QED  BY <3>1, <3>3, <3>4, <3>5 DEF Collected
  <2>12. Counted'
    <3>1. IsFiniteSet(Places(contents)) /\ total = Cardinality(Places(contents))
      BY DEF IInv, Counted
    <3>2. /\ IsFiniteSet(Places(contents'))
          /\ Cardinality(Places(contents')) = Cardinality(Places(contents)) + Len(payload)
      BY <2>2, <2>4, <2>8, <3>1, PlacesOfOneMore
    <3>3. IsFiniteSet(Places(contents))' /\ total' = Cardinality(Places(contents))'
      BY <2>1, <3>1, <3>2
    <3>4. Len(payload) \in Nat  BY <2>4 DEF IsArray
    <3>5. total' \in Nat /\ total' <= MaxTotal  BY <2>1, <2>3, <2>5, <3>4
    <3>6. Len(payload') <= MaxFile + 1 /\ Len(payload') <= MaxBytes' + 1
      BY <2>1, <2>4 DEF IInv, Counted, MaxBytes
    <3> QED  BY <2>1, <2>4, <3>3, <3>5, <3>6 DEF Counted, ReadingEntry
  <2>13. Passed'  BY <2>1, <2>4 DEF Passed
  <2> QED  BY <2>9, <2>10, <2>11, <2>12, <2>13 DEF IInv
<1> QED  BY <1>1, <1>2 DEF CompareEntry

LEMMA CompareTotalKeeps ==
  ASSUME IInv, CompareTotal
  PROVE  IInv'
<1> DEFINE fault == Blame(total # manifest.snapshot.total, "size_mismatch")
<1>1. CASE Check("entry", fault)
  <2>1. IsFault(fault)  BY FaultCodes
  <2> HIDE DEF fault
  <2> QED  BY <1>1, <2>1, CheckRefuses, RefusedKeeps
<1>2. CASE k \notin DOMAIN Inventory /\ Passes("entry", fault, "contracts") /\ UNCHANGED <<reader, loop>>
  <2>1. /\ pc = "entry" /\ pc' = "contracts"
        /\ UNCHANGED <<root, verdict, target, stream, payload, manifest, k, total, contents>>
    BY <1>2 DEF Passes, directory, reader, loop
  <2>2. total = manifest.snapshot.total  BY <1>2 DEF Passes, Blame
  <2>3. Sound /\ verdict = "PENDING" /\ Looping /\ Looping' /\ k \in 1..(Len(Inventory) + 1)
    BY <2>1 DEF IInv, Typed, Listed, Looping
  <2>4. k = Len(Inventory) + 1 /\ total = DeclaredBytes(Inventory)
    BY <1>2, <2>2, <2>3, SoundFacts
  <2>5. Typed'  BY <2>1 DEF IInv, Typed
  <2>6. Listed'  BY <2>1, <2>3 DEF IInv, Listed, ReadingManifest, Sound, Inventory
  <2>7. Collected'  BY <2>1, <2>3 DEF IInv, Collected, Inventory
  <2>8. Counted'  BY <2>1, <2>3, <2>4 DEF IInv, Counted, ReadingEntry, MaxBytes, Inventory
  <2>9. Passed'  BY <2>1, <2>3 DEF Passed
  <2> QED  BY <2>5, <2>6, <2>7, <2>8, <2>9 DEF IInv
<1> QED  BY <1>1, <1>2 DEF CompareTotal

LEMMA CollectedContents ==
  ASSUME IInv, Looping
  PROVE  AreContents(contents)
<1>1. /\ Sound /\ k \in 1..(Len(Inventory) + 1)
      /\ Range(PathsOf(Inventory)) \subseteq HtmlLike \cup {Site}
  BY DEF IInv, Listed
<1>2. Range(PathsOf(Inventory)) = {Inventory[i].path : i \in 1..Len(Inventory)}
      /\ Len(Inventory) \in Nat
  BY <1>1, SoundFacts
<1>3. 1..(k - 1) \subseteq 1..Len(Inventory)  BY <1>1, <1>2
<1>4. /\ DOMAIN contents = {Inventory[i].path : i \in 1..(k - 1)}
      /\ \A path \in DOMAIN contents : IsContent(path, contents[path])
  BY DEF IInv, Collected
<1>5. DOMAIN contents \subseteq HtmlLike \cup {Site}  BY <1>1, <1>2, <1>3, <1>4
<1> QED  BY <1>4, <1>5 DEF AreContents, IInv, Counted

LEMMA CheckContractsKeeps ==
  ASSUME IInv, CheckContracts
  PROVE  IInv'
<1> DEFINE fault == ContractsFault(manifest, contents)
<1>1. Looping /\ pc = "contracts"  BY DEF CheckContracts, Looping
<1>2. CASE Check("contracts", fault)
  <2>1. IsFault(fault)  BY <1>1, CollectedContents, ContractCodes
  <2> HIDE DEF fault
  <2> QED  BY <1>2, <2>1, CheckRefuses, RefusedKeeps
<1>3. CASE /\ fault = {} /\ verdict' = "PASS" /\ pc' = "done"
           /\ UNCHANGED <<directory, reader, loop, alone>>
  <2> HIDE DEF fault
  <2>1. /\ verdict' = "PASS" /\ pc' = "done"
        /\ UNCHANGED <<root, target, stream, payload, manifest, k, total, contents>>
    BY <1>3 DEF directory, reader, loop
  <2>2. Typed'  BY <2>1 DEF IInv, Typed
  <2>3. Listed'  BY <1>1, <2>1 DEF IInv, Listed, ReadingManifest, Looping, Sound, Inventory
  <2>4. Collected'  BY <1>1, <2>1 DEF IInv, Collected, Looping, Inventory
  <2>5. Counted'  BY <1>1, <2>1 DEF IInv, Counted, ReadingEntry, MaxBytes, Inventory
  <2>6. Passed'
    <3>1. fault' = fault  BY <2>1 DEF fault
    <3> QED  BY <1>3, <3>1 DEF Passed, fault
  <2> QED  BY <2>2, <2>3, <2>4, <2>5, <2>6 DEF IInv
<1> QED  BY <1>2, <1>3 DEF CheckContracts

LEMMA StepKeeps ==
  IInv /\ [Next]_vars => IInv'
<1> SUFFICES ASSUME IInv, [Next]_vars PROVE IInv'  OBVIOUS
<1>1. CASE Disturb  BY <1>1, DisturbKeeps
<1>2. CASE Connect  BY <1>2, ConnectKeeps
<1>3. CASE Verify
  BY <1>3, LstatKeeps, OpenKeeps, FstatKeeps, ReadSomeKeeps, ReadEndsKeeps, SystemFailsKeeps,
     ParseManifestKeeps, ListDirectoryKeeps, ExamineEntryKeeps, CompareEntryKeeps,
     CompareTotalKeeps, CheckContractsKeeps
     DEF Verify
<1>4. CASE UNCHANGED vars
  <2>1. UNCHANGED <<root, pc, target, stream, payload, manifest, k, total, contents, verdict>>
    BY <1>4 DEF vars, directory, reader, loop
  <2>2. IsDirectory(root)' /\ (pc \in {"waiting", "fstat", "read"} => IsFile(target, stream)')
    BY <2>1 DEF IInv, Typed
  <2> QED  BY <2>1, <2>2, FilesKeep
<1> QED  BY <1>1, <1>2, <1>3, <1>4 DEF Next

(* What the loop knows of the manifest and the bytes read, whoever writes  *)
(* to the files meanwhile.                                                 *)
THEOREM Invariance == Spec => []IInv
  BY InitHolds, StepKeeps, PTL DEF Spec

(* What the tool holds in memory stays within its limits, for any limits,  *)
(* names, files and writers.                                               *)
THEOREM BudgetIsKept == Spec => []BudgetHolds
<1>1. IInv => BudgetHolds  BY DEF IInv, Counted, BudgetHolds
<1> QED  BY <1>1, Invariance, PTL

-----------------------------------------------------------------------------
(* What the JPEG contract says of contents without a fault.                *)

LEMMA JpegFacts ==
  ASSUME NEW contract, NEW c, JpegFault(contract, c) = {}
  PROVE  LET bytes    == InBytes(c, "image/jpeg")
             settings == InSettings(c, "image/jpeg")
         IN  /\ Collect(c, bytes) = Expected(contract.payloads)
             /\ Collect(c, settings) = Expected(contract.payloads)
             /\ IsInjective([i \in DOMAIN contract.payloads |-> contract.payloads[i].sha256])
<1> DEFINE bytes     == InBytes(c, "image/jpeg")
           settings  == InSettings(c, "image/jpeg")
           actual    == Collect(c, bytes)
           digests   == [i \in DOMAIN contract.payloads |-> contract.payloads[i].sha256]
           noField   == Blame(\A x \in Range(c[Site]) : x.field \notin {"settings", "escaped"},
                              "generator_metadata_mismatch")
           different == Blame(\/ actual # Collect(c, settings)
                              \/ actual # Expected(contract.payloads), "embedded_media_mismatch")
           numbers   == Blame(\/ Occurrences(actual) # JpegCounts[1]
                              \/ Unique(actual) # JpegCounts[2], "embedded_media_mismatch")
<1>1. Clean(JpegSchemaFault(contract)) /\ Clean(different)
  <2>1. JpegFault(contract, c) = (JpegSchemaFault(contract) ?? noField ??
                                  CollectFault(c, bytes) ?? CollectFault(c, settings) ??
                                  different ?? numbers)
    BY DEF JpegFault
  <2> HIDE DEF noField, different, numbers, bytes, settings
  <2>2. Clean(JpegFault(contract, c))  BY DEF Clean
  <2> QED  BY <2>1, <2>2, BothClean
<1>2. actual = Collect(c, settings) /\ actual = Expected(contract.payloads)
  <2> HIDE DEF bytes, settings, actual
  <2> QED  BY <1>1 DEF Clean, Blame
<1>3. IsInjective(digests)
  <2> DEFINE bad  == \/ ~IsInjective(digests) \/ ~Ascending(digests)
                     \/ Occurrences(Expected(contract.payloads)) # contract.total
             last == Schema(bad)
             each == FirstFault(contract.payloads, PayloadFault)
             many == Schema(\/ contract.total # JpegCounts[1]
                            \/ Len(contract.payloads) # JpegCounts[2])
  <2>1. JpegSchemaFault(contract) =
           (Schema(contract = WrongType) ?? Natural(contract.total) ??
            Schema(contract.payloads = WrongType) ?? many ?? each ?? last)
    BY DEF JpegSchemaFault
  <2>2. Clean(last)
    <3> HIDE DEF last, each, many
    <3> QED  BY <1>1, <2>1, BothClean
  <2>3. ~bad
    <3> HIDE DEF bad
    <3> QED  BY <2>2 DEF Clean, Schema, Blame
  <2> QED  BY <2>3
<1> QED  BY <1>2, <1>3

(* A payload that was collected has one place at least, and is counted.    *)
LEMMA CollectedAt ==
  ASSUME NEW c, NEW media, NEW payloads, Collect(c, media) = Expected(payloads)
  PROVE  /\ \A x \in media : \E p \in Range(payloads) :
               x[1] = Site /\ Fragment(c, x).payload = [digest |-> p.sha256, bytes |-> p.bytes]
         /\ \A p \in Range(payloads) :
               LET found == [digest |-> p.sha256, bytes |-> p.bytes]
               IN  p.locations[1].occurrences =
                      Cardinality({y \in media : y[1] = Site /\ Fragment(c, y).payload = found})
<1> DEFINE Record(x) ==
       [payload |-> Fragment(c, x).payload, path |-> x[1],
        count   |-> Cardinality({y \in media :
                       y[1] = x[1] /\ Fragment(c, y).payload = Fragment(c, x).payload})]
           Declared(p) ==
       [payload |-> [digest |-> p.sha256, bytes |-> p.bytes], path |-> Site,
        count |-> p.locations[1].occurrences]
<1>1. {Record(x) : x \in media} = {Declared(p) : p \in Range(payloads)}
  BY DEF Collect, Expected
<1>2. ASSUME NEW x \in media
      PROVE  \E p \in Range(payloads) :
                x[1] = Site /\ Fragment(c, x).payload = [digest |-> p.sha256, bytes |-> p.bytes]
  <2> HIDE DEF Record, Declared
  <2>1. PICK p \in Range(payloads) : Record(x) = Declared(p)  BY <1>1
  <2>2. /\ Record(x).path = x[1] /\ Record(x).payload = Fragment(c, x).payload
        /\ Declared(p).path = Site /\ Declared(p).payload = [digest |-> p.sha256, bytes |-> p.bytes]
    BY DEF Record, Declared
  <2> QED  BY <2>1, <2>2
<1>3. ASSUME NEW p \in Range(payloads), NEW found, found = [digest |-> p.sha256, bytes |-> p.bytes]
      PROVE  p.locations[1].occurrences =
                Cardinality({y \in media : y[1] = Site /\ Fragment(c, y).payload = found})
  <2> HIDE DEF Record, Declared
  <2>1. PICK x \in media : Record(x) = Declared(p)  BY <1>1
  <2>2. /\ Record(x).path = x[1] /\ Record(x).payload = Fragment(c, x).payload
        /\ Record(x).count = Cardinality({y \in media :
              y[1] = x[1] /\ Fragment(c, y).payload = Fragment(c, x).payload})
    BY DEF Record
  <2>3. /\ Declared(p).path = Site /\ Declared(p).payload = found
        /\ Declared(p).count = p.locations[1].occurrences
    BY <1>3 DEF Declared
  <2>4. x[1] = Site /\ Fragment(c, x).payload = found  BY <2>1, <2>2, <2>3
  <2>5. {y \in media : y[1] = x[1] /\ Fragment(c, y).payload = Fragment(c, x).payload} =
           {y \in media : y[1] = Site /\ Fragment(c, y).payload = found}
    BY <2>4
  <2> QED  BY <2>1, <2>2, <2>3, <2>5
<1> QED  BY <1>2, <1>3

(* A JPEG wherever it stands is one the manifest lists, and it stands in   *)
(* site.json.                                                              *)
LEMMA EveryJpegIsListed ==
  ASSUME NEW contract, NEW c, JpegFault(contract, c) = {}, NEW x \in Places(c),
         Fragment(c, x).mime = "image/jpeg"
  PROVE  /\ x[1] = Site
         /\ \E p \in Range(contract.payloads) : p.sha256 = Fragment(c, x).payload.digest
<1> DEFINE bytes    == InBytes(c, "image/jpeg")
           settings == InSettings(c, "image/jpeg")
<1>1. Collect(c, bytes) = Expected(contract.payloads)
      /\ Collect(c, settings) = Expected(contract.payloads)
  BY JpegFacts
<1>2. x \in bytes \/ x \in settings  BY DEF InBytes, InSettings
<1>3. \E p \in Range(contract.payloads) :
         x[1] = Site /\ Fragment(c, x).payload = [digest |-> p.sha256, bytes |-> p.bytes]
  <2> HIDE DEF bytes, settings
  <2> QED  BY <1>1, <1>2, CollectedAt
<1> QED  BY <1>3

(* The settings have each as often as its location says: one payload has   *)
(* the digest.                                                             *)
LEMMA EveryJpegIsCounted ==
  ASSUME NEW contract, NEW c, JpegFault(contract, c) = {}, NEW p \in Range(contract.payloads)
  PROVE  p.locations[1].occurrences =
            Cardinality({x \in InSettings(c, "image/jpeg") :
                            Fragment(c, x).payload.digest = p.sha256})
<1> DEFINE settings == InSettings(c, "image/jpeg")
           found    == [digest |-> p.sha256, bytes |-> p.bytes]
<1>1. /\ Collect(c, settings) = Expected(contract.payloads)
      /\ IsInjective([i \in DOMAIN contract.payloads |-> contract.payloads[i].sha256])
  BY JpegFacts
<1>2. ASSUME NEW q \in Range(contract.payloads), q.sha256 = p.sha256 PROVE q = p
  <2>1. PICK i \in DOMAIN contract.payloads : contract.payloads[i] = p  BY DEF Range
  <2>2. PICK j \in DOMAIN contract.payloads : contract.payloads[j] = q  BY DEF Range
  <2>3. i = j  BY <1>1, <1>2, <2>1, <2>2 DEF IsInjective
  <2> QED  BY <2>1, <2>2, <2>3
<1>3. /\ \A x \in settings : \E q \in Range(contract.payloads) :
            x[1] = Site /\ Fragment(c, x).payload = [digest |-> q.sha256, bytes |-> q.bytes]
      /\ p.locations[1].occurrences =
            Cardinality({y \in settings : y[1] = Site /\ Fragment(c, y).payload = found})
  <2> HIDE DEF settings
  <2> QED  BY <1>1, CollectedAt
<1>4. ASSUME NEW x \in settings
      PROVE  x[1] = Site /\ (Fragment(c, x).payload = found
                               <=> Fragment(c, x).payload.digest = p.sha256)
  <2>1. PICK q \in Range(contract.payloads) :
           x[1] = Site /\ Fragment(c, x).payload = [digest |-> q.sha256, bytes |-> q.bytes]
    BY <1>3
  <2>2. Fragment(c, x).payload.digest = q.sha256  BY <2>1
  <2>3. CASE q.sha256 = p.sha256  BY <1>2, <2>1, <2>2, <2>3
  <2>4. CASE q.sha256 # p.sha256
    <3>1. found.digest = p.sha256  OBVIOUS
    <3> HIDE DEF found
    <3> QED  BY <2>1, <2>2, <2>4, <3>1
  <2> QED  BY <2>3, <2>4
<1>5. {y \in settings : y[1] = Site /\ Fragment(c, y).payload = found} =
         {x \in settings : Fragment(c, x).payload.digest = p.sha256}
  <2> HIDE DEF settings, found
  <2> QED  BY <1>4
<1> QED  BY <1>3, <1>5

(* PASS is true of the bytes the manifest lists, whoever writes to the     *)
(* files meanwhile.                                                        *)
THEOREM PassIsTrue == Spec => []PassIsTrueOfTheManifestsBytes
<1>1. IInv => PassIsTrueOfTheManifestsBytes
  <2> SUFFICES ASSUME IInv, verdict = "PASS"
               PROVE  PassIsTrueOfTheManifestsBytes  BY DEF PassIsTrueOfTheManifestsBytes
  <2>1. /\ Sound /\ k = Len(Inventory) + 1
        /\ contents = [path \in {Inventory[i].path : i \in 1..(k - 1)} |-> contents[path]]
        /\ \A i \in 1..(k - 1) : contents[Inventory[i].path] = Inventory[i].sha256
    BY DEF IInv, Listed, Collected, Counted, Looping
  <2>2. k - 1 = Len(Inventory) /\ DOMAIN Inventory = 1..Len(Inventory)
        /\ Range(PathsOf(Inventory)) = {Inventory[i].path : i \in 1..Len(Inventory)}
    BY <2>1, SoundFacts
  <2>3. DOMAIN contents = Range(PathsOf(Inventory))  BY <2>1, <2>2
  <2>4. \A i \in DOMAIN Inventory : contents[Inventory[i].path] = Inventory[i].sha256
    BY <2>1, <2>2
  <2>5. JpegFault(manifest.jpegs, contents) = {} /\ RiskFault(manifest.risk, contents) = {}
    <3>1. Clean(ContractsFault(manifest, contents))  BY DEF IInv, Passed, Clean
    <3>2. Clean(JpegFault(manifest.jpegs, contents)) /\ Clean(RiskFault(manifest.risk, contents))
      BY <3>1, BothClean DEF ContractsFault
    <3> QED  BY <3>2 DEF Clean
  <2>6. Risk(contents) = manifest.risk
    <3> DEFINE last == Blame(Risk(contents) # manifest.risk, "redacted_risk_mismatch")
               unreadable == Blame(\E path \in Documents(contents) :
                                      \E c \in Range(contents[path]) : ~c.readable,
                                   "legacy_text_invalid")
               marks == Blame(Risk(contents).marks # MarkCounts, "third_party_mark_mismatch")
               media == CollectFault(contents, InDocuments(contents, "image/svg+xml"))
    <3>1. RiskFault(manifest.risk, contents) =
             (Schema(manifest.risk = WrongType) ?? unreadable ?? media ?? marks ?? last)
      BY DEF RiskFault
    <3>2. Clean(last)
      <4> HIDE DEF last, unreadable, marks, media
      <4>1. Clean(RiskFault(manifest.risk, contents))  BY <2>5 DEF Clean
      <4> QED  BY <3>1, <4>1, BothClean
    <3> HIDE DEF unreadable, marks, media
    <3> QED  BY <3>2 DEF Clean, Blame
  <2>7. \A x \in Places(contents) :
           Fragment(contents, x).mime = "image/jpeg" =>
              /\ x[1] = Site
              /\ \E p \in Range(manifest.jpegs.payloads) :
                    p.sha256 = Fragment(contents, x).payload.digest
    BY <2>5, EveryJpegIsListed
  <2>8. \A p \in Range(manifest.jpegs.payloads) :
           p.locations[1].occurrences =
              Cardinality({x \in InSettings(contents, "image/jpeg") :
                              Fragment(contents, x).payload.digest = p.sha256})
    BY <2>5, EveryJpegIsCounted
  <2> QED  BY <2>3, <2>4, <2>6, <2>7, <2>8 DEF PassIsTrueOfTheManifestsBytes
<1> QED  BY <1>1, Invariance, PTL

-----------------------------------------------------------------------------
(* A directory in order, where the manifest was read from it.              *)

ListedFiles ==
    [path \in {e.path : e \in Range(Inventory)} |->
        (CHOOSE e \in Range(Inventory) : e.path = path).sha256]

ManifestRead == root[ManifestName] = [kind |-> "regular", data |-> <<manifest>>]

ListedIsThere ==
    Range(PathsOf(Inventory)) = {Site} \cup {name \in HtmlLike : root[name].kind # "absent"}

InOrder ==
    /\ \A i \in 1..Len(Inventory) :
          /\ root[Inventory[i].path] = [kind |-> "regular", data |-> Inventory[i].sha256]
          /\ Len(Inventory[i].sha256) = Inventory[i].bytes
    /\ ListedIsThere
    /\ ContractsFault(manifest, ListedFiles) = {}

LEMMA ListedFile ==
  ASSUME Sound
  PROVE  /\ DOMAIN ListedFiles = {Inventory[i].path : i \in 1..Len(Inventory)}
         /\ \A i \in 1..Len(Inventory) : ListedFiles[Inventory[i].path] = Inventory[i].sha256
<1> DEFINE entries == Range(Inventory)
<1>1. /\ DOMAIN Inventory = 1..Len(Inventory)
      /\ \A i, j \in 1..Len(Inventory) : Inventory[i].path = Inventory[j].path => i = j
  BY SoundFacts
<1>2. entries = {Inventory[i] : i \in 1..Len(Inventory)}  BY <1>1 DEF Range
<1>3. {e.path : e \in entries} = {Inventory[i].path : i \in 1..Len(Inventory)}  BY <1>2
<1>4. ASSUME NEW i \in 1..Len(Inventory)
      PROVE  (CHOOSE e \in entries : e.path = Inventory[i].path) = Inventory[i]
  <2>1. Inventory[i] \in entries  BY <1>2
  <2>2. ASSUME NEW e \in entries, e.path = Inventory[i].path PROVE e = Inventory[i]
    BY <1>1, <1>2, <2>2
  <2> HIDE DEF entries
  <2> QED  BY <2>1, <2>2
<1> HIDE DEF entries
<1>5. ListedFiles = [path \in {e.path : e \in entries} |->
                        (CHOOSE e \in entries : e.path = path).sha256]
  BY DEF ListedFiles, entries
<1> QED  BY <1>3, <1>4, <1>5

LEMMA IntactIsInOrder ==
  ASSUME Sound, ManifestRead
  PROVE  Intact <=> InOrder
<1> DEFINE data == root[ManifestName].data
<1>1. root[ManifestName].kind = "regular" /\ data = <<manifest>> /\ Len(data) = 1
      /\ data[1] = manifest
  BY DEF ManifestRead
<1>2. manifest # WrongType /\ manifest.schema_version = 1 /\ InventoryFault(manifest.snapshot) = {}
  BY DEF Sound
<1> DEFINE Ready(m, listed) ==
       /\ m.schema_version = 1 /\ InventoryFault(m.snapshot) = {}
       /\ \A e \in Range(m.snapshot.inventory) : Len(e.sha256) = e.bytes
       /\ DOMAIN listed = {Site} \cup {name \in HtmlLike : root[name].kind # "absent"}
       /\ \A path \in DOMAIN listed : root[path] = [kind |-> "regular", data |-> listed[path]]
       /\ ContractsFault(m, listed) = {}
           Files(m) ==
       [path \in {e.path : e \in Range(m.snapshot.inventory)} |->
           (CHOOSE e \in Range(m.snapshot.inventory) : e.path = path).sha256]
<1>3. Intact <=> /\ root[ManifestName].kind = "regular" /\ Len(data) = 1 /\ data[1] # WrongType
                 /\ Ready(data[1], Files(data[1]))
  BY DEF Intact
<1>4. Files(manifest) = ListedFiles  BY DEF ListedFiles, Inventory
<1>5. Intact <=> Ready(manifest, ListedFiles)
  <2> HIDE DEF Ready, Files, data
  <2> QED  BY <1>1, <1>2, <1>3, <1>4
<1> HIDE DEF Files
<1>6. /\ DOMAIN Inventory = 1..Len(Inventory)
      /\ Range(PathsOf(Inventory)) = {Inventory[i].path : i \in 1..Len(Inventory)}
      /\ DOMAIN ListedFiles = Range(PathsOf(Inventory))
      /\ \A i \in 1..Len(Inventory) : ListedFiles[Inventory[i].path] = Inventory[i].sha256
  BY SoundFacts, ListedFile
<1>7. (\A e \in Range(Inventory) : Len(e.sha256) = e.bytes)
         <=> \A i \in 1..Len(Inventory) : Len(Inventory[i].sha256) = Inventory[i].bytes
  BY <1>6 DEF Range
<1>8. (\A path \in DOMAIN ListedFiles :
          root[path] = [kind |-> "regular", data |-> ListedFiles[path]])
         <=> \A i \in 1..Len(Inventory) :
                root[Inventory[i].path] = [kind |-> "regular", data |-> Inventory[i].sha256]
  <2>1. DOMAIN ListedFiles = {Inventory[i].path : i \in 1..Len(Inventory)}  BY <1>6
  <2>2. \A i \in 1..Len(Inventory) : ListedFiles[Inventory[i].path] = Inventory[i].sha256
    BY <1>6
  <2>3. ASSUME \A path \in DOMAIN ListedFiles :
                  root[path] = [kind |-> "regular", data |-> ListedFiles[path]],
               NEW i \in 1..Len(Inventory)
        PROVE  root[Inventory[i].path] = [kind |-> "regular", data |-> Inventory[i].sha256]
    <3>1. Inventory[i].path \in DOMAIN ListedFiles  BY <2>1
    <3> QED  BY <2>2, <2>3, <3>1
  <2>4. ASSUME \A i \in 1..Len(Inventory) :
                  root[Inventory[i].path] = [kind |-> "regular", data |-> Inventory[i].sha256],
               NEW path \in DOMAIN ListedFiles
        PROVE  root[path] = [kind |-> "regular", data |-> ListedFiles[path]]
    <3>1. PICK i \in 1..Len(Inventory) : path = Inventory[i].path  BY <2>1
    <3> QED  BY <2>2, <2>4, <3>1
  <2> QED  BY <2>3, <2>4
<1>9. Ready(manifest, ListedFiles)
         <=> /\ \A e \in Range(Inventory) : Len(e.sha256) = e.bytes
             /\ ListedIsThere
             /\ \A path \in DOMAIN ListedFiles :
                   root[path] = [kind |-> "regular", data |-> ListedFiles[path]]
             /\ ContractsFault(manifest, ListedFiles) = {}
  <2>1. Inventory = manifest.snapshot.inventory  BY DEF Inventory
  <2>2. (DOMAIN ListedFiles = {Site} \cup {name \in HtmlLike : root[name].kind # "absent"})
           <=> ListedIsThere
    BY <1>6 DEF ListedIsThere
  <2> QED  BY <1>2, <2>1, <2>2
<1> HIDE DEF Ready
<1> QED  BY <1>5, <1>7, <1>8, <1>9 DEF InOrder

LEMMA IntactUnchanged ==
  ASSUME UNCHANGED root
  PROVE  Intact' <=> Intact
  BY DEF Intact

LEMMA RegularIsFine ==
  ASSUME NEW file, IsArray(file.data)
  PROVE  KindAndSizeFault(file) = {} <=> (file.kind = "regular" /\ Len(file.data) <= MaxBytes)
<1>1. Len(file.data) \in Nat /\ MaxBytes \in Nat
  BY LimitsAssumption DEF IsArray, MaxBytes
<1> QED  BY <1>1 DEF KindAndSizeFault, ??, Blame, Limit

-----------------------------------------------------------------------------
(* Left alone, the tool reads what is there, and refuses only what is not  *)
(* in order.                                                               *)

Undisturbed == alone /\ verdict = "PENDING" /\ Followed /\ Matched

(* A check failed that passes in a directory in order.                     *)
LEMMA RightlyRefused ==
  ASSUME Refused, ~Intact
  PROVE  AInv'
  BY IntactUnchanged DEF AInv, Refused

LEMMA FileAt ==
  ASSUME IInv, NEW name \in Names
  PROVE  /\ root[name] = [kind |-> root[name].kind, data |-> root[name].data]
         /\ IsArray(root[name].data) /\ Len(root[name].data) \in Nat
         /\ DOMAIN root[name].data = 1..Len(root[name].data)
<1>1. IsFile(name, root[name])  BY DEF IInv, Typed, IsDirectory
<1> QED  BY <1>1 DEF IsFile, IsContent, IsArray

LEMMA LstatRight ==
  ASSUME IInv, Undisturbed, Lstat
  PROVE  AInv'
<1>1. target \in Names /\ pc = "lstat"  BY DEF IInv, Typed, Lstat, Check, Passes
<1>2. KindAndSizeFault(root[target]) = {}
         <=> (root[target].kind = "regular" /\ Len(root[target].data) <= MaxBytes)
  BY <1>1, FileAt, RegularIsFine
<1>3. CASE Check("lstat", KindAndSizeFault(root[target]))
  <2>1. Refused
    <3>1. IsFault(KindAndSizeFault(root[target]))  BY KindAndSizeCodes
    <3> QED  BY <1>3, <3>1, CheckRefuses
  <2>2. ASSUME Intact PROVE root[target].kind = "regular" /\ Len(root[target].data) <= MaxBytes
    <3>1. CASE target = ManifestName
      <4>1. root[ManifestName].kind = "regular" /\ Len(root[ManifestName].data) = 1
        BY <2>2 DEF Intact
      <4>2. MaxBytes = MaxManifest /\ 1 <= MaxManifest  BY <3>1, LimitsAssumption DEF MaxBytes
      <4> QED  BY <3>1, <4>1, <4>2
    <3>2. CASE target # ManifestName
      <4>1. ReadingEntry /\ Looping  BY <1>1, <3>2 DEF ReadingEntry, Looping
      <4>2. Sound /\ ManifestRead /\ k \in 1..Len(Inventory) /\ target = Inventory[k].path
        BY <4>1 DEF IInv, Listed, Counted, Undisturbed, Matched, ManifestRead, Entry
      <4>3. InOrder  BY <2>2, <4>2, IntactIsInOrder
      <4>4. Inventory[k].bytes <= MaxFile  BY <4>2, SoundFacts
      <4>5. /\ root[target] = [kind |-> "regular", data |-> Inventory[k].sha256]
            /\ Len(Inventory[k].sha256) = Inventory[k].bytes
        BY <4>2, <4>3 DEF InOrder
      <4> QED  BY <3>2, <4>4, <4>5 DEF MaxBytes
    <3> QED  BY <3>1, <3>2
  <2>3. ~Intact  BY <1>2, <1>3, <2>2 DEF Check
  <2> QED  BY <2>1, <2>3, RightlyRefused
<1>4. CASE Passes("lstat", KindAndSizeFault(root[target]), "open") /\ UNCHANGED <<reader, loop>>
  <2>1. /\ pc' = "open"
        /\ UNCHANGED <<root, alone, verdict, target, stream, payload, manifest, k, total, contents>>
    BY <1>4 DEF Passes, directory, reader, loop
  <2>2. root[target].kind = "regular" /\ Len(root[target].data) <= MaxBytes
    BY <1>2, <1>4 DEF Passes
  <2>3. Followed'  BY <2>1, <2>2 DEF Followed, MaxBytes
  <2>4. Matched'
    BY <1>1, <2>1 DEF Undisturbed, Matched, Looping, ReadingEntry, Inventory
  <2> QED  BY <2>1, <2>3, <2>4 DEF AInv, Undisturbed
<1> QED  BY <1>3, <1>4 DEF Lstat

LEMMA OpenRight ==
  ASSUME IInv, Undisturbed, Open
  PROVE  AInv'
<1> DEFINE file == root[target]
           fault == Blame(file.kind \in {"absent", "directory"}, Unreadable)
<1>1. pc = "open" /\ file.kind = "regular" /\ Len(file.data) <= MaxBytes
  BY DEF Open, Check, Passes, Undisturbed, Followed
<1>2. fault = {}  BY <1>1 DEF Blame
<1>3. /\ pc' = "fstat" /\ stream' = file /\ payload' = << >>
      /\ UNCHANGED <<root, alone, verdict, target, manifest, k, total, contents>>
  BY <1>1, <1>2 DEF Open, Check, Passes, directory, loop
<1>4. Followed'  BY <1>1, <1>3 DEF Followed, MaxBytes
<1>5. Matched'
  BY <1>1, <1>3 DEF Undisturbed, Matched, Looping, ReadingEntry, Inventory
<1> QED  BY <1>3, <1>4, <1>5 DEF AInv, Undisturbed

LEMMA FstatRight ==
  ASSUME IInv, Undisturbed, Fstat
  PROVE  AInv'
<1>1. pc = "fstat" /\ stream = root[target] /\ payload = << >> /\ target \in Names
      /\ root[target].kind = "regular" /\ Len(root[target].data) <= MaxBytes
  BY DEF Fstat, Check, Passes, Undisturbed, Followed, IInv, Typed
<1>2. KindAndSizeFault(stream) = {}  BY <1>1, FileAt, RegularIsFine
<1>3. /\ pc' = "read"
      /\ UNCHANGED <<root, alone, verdict, target, stream, payload, manifest, k, total, contents>>
  BY <1>2 DEF Fstat, Check, Passes, directory, reader, loop
<1>4. Followed'
  <2>1. Len(payload) = 0 /\ Len(root[target].data) \in Nat  BY <1>1, FileAt
  <2> QED  BY <1>1, <1>3, <2>1 DEF Followed, MaxBytes
<1>5. Matched'
  BY <1>1, <1>3 DEF Undisturbed, Matched, Looping, ReadingEntry, Inventory
<1> QED  BY <1>3, <1>4, <1>5 DEF AInv, Undisturbed

LEMMA ReadSomeRight ==
  ASSUME IInv, Undisturbed, ReadSome
  PROVE  AInv'
<1> DEFINE data == root[target].data
<1>1. /\ pc = "read" /\ pc' = "read" /\ stream = root[target] /\ target \in Names
      /\ UNCHANGED <<root, alone, verdict, target, stream, manifest, k, total, contents>>
      /\ root[target].kind = "regular" /\ Len(data) <= MaxBytes
      /\ \A i \in 1..Len(payload) : payload[i] = data[i]
  BY DEF ReadSome, Undisturbed, Followed, directory, loop, IInv, Typed
<1>2. PICK n \in (Len(payload) + 1)..Min({ReadAtMost, Len(data)}) :
         payload' = payload \o SubSeq(data, Len(payload) + 1, n)
  BY <1>1 DEF ReadSome
<1>3. IsArray(payload) /\ Len(payload) \in Nat /\ IsArray(data) /\ Len(data) \in Nat
  BY <1>1, FileAt DEF IInv, Typed, IsArray
<1>4. n \in (Len(payload) + 1)..Len(data)
  <2>1. MaxBytes + 1 \in Nat  BY LimitsAssumption DEF MaxBytes
  <2>2. Min({MaxBytes + 1, Len(data)}) = IF MaxBytes + 1 <= Len(data) THEN MaxBytes + 1 ELSE Len(data)
    <3> HIDE DEF data
    <3> QED  BY <1>3, <2>1, MinOfTwo
  <2>3. Min({MaxBytes + 1, Len(data)}) <= Len(data) /\ Min({MaxBytes + 1, Len(data)}) \in Nat
    <3> HIDE DEF data
    <3> QED  BY <1>3, <2>1, <2>2
  <2> HIDE DEF data
  <2> QED  BY <1>3, <2>3 DEF ReadAtMost
<1> HIDE DEF data
<1>5. /\ Len(payload') = n
      /\ \A i \in 1..Len(payload) : payload'[i] = payload[i]
      /\ \A i \in (Len(payload) + 1)..n : payload'[i] = data[i]
  BY <1>2, <1>3, <1>4, Chunk
<1>6. Len(payload') <= Len(data) /\ \A i \in 1..Len(payload') : payload'[i] = data[i]
  <2>1. n <= Len(data)  BY <1>3, <1>4
  <2>2. \A i \in 1..n : i \in 1..Len(payload) \/ i \in (Len(payload) + 1)..n  BY <1>3, <1>4
  <2> QED  BY <1>1, <1>5, <2>1, <2>2
<1>7. Followed'  BY <1>1, <1>6 DEF Followed, MaxBytes, data
<1>8. Matched'
  BY <1>1 DEF Undisturbed, Matched, Looping, ReadingEntry, Inventory
<1> QED  BY <1>1, <1>7, <1>8 DEF AInv, Undisturbed

LEMMA ReadEndsRight ==
  ASSUME IInv, Undisturbed, ReadEnds
  PROVE  AInv'
<1> DEFINE data == root[target].data
           next == IF target = ManifestName THEN "parse" ELSE "compare"
<1>1. /\ pc = "read" /\ stream = root[target] /\ target \in Names
      /\ Len(payload) >= Min({ReadAtMost, Len(data)})
      /\ root[target].kind = "regular" /\ Len(data) <= MaxBytes
      /\ Len(payload) <= Len(data) /\ \A i \in 1..Len(payload) : payload[i] = data[i]
  BY DEF ReadEnds, Check, Passes, Undisturbed, Followed, IInv, Typed
<1>2. IsArray(payload) /\ Len(payload) \in Nat /\ IsArray(data) /\ Len(data) \in Nat
  BY <1>1, FileAt DEF IInv, Typed, IsArray
<1>3. MaxBytes \in Nat /\ ReadAtMost = MaxBytes + 1  BY LimitsAssumption DEF MaxBytes, ReadAtMost
<1>4. Limit(Len(payload) > MaxBytes) = {}
  <2> HIDE DEF data
  <2>1. ~(Len(payload) > MaxBytes)  BY <1>1, <1>2, <1>3
  <2> QED  BY <2>1 DEF Limit, Blame
<1>5. /\ pc' = next
      /\ UNCHANGED <<root, alone, verdict, target, payload, manifest, k, total, contents>>
  BY <1>4 DEF ReadEnds, Check, Passes, directory, loop
<1>6. payload = data
  <2> HIDE DEF data
  <2>1. Min({MaxBytes + 1, Len(data)}) = Len(data)
    <3>1. MaxBytes + 1 \in Nat /\ ~(MaxBytes + 1 <= Len(data))  BY <1>1, <1>2, <1>3
    <3>2. Min({MaxBytes + 1, Len(data)}) =
             IF MaxBytes + 1 <= Len(data) THEN MaxBytes + 1 ELSE Len(data)
      BY <1>2, <3>1, MinOfTwo
    <3> QED  BY <3>1, <3>2
  <2>2. Len(payload) = Len(data)  BY <1>1, <1>2, <1>3, <2>1
  <2>3. payload = [i \in 1..Len(data) |-> payload[i]] /\ data = [i \in 1..Len(data) |-> data[i]]
    BY <1>2, <2>2 DEF IsArray
  <2>4. [i \in 1..Len(data) |-> payload[i]] = [i \in 1..Len(data) |-> data[i]]  BY <1>1, <2>2
  <2> QED  BY <2>3, <2>4
<1>7. Followed'  BY <1>1, <1>5, <1>6 DEF Followed, MaxBytes
<1>8. Matched'
  BY <1>1, <1>5 DEF Undisturbed, Matched, Looping, ReadingEntry, Inventory
<1> QED  BY <1>5, <1>7, <1>8 DEF AInv, Undisturbed

LEMMA ParseManifestRight ==
  ASSUME IInv, Undisturbed, ParseManifest
  PROVE  AInv'
<1> DEFINE first == payload[1]
           fault == Blame(Len(payload) # 1, "manifest_unreadable") ??
                    Schema(first = WrongType) ?? Schema(first.schema_version # 1) ??
                    InventoryFault(first.snapshot)
<1>1. /\ pc = "parse" /\ target = ManifestName /\ payload = root[ManifestName].data
      /\ root[ManifestName].kind = "regular" /\ verdict = "PENDING" /\ ManifestName \in Names
      /\ IsArray(payload)
  BY DEF ParseManifest, Check, Passes, Undisturbed, Followed, IInv, Typed
<1>2. CASE Check("parse", fault)
  <2>1. Refused
    <3>1. IsFault(InventoryFault(first.snapshot)) /\ IsFault(Schema(first = WrongType))
          /\ IsFault(Schema(first.schema_version # 1))
      BY FaultCodes, InventoryCodes
    <3>2. IsFault(Blame(Len(payload) # 1, "manifest_unreadable"))  BY FaultCodes
    <3>3. IsFault(fault)  BY <3>1, <3>2, FaultCodes, Zenon
    <3> HIDE DEF fault
    <3> QED  BY <1>2, <3>3, CheckRefuses
  <2>2. ASSUME Intact PROVE FALSE
    <3>1. /\ Len(payload) = 1 /\ first # WrongType /\ first.schema_version = 1
          /\ InventoryFault(first.snapshot) = {}
      BY <1>1, <2>2 DEF Intact
    <3>2. /\ Clean(Blame(Len(payload) # 1, "manifest_unreadable"))
          /\ Clean(Schema(first = WrongType)) /\ Clean(Schema(first.schema_version # 1))
          /\ Clean(InventoryFault(first.snapshot))
      BY <3>1 DEF Clean, Schema, Blame
    <3>3. Clean(fault)  BY <3>2, BothClean
    <3> QED  BY <1>2, <3>3 DEF Check, Clean
  <2> QED  BY <2>1, <2>2, RightlyRefused
<1>3. CASE Passes("parse", fault, "list") /\ manifest' = first /\ UNCHANGED <<reader, k, total, contents>>
  <2>1. /\ pc' = "list" /\ manifest' = first
        /\ UNCHANGED <<root, alone, verdict, target, stream, payload>>
    BY <1>3 DEF Passes, directory, reader
  <2>2. Len(payload) = 1
    <3>1. Clean(fault)  BY <1>3 DEF Passes, Clean
    <3>2. Clean(Blame(Len(payload) # 1, "manifest_unreadable"))  BY <3>1, BothClean
    <3> QED  BY <3>2 DEF Clean, Blame
  <2>3. root[ManifestName] = [kind |-> "regular", data |-> <<first>>]
    <3>1. payload = <<first>>  BY <1>1, <2>2, OneOfArray
    <3>2. root[ManifestName] = [kind |-> root[ManifestName].kind, data |-> root[ManifestName].data]
      BY <1>1, FileAt
    <3> HIDE DEF first
    <3> QED  BY <1>1, <3>1, <3>2
  <2> HIDE DEF first, fault
  <2>4. Followed'  BY <2>1 DEF Followed
  <2>5. ~Looping'  BY <1>1, <2>1 DEF Looping, ReadingEntry
  <2>6. Matched'  BY <2>1, <2>3, <2>5 DEF Matched
  <2> QED  BY <1>1, <2>1, <2>4, <2>6 DEF AInv, Undisturbed
<1> QED  BY <1>2, <1>3 DEF ParseManifest

LEMMA ListDirectoryRight ==
  ASSUME IInv, Undisturbed, ListDirectory
  PROVE  AInv'
<1> DEFINE discovered == {name \in Names : Discovers(name)} \cup {Site}
           fault == Blame(discovered # Range(PathsOf(Inventory)), "inventory_mismatch")
<1>1. pc = "list" /\ verdict = "PENDING" /\ Sound /\ ManifestRead /\ k = 1 /\ total = 0
  BY DEF ListDirectory, Check, Passes, Undisturbed, Matched, IInv, Listed, ManifestRead
<1>2. discovered = {Site} \cup {name \in HtmlLike : root[name].kind # "absent"}
  BY DEF Discovers, Names
<1>3. fault = {} <=> ListedIsThere
  <2> HIDE DEF discovered
  <2> QED  BY <1>2 DEF Blame, ListedIsThere
<1> HIDE DEF discovered
<1>4. CASE Check("list", fault)
  <2>1. Refused
    <3>1. IsFault(fault)  BY FaultCodes
    <3> HIDE DEF fault
    <3> QED  BY <1>4, <3>1, CheckRefuses
  <2>2. ~ListedIsThere
    <3> HIDE DEF fault
    <3> QED  BY <1>3, <1>4 DEF Check
  <2>3. ~Intact  BY <1>1, <2>2, IntactIsInOrder DEF InOrder
  <2> QED  BY <2>1, <2>3, RightlyRefused
<1>5. CASE Passes("list", fault, "entry") /\ UNCHANGED <<reader, loop>>
  <2>1. /\ pc' = "entry"
        /\ UNCHANGED <<root, alone, verdict, target, stream, payload, manifest, k, total, contents>>
    BY <1>5 DEF Passes, directory, reader, loop
  <2>2. ListedIsThere  BY <1>3, <1>5 DEF Passes
  <2>3. Sum(Inventory)[0] = 0  BY <1>1, SoundFacts, Sums
  <2>4. Followed'  BY <2>1 DEF Followed
  <2>5. Matched'
    <3>1. k - 1 = 0 /\ Inventory' = Inventory  BY <1>1, <2>1 DEF Inventory
    <3>2. 1..(k - 1) = {} /\ total = Sum(Inventory)[k - 1]  BY <1>1, <2>3, <3>1
    <3> HIDE DEF Inventory
    <3> QED  BY <1>1, <2>1, <2>2, <3>1, <3>2 DEF Matched, ListedIsThere, ManifestRead
  <2> QED  BY <1>1, <2>1, <2>4, <2>5 DEF AInv, Undisturbed
<1> QED  BY <1>4, <1>5 DEF ListDirectory, discovered

LEMMA ExamineEntryRight ==
  ASSUME IInv, Undisturbed, ExamineEntry
  PROVE  AInv'
<1> DEFINE file  == root[Entry.path]
           size  == Len(file.data)
           fault == Blame(file.kind = "absent", "inventory_unreadable") ??
                    Blame(file.kind # "regular", "inventory_mismatch") ??
                    Limit(size > MaxFile \/ total + size > MaxTotal) ??
                    Blame(size # Entry.bytes, "size_mismatch")
<1>1. pc = "entry" /\ k \in DOMAIN Inventory /\ verdict = "PENDING" /\ Looping
  BY DEF ExamineEntry, Undisturbed, Looping
<1>2. Sound /\ ManifestRead /\ total = Sum(Inventory)[k - 1]
  BY <1>1 DEF IInv, Listed, Undisturbed, Matched, ManifestRead
<1>3. k \in 1..Len(Inventory)  BY <1>1, <1>2, SoundFacts
<1>4. CASE Check("entry", fault)
  <2>1. Refused
    <3>1. /\ IsFault(Blame(file.kind = "absent", "inventory_unreadable"))
          /\ IsFault(Blame(file.kind # "regular", "inventory_mismatch"))
          /\ IsFault(Limit(size > MaxFile \/ total + size > MaxTotal))
          /\ IsFault(Blame(size # Entry.bytes, "size_mismatch"))
      BY FaultCodes
    <3>2. IsFault(fault)  BY <3>1, FaultCodes, Zenon
    <3> HIDE DEF fault
    <3> QED  BY <1>4, <3>2, CheckRefuses
  <2>2. ASSUME Intact PROVE FALSE
    <3>1. InOrder  BY <1>2, <2>2, IntactIsInOrder
    <3>2. file = [kind |-> "regular", data |-> Entry.sha256] /\ size = Entry.bytes
      BY <1>3, <3>1 DEF InOrder, Entry
    <3>3. file.kind = "regular"  BY <3>2
    <3> HIDE DEF size, file
    <3>4. Entry.bytes \in Nat /\ Entry.bytes <= MaxFile  BY <1>2, <1>3, SoundFacts DEF Entry
    <3>5. total + Entry.bytes <= MaxTotal
      <4>1. /\ Len(Inventory) \in Nat /\ DeclaredBytes(Inventory) <= MaxTotal
            /\ \A i \in 1..Len(Inventory) : Inventory[i].bytes \in Nat
            /\ DeclaredBytes(Inventory) \in Nat
        BY <1>2, SoundFacts
      <4>2. /\ \A i \in 1..Len(Inventory) :
                  Sum(Inventory)[i] = Sum(Inventory)[i - 1] + Inventory[i].bytes
            /\ \A i \in 0..Len(Inventory) :
                  Sum(Inventory)[i] \in Nat /\ Sum(Inventory)[i] <= DeclaredBytes(Inventory)
        BY <4>1, Sums
      <4>3. Sum(Inventory)[k] = total + Entry.bytes  BY <1>2, <1>3, <4>2 DEF Entry
      <4>4. Sum(Inventory)[k] \in Nat /\ Sum(Inventory)[k] <= DeclaredBytes(Inventory)
        <5>1. k \in 0..Len(Inventory)  BY <1>3, <4>1
        <5> QED  BY <4>2, <5>1
      <4> QED  BY <4>1, <4>3, <4>4, LimitsAssumption
    <3>6. total \in Nat  BY DEF IInv, Counted
    <3>7. ~(size > MaxFile) /\ ~(total + size > MaxTotal)
      BY <3>2, <3>4, <3>5, <3>6, LimitsAssumption
    <3>8. /\ Clean(Blame(file.kind = "absent", "inventory_unreadable"))
          /\ Clean(Blame(file.kind # "regular", "inventory_mismatch"))
          /\ Clean(Limit(size > MaxFile \/ total + size > MaxTotal))
          /\ Clean(Blame(size # Entry.bytes, "size_mismatch"))
      BY <3>2, <3>3, <3>7 DEF Clean, Limit, Blame
    <3>9. Clean(fault)  BY <3>8, BothClean
    <3> QED  BY <1>4, <3>9 DEF Check, Clean
  <2> QED  BY <2>1, <2>2, RightlyRefused
<1>5. CASE /\ Passes("entry", fault, "lstat")
           /\ target' = Entry.path
           /\ UNCHANGED <<stream, attached, payload, loop>>
  <2>1. /\ pc' = "lstat" /\ UNCHANGED <<root, alone, verdict, manifest, k, total, contents>>
    BY <1>5 DEF Passes, directory, loop
  <2>2. Followed'  BY <2>1 DEF Followed
  <2>3. Matched'  BY <1>1, <2>1 DEF Undisturbed, Matched, Inventory
  <2> QED  BY <1>1, <2>1, <2>2, <2>3 DEF AInv, Undisturbed
<1> QED  BY <1>4, <1>5 DEF ExamineEntry

LEMMA CompareEntryRight ==
  ASSUME IInv, Undisturbed, CompareEntry
  PROVE  AInv'
<1>1. /\ pc = "compare" /\ verdict = "PENDING" /\ Looping /\ ReadingEntry /\ target \in Names
      /\ root[target].kind = "regular" /\ payload = root[target].data
  BY DEF CompareEntry, Check, Passes, Undisturbed, Followed, Looping, ReadingEntry, IInv, Typed
<1>2. /\ Sound /\ ManifestRead /\ total = Sum(Inventory)[k - 1] /\ ListedIsThere
      /\ \A i \in 1..(k - 1) :
            /\ root[Inventory[i].path] = [kind |-> "regular", data |-> Inventory[i].sha256]
            /\ Len(Inventory[i].sha256) = Inventory[i].bytes
      /\ k \in 1..Len(Inventory) /\ target = Entry.path
  BY <1>1 DEF IInv, Listed, Counted, Undisturbed, Matched, ManifestRead, ListedIsThere
<1>3. CASE Check("compare", EntryContentFault)
  <2>1. Refused
    <3>1. /\ IsFault(Blame(Len(payload) # Entry.bytes, "size_mismatch"))
          /\ IsFault(Blame(payload # Entry.sha256, "checksum_mismatch"))
      BY FaultCodes
    <3>2. IsFault(EntryContentFault)  BY <3>1, FaultCodes DEF EntryContentFault
    <3> QED  BY <1>3, <3>2, CheckRefuses
  <2>2. ASSUME Intact PROVE FALSE
    <3>1. InOrder  BY <1>2, <2>2, IntactIsInOrder
    <3>2. /\ root[target] = [kind |-> "regular", data |-> Entry.sha256]
          /\ Len(Entry.sha256) = Entry.bytes
      BY <1>2, <3>1 DEF InOrder, Entry
    <3>3. payload = Entry.sha256 /\ Len(payload) = Entry.bytes  BY <1>1, <3>2
    <3>4. EntryContentFault = {}  BY <3>3 DEF EntryContentFault, ??, Blame
    <3> QED  BY <1>3, <3>4 DEF Check
  <2> QED  BY <2>1, <2>2, RightlyRefused
<1>4. CASE /\ Passes("compare", EntryContentFault, "entry")
           /\ total' = total + Len(payload)
           /\ k' = k + 1
           /\ UNCHANGED <<reader, manifest>>
  <2>1. /\ pc' = "entry" /\ total' = total + Len(payload) /\ k' = k + 1
        /\ UNCHANGED <<root, alone, verdict, target, stream, payload, manifest>>
    BY <1>4 DEF Passes, directory, reader
  <2>2. Len(payload) = Entry.bytes /\ payload = Entry.sha256
    <3>1. Clean(EntryContentFault)  BY <1>4 DEF Passes, Clean
    <3>2. /\ Clean(Blame(Len(payload) # Entry.bytes, "size_mismatch"))
          /\ Clean(Blame(payload # Entry.sha256, "checksum_mismatch"))
      BY <3>1, BothClean DEF EntryContentFault
    <3> QED  BY <3>2 DEF Clean, Blame
  <2>3. Followed'  BY <2>1 DEF Followed
  <2>4. Matched'
    <3>1. k' - 1 = k /\ Inventory' = Inventory /\ Len(Inventory) \in Nat
      BY <1>2, <2>1, SoundFacts DEF Inventory
    <3>2. root[target] = [kind |-> "regular", data |-> Entry.sha256]
      <4>1. root[target] = [kind |-> root[target].kind, data |-> root[target].data]
        BY <1>1, FileAt
      <4> QED  BY <1>1, <2>2, <4>1
    <3>3. ASSUME NEW i \in 1..k
          PROVE  /\ root[Inventory[i].path] = [kind |-> "regular", data |-> Inventory[i].sha256]
                 /\ Len(Inventory[i].sha256) = Inventory[i].bytes
      <4>1. CASE i = k  BY <1>2, <2>2, <3>2, <4>1 DEF Entry
      <4>2. CASE i # k
        <5>1. i \in 1..(k - 1)  BY <1>2, <3>1, <4>2
        <5> QED  BY <1>2, <5>1
      <4> QED  BY <4>1, <4>2
    <3>4. total' = Sum(Inventory)[k]
      <4>1. \A i \in 1..Len(Inventory) : Inventory[i].bytes \in Nat  BY <1>2, SoundFacts
      <4>2. \A i \in 1..Len(Inventory) :
               Sum(Inventory)[i] = Sum(Inventory)[i - 1] + Inventory[i].bytes
        BY <3>1, <4>1, Sums
      <4> QED  BY <1>2, <2>1, <2>2, <4>2 DEF Entry
    <3> HIDE DEF Inventory
    <3>5. Sum(Inventory)' = Sum(Inventory)  BY <3>1
    <3> QED  BY <1>2, <2>1, <3>1, <3>3, <3>4, <3>5 DEF Matched, ManifestRead, ListedIsThere
  <2> QED  BY <1>1, <2>1, <2>3, <2>4 DEF AInv, Undisturbed
<1> QED  BY <1>3, <1>4 DEF CompareEntry

LEMMA CompareTotalRight ==
  ASSUME IInv, Undisturbed, CompareTotal
  PROVE  AInv'
<1>1. pc = "entry" /\ k \notin DOMAIN Inventory /\ verdict = "PENDING" /\ Looping
  BY DEF CompareTotal, Undisturbed, Looping
<1>2. Sound /\ k \in 1..(Len(Inventory) + 1) /\ total = Sum(Inventory)[k - 1]
  BY <1>1 DEF IInv, Listed, Undisturbed, Matched
<1>3. /\ Len(Inventory) \in Nat /\ DOMAIN Inventory = 1..Len(Inventory)
      /\ \A i \in 1..Len(Inventory) : Inventory[i].bytes \in Nat
      /\ DeclaredBytes(Inventory) = manifest.snapshot.total
  BY <1>2, SoundFacts
<1>4. k - 1 = Len(Inventory)  BY <1>1, <1>2, <1>3
<1>5. DeclaredBytes(Inventory) = Sum(Inventory)[Len(Inventory)]  BY <1>3, Sums
<1>6. Blame(total # manifest.snapshot.total, "size_mismatch") = {}
  BY <1>2, <1>3, <1>4, <1>5 DEF Blame
<1>7. /\ pc' = "contracts"
      /\ UNCHANGED <<root, alone, verdict, target, stream, payload, manifest, k, total, contents>>
  BY <1>6 DEF CompareTotal, Check, Passes, directory, reader, loop
<1>8. Followed'  BY <1>7 DEF Followed
<1>9. Matched'  BY <1>1, <1>7 DEF Undisturbed, Matched, Inventory
<1> QED  BY <1>1, <1>7, <1>8, <1>9 DEF AInv, Undisturbed

LEMMA CheckContractsRight ==
  ASSUME IInv, Undisturbed, CheckContracts
  PROVE  AInv'
<1> DEFINE fault == ContractsFault(manifest, contents)
<1>1. pc = "contracts" /\ verdict = "PENDING" /\ Looping  BY DEF CheckContracts, Undisturbed, Looping
<1>2. /\ Sound /\ ManifestRead /\ k = Len(Inventory) + 1 /\ ListedIsThere
      /\ \A i \in 1..(k - 1) :
            /\ root[Inventory[i].path] = [kind |-> "regular", data |-> Inventory[i].sha256]
            /\ Len(Inventory[i].sha256) = Inventory[i].bytes
      /\ contents = [path \in {Inventory[i].path : i \in 1..(k - 1)} |-> contents[path]]
      /\ \A i \in 1..(k - 1) : contents[Inventory[i].path] = Inventory[i].sha256
  BY <1>1 DEF IInv, Listed, Collected, Counted, Undisturbed, Matched, ManifestRead, ListedIsThere
<1>3. k - 1 = Len(Inventory)  BY <1>2, SoundFacts
<1>4. contents = ListedFiles
  <2> DEFINE paths == {Inventory[i].path : i \in 1..Len(Inventory)}
  <2>1. contents = [path \in paths |-> contents[path]]  BY <1>2, <1>3
  <2>2. ListedFiles = [path \in paths |-> ListedFiles[path]]
    <3>1. DOMAIN ListedFiles = paths  BY <1>2, ListedFile
    <3>2. ListedFiles = [path \in DOMAIN ListedFiles |-> ListedFiles[path]]  BY DEF ListedFiles
    <3> QED  BY <3>1, <3>2
  <2>3. ASSUME NEW path \in paths PROVE contents[path] = ListedFiles[path]
    BY <1>2, <1>3, ListedFile
  <2> HIDE DEF paths
  <2> QED  BY <2>1, <2>2, <2>3
<1>5. Intact <=> fault = {}
  <2>1. Intact <=> InOrder  BY <1>2, IntactIsInOrder
  <2>2. InOrder <=> ContractsFault(manifest, ListedFiles) = {}  BY <1>2, <1>3 DEF InOrder
  <2> QED  BY <1>4, <2>1, <2>2
<1>6. CASE Check("contracts", fault)
  <2>1. IsFault(fault)  BY <1>1, CollectedContents, ContractCodes
  <2> HIDE DEF fault
  <2>2. Refused  BY <1>6, <2>1, CheckRefuses
  <2>3. ~Intact  BY <1>5, <1>6 DEF Check
  <2> QED  BY <2>2, <2>3, RightlyRefused
<1>7. CASE fault = {} /\ verdict' = "PASS" /\ pc' = "done" /\ UNCHANGED <<directory, reader, loop, alone>>
  <2> HIDE DEF fault
  <2>1. verdict' = "PASS" /\ UNCHANGED root  BY <1>7 DEF directory
  <2>2. Intact'  BY <1>5, <1>7, <2>1, IntactUnchanged
  <2> QED  BY <2>1, <2>2 DEF AInv
<1> QED  BY <1>6, <1>7 DEF CheckContracts

LEMMA StepIsRight ==
  IInv /\ AInv /\ [Next]_vars => AInv'
<1> SUFFICES ASSUME IInv, AInv, [Next]_vars PROVE AInv'  OBVIOUS
<1>1. CASE ~alone'  BY <1>1 DEF AInv
<1>2. CASE UNCHANGED vars
  <2>1. UNCHANGED <<root, pc, target, stream, payload, manifest, k, total, contents, verdict, alone>>
    BY <1>2 DEF vars, directory, reader, loop
  <2>2. Intact' <=> Intact  BY <2>1, IntactUnchanged
  <2>3. Followed' <=> Followed  BY <2>1 DEF Followed, MaxBytes
  <2>4. Matched' <=> Matched  BY <2>1 DEF Matched, Looping, ReadingEntry, Inventory
  <2> QED  BY <2>1, <2>2, <2>3, <2>4 DEF AInv
<1>3. CASE Verify /\ alone'
  <2>1. ~SystemFails  BY <1>3 DEF SystemFails
  <2>2. alone /\ verdict = "PENDING"
    <3>1. alone
      BY <1>3, <2>1 DEF Verify, Lstat, Open, Fstat, ReadSome, ReadEnds, ParseManifest, ListDirectory,
             ExamineEntry, CompareEntry, CompareTotal, CheckContracts, Check, Passes
    <3>2. pc # "done"
      BY <1>3, <2>1 DEF Verify, Lstat, Open, Fstat, ReadSome, ReadEnds, ParseManifest, ListDirectory,
             ExamineEntry, CompareEntry, CompareTotal, CheckContracts, Check, Passes
    <3> QED  BY <3>1, <3>2 DEF IInv, Typed
  <2>3. Undisturbed  BY <2>2 DEF AInv, Undisturbed
  <2> QED
    BY <1>3, <2>1, <2>3, LstatRight, OpenRight, FstatRight, ReadSomeRight, ReadEndsRight,
       ParseManifestRight, ListDirectoryRight, ExamineEntryRight, CompareEntryRight,
       CompareTotalRight, CheckContractsRight
       DEF Verify
<1>4. ~alone' \/ UNCHANGED vars \/ (Verify /\ alone')
  BY DEF Next, Disturb, Connect
<1> QED  BY <1>1, <1>2, <1>3, <1>4

LEMMA Following == Spec => [](IInv /\ AInv)
<1>1. Init => AInv
  <2> SUFFICES ASSUME Init PROVE AInv  OBVIOUS
  <2>1. pc = "lstat" /\ target = ManifestName /\ verdict = "PENDING"  BY DEF Init
  <2>2. Followed /\ Matched  BY <2>1 DEF Followed, Matched, Looping, ReadingEntry
  <2> QED  BY <2>1, <2>2 DEF AInv
<1> QED  BY <1>1, InitHolds, StepKeeps, StepIsRight, PTL DEF Spec

(* Left alone, the tool passes a directory exactly if it is in order.      *)
THEOREM VerdictIsRight == Spec => []UndisturbedVerdictIsRight
<1>1. IInv /\ AInv => UndisturbedVerdictIsRight
  BY DEF IInv, Typed, AInv, UndisturbedVerdictIsRight
<1> QED  BY <1>1, Following, PTL

(* Only a FIFO put in a file's place during the run can hold it up.        *)
THEOREM NeverWaitsAlone == Spec => []WaitsOnlyIfRaced
<1>1. IInv /\ AInv => WaitsOnlyIfRaced
  BY DEF IInv, Typed, AInv, Followed, WaitsOnlyIfRaced
<1> QED  BY <1>1, Following, PTL
=============================================================================
