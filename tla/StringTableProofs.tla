------------------------- MODULE StringTableProofs -------------------------
(* What the operations of the string table do, for every table and hash. *)
EXTENDS StringTable, WellFoundedInduction, TLAPS

\* Keys are made of the hash of their string and a number that has been given
\* out, a string has one key only, and no counter is at its end.
Sound(T) ==
    /\ \A k \in DOMAIN T.entries :
          /\ k[1] = HashOf[T.entries[k].str]
          /\ k[2] # 0
          /\ k[2] < T.count[BucketOf(T.entries[k].str)]
    /\ \A j, k \in DOMAIN T.entries : T.entries[j].str = T.entries[k].str => j = k
    /\ \A b \in Bucket : T.count[b] # 0 /\ T.count[b] < NumberSpace - 1

Known(T, k) == k = NoKey \/ k \in DOMAIN T.entries

\* No string of the table is marked for saving.
Unmarked(T) == \A k \in DOMAIN T.entries : T.entries[k].type # "strToSave"

\* The hash of every string selects a bucket.
LEMMA BucketType ==
    ASSUME NEW s \in String
    PROVE  BucketOf(s) \in Bucket
BY HashAssumption, NoBucketsAssumption DEF BucketOf, Bucket

\* A new table is well-formed, sound and empty.
LEMMA NewTableSound ==
    /\ IsTable(NewTable) /\ Sound(NewTable) /\ Unmarked(NewTable)
    /\ NewTable.warned = {} /\ DOMAIN NewTable.entries = {}
BY NumberSpaceAssumption, NoBucketsAssumption
DEF NewTable, IsTable, Sound, Unmarked, Bucket, Number, Key, BucketOf, StrType

\* get(key) gives a string or the empty one, and the empty one for the key 0 of a
\* sound table.
LEMMA TextType ==
    ASSUME NEW T, IsTable(T), NEW k
    PROVE  TextOf(T, k) \in Text
BY DEF TextOf, IsTable, Text

LEMMA NoKeyHasNoText ==
    ASSUME NEW T, IsTable(T), Sound(T)
    PROVE  NoKey \notin DOMAIN T.entries /\ TextOf(T, NoKey) = NoString
BY DEF IsTable, Sound, NoKey, TextOf

\* get(string) finds what is there, and only that.
LEMMA KeyOfType ==
    ASSUME NEW T, IsTable(T), NEW s, KeyOf(T, s) # NoKey, Sound(T)
    PROVE  /\ KeyOf(T, s) \in DOMAIN T.entries
           /\ T.entries[KeyOf(T, s)].str = s
<1>1. Found(T, s) # {} /\ KeyOf(T, s) = CHOOSE k \in Found(T, s) : \A j \in Found(T, s) : k[2] <= j[2]
  BY DEF KeyOf
<1>2. PICK k : k \in Found(T, s)
  BY <1>1
<1>3. \A j \in Found(T, s) : j = k
  BY <1>2 DEF Found, Sound
<1>4. k[2] <= k[2]
  BY <1>2 DEF Found, IsTable, Key, Number
<1>5. KeyOf(T, s) \in Found(T, s)
  BY <1>1, <1>2, <1>3, <1>4
<1> QED
  BY <1>5 DEF Found

LEMMA KeyOfFound ==
    ASSUME NEW T, IsTable(T), Sound(T), NEW k \in DOMAIN T.entries
    PROVE  KeyOf(T, T.entries[k].str) = k
<1> DEFINE s == T.entries[k].str
<1>1. s \in String /\ s # NoString
  BY StringAssumption DEF IsTable
<1>2. k \in Found(T, s)
  BY DEF Found, Sound
<1>3. \A j \in Found(T, s) : j = k
  BY DEF Found, Sound
<1>4. k[2] <= k[2]
  BY DEF IsTable, Key, Number
<1> QED
  BY <1>1, <1>2, <1>3, <1>4 DEF KeyOf

\* The search for the lowest key ends, so that a key has its type whatever the table.
LEMMA LeastNumber ==
    ASSUME NEW K, K # {}, NEW f, \A k \in K : f[k] \in Nat
    PROVE  \E k \in K : \A j \in K : f[k] <= f[j]
<1> DEFINE R == OpToRel(<, Nat)
           N == {f[k] : k \in K}
<1>1. N \subseteq Nat /\ N # {}
  OBVIOUS
<1>2. \A m, n \in Nat : m < n => <<m, n>> \in R
  BY DEF OpToRel
<1>3. \E n \in N : \A m \in N : ~ (<<m, n>> \in R)
  <2> HIDE DEF N
  <2> QED
    BY <1>1, WFMin, NatLessThanWellFounded
<1>4. PICK n \in N : \A m \in N : ~ (<<m, n>> \in R)
  BY <1>3
<1>5. \A m \in N : n <= m
  <2> HIDE DEF N, R
  <2> TAKE m \in N
  <2>1. m \in Nat /\ n \in Nat
    BY <1>1
  <2>2. ~ (m < n)
    BY <2>1, <1>2, <1>4
  <2> QED
    BY <2>1, <2>2
<1> QED
  BY <1>4, <1>5

LEMMA KeyOfInKey ==
    ASSUME NEW T, IsTable(T), NEW s
    PROVE  KeyOf(T, s) \in Key
<1>1. CASE s = NoString \/ Found(T, s) = {}
  BY <1>1, NumberSpaceAssumption DEF KeyOf, NoKey, Key, Number
<1>2. CASE ~(s = NoString \/ Found(T, s) = {})
  <2> DEFINE f == [k \in Found(T, s) |-> k[2]]
  <2>1. Found(T, s) \subseteq Key
    BY DEF Found, IsTable
  <2>2. \A k \in Found(T, s) : f[k] \in Nat
    BY <2>1, NumberSpaceAssumption DEF Key, Number
  <2>3. \E k \in Found(T, s) : \A j \in Found(T, s) : f[k] <= f[j]
    BY <1>2, <2>2, LeastNumber
  <2>4. \E k \in Found(T, s) : \A j \in Found(T, s) : k[2] <= j[2]
    BY <2>3
  <2>5. KeyOf(T, s) \in Found(T, s)
    BY <1>2, <2>4 DEF KeyOf
  <2> QED
    BY <2>1, <2>5
<1> QED
  BY <1>1, <1>2

\* The number of the next key has its type, and so has the next counter.
LEMMA NextKeyType ==
    ASSUME NEW T, IsTable(T), NEW s \in String
    PROVE  /\ NextKey(T, s) \in Key
           /\ NextKey(T, s)[1] = HashOf[s] /\ NextKey(T, s)[2] = T.count[BucketOf(s)]
           /\ Incremented(T.count[BucketOf(s)]) \in Number
<1>1. T.count[BucketOf(s)] \in Number
  BY BucketType DEF IsTable
<1>2. HashOf[s] \in Nat
  BY HashAssumption
<1> QED
  BY <1>1, <1>2, NumberSpaceAssumption DEF NextKey, Key, Number, Incremented

\* Inserting keeps the table well-formed, overflow or not, and forgets no warning.
LEMMA InsertType ==
    ASSUME NEW T, IsTable(T), NEW s \in String, NEW type \in StrType
    PROVE  IsTable(Insert(T, s, type)) /\ T.warned \subseteq Insert(T, s, type).warned
<1> DEFINE U == Insert(T, s, type)
           E == [str |-> s, type |-> type]
<1>1. U.count \in [Bucket -> Number]
  BY BucketType, NextKeyType DEF Insert, IsTable
<1>2. U.entries = WithEntry(T, NextKey(T, s), E)
  BY DEF Insert
<1>3. /\ DOMAIN U.entries = DOMAIN T.entries \cup {NextKey(T, s)}
      /\ \A k \in DOMAIN U.entries :
            U.entries[k] = IF k \in DOMAIN T.entries THEN T.entries[k] ELSE E
  BY <1>2 DEF WithEntry
<1>4. \A k \in DOMAIN U.entries : U.entries[k] \in [str : String, type : StrType]
  BY <1>3 DEF IsTable
<1>5. U.entries = [k \in DOMAIN U.entries |-> U.entries[k]]
  BY <1>2 DEF WithEntry
<1>6. U.entries \in [DOMAIN U.entries -> [str : String, type : StrType]]
  BY <1>4, <1>5
<1>7. U.warned \subseteq Bucket /\ T.warned \subseteq U.warned
  BY BucketType DEF Insert, IsTable
<1> QED
  BY <1>1, <1>3, <1>6, <1>7, NextKeyType DEF IsTable

\* set() keeps the table well-formed and returns a key.
LEMMA SetType ==
    ASSUME NEW T, IsTable(T), NEW s \in Text, NEW type \in StrType
    PROVE  /\ IsTable(Set(T, s, type)) /\ SetKey(T, s) \in Key
           /\ T.warned \subseteq Set(T, s, type).warned
<1>1. s # NoString => s \in String
  BY DEF Text
<1> QED
  BY <1>1, InsertType, NextKeyType, KeyOfInKey DEF Set, SetKey

\* As long as no counter comes to its end, inserting a string that is not there
\* keeps the table sound and every other string under its key.
LEMMA InsertSound ==
    ASSUME NEW T, IsTable(T), Sound(T), NEW s \in String, NEW type \in StrType,
           KeyOf(T, s) = NoKey, Insert(T, s, type).warned = {}
    PROVE  /\ Sound(Insert(T, s, type))
           /\ DOMAIN Insert(T, s, type).entries = DOMAIN T.entries \cup {NextKey(T, s)}
           /\ Insert(T, s, type).entries[NextKey(T, s)] = [str |-> s, type |-> type]
           /\ \A k \in DOMAIN T.entries : Insert(T, s, type).entries[k] = T.entries[k]
<1> DEFINE U == Insert(T, s, type)
           b == BucketOf(s)
           n == NextKey(T, s)
           E == [str |-> s, type |-> type]
<1>1. /\ b \in Bucket /\ T.count[b] \in Number /\ T.count[b] # 0
      /\ T.count[b] < NumberSpace - 1
  BY BucketType DEF IsTable, Sound
<1>2. Incremented(T.count[b]) = T.count[b] + 1 /\ Incremented(T.count[b]) # NumberSpace - 1
  <2>1. Incremented(T.count[b]) # NumberSpace - 1
    BY DEF Insert
  <2> QED
    BY <1>1, <2>1, NumberSpaceAssumption DEF Incremented, Number
<1>3. /\ U.count \in [Bucket -> Nat] /\ U.count[b] = T.count[b] + 1
      /\ \A c \in Bucket \ {b} : U.count[c] = T.count[c]
  BY <1>1, <1>2, InsertType, NumberSpaceAssumption DEF Insert, IsTable, Number
<1>4. \A k \in DOMAIN T.entries : T.entries[k].str # s
  <2>1. \A k \in DOMAIN T.entries : KeyOf(T, T.entries[k].str) = k
    BY KeyOfFound
  <2> QED
    BY <2>1, NoKeyHasNoText
<1>5. n \notin DOMAIN T.entries
  <2> SUFFICES ASSUME n \in DOMAIN T.entries PROVE FALSE
    OBVIOUS
  <2>1. n[1] = HashOf[s] /\ n[2] = T.count[b]
    BY NextKeyType
  <2>2. HashOf[T.entries[n].str] = HashOf[s]
    BY <2>1 DEF Sound
  <2>3. BucketOf(T.entries[n].str) = b
    BY <2>2 DEF BucketOf
  <2>4. n[2] < T.count[b]
    BY <2>3 DEF Sound
  <2> QED
    BY <2>1, <2>4, <1>1, NumberSpaceAssumption DEF Number
<1>6. /\ DOMAIN U.entries = DOMAIN T.entries \cup {n}
      /\ U.entries[n] = E
      /\ \A k \in DOMAIN T.entries : U.entries[k] = T.entries[k]
  BY <1>5 DEF Insert, WithEntry
<1>7. \A k \in DOMAIN U.entries :
         /\ k[1] = HashOf[U.entries[k].str]
         /\ k[2] # 0
         /\ k[2] < U.count[BucketOf(U.entries[k].str)]
  <2> TAKE k \in DOMAIN U.entries
  <2>1. CASE k = n
    <3>1. U.entries[k].str = s
      BY <2>1, <1>6
    <3>2. n[1] = HashOf[s] /\ n[2] = T.count[b]
      BY NextKeyType
    <3> HIDE DEF n, U
    <3> QED
      BY <2>1, <3>1, <3>2, <1>1, <1>3, NumberSpaceAssumption DEF Number
  <2>2. CASE k \in DOMAIN T.entries
    <3>1. U.entries[k] = T.entries[k] /\ T.entries[k].str \in String
      BY <2>2, <1>6 DEF IsTable
    <3>2. /\ k[1] = HashOf[T.entries[k].str] /\ k[2] # 0
          /\ k[2] < T.count[BucketOf(T.entries[k].str)]
      BY <2>2 DEF Sound
    <3>3. BucketOf(T.entries[k].str) \in Bucket
      BY <3>1, BucketType
    <3>4. T.count[BucketOf(T.entries[k].str)] <= U.count[BucketOf(T.entries[k].str)]
      <4> HIDE DEF U
      <4> QED
        BY <3>3, <1>1, <1>3, NumberSpaceAssumption DEF IsTable, Number
    <3>5. k[2] \in Nat /\ T.count[BucketOf(T.entries[k].str)] \in Nat
      BY <2>2, <3>3, NumberSpaceAssumption DEF IsTable, Key, Number
    <3> HIDE DEF U
    <3> QED
      BY <3>1, <3>2, <3>3, <3>4, <3>5, <1>3
  <2> QED
    BY <2>1, <2>2, <1>6
<1>8. \A j, k \in DOMAIN U.entries : U.entries[j].str = U.entries[k].str => j = k
  <2>1. \A j, k \in DOMAIN T.entries : T.entries[j].str = T.entries[k].str => j = k
    BY DEF Sound
  <2> HIDE DEF U, n
  <2> QED
    BY <2>1, <1>4, <1>6
<1>9. \A c \in Bucket : U.count[c] # 0 /\ U.count[c] < NumberSpace - 1
  <2>1. \A c \in Bucket : T.count[c] # 0 /\ T.count[c] < NumberSpace - 1
    BY DEF Sound
  <2>2. U.count[b] # 0 /\ U.count[b] < NumberSpace - 1
    <3> HIDE DEF U, b
    <3> QED
      BY <1>1, <1>2, <1>3, NumberSpaceAssumption DEF Number
  <2> HIDE DEF U, b
  <2> QED
    BY <2>1, <2>2, <1>3
<1> QED
  BY <1>6, <1>7, <1>8, <1>9 DEF Sound

\* set() returns a key under which the string is found, and leaves every key that
\* has been given out with its string.
LEMMA SetSound ==
    ASSUME NEW T, IsTable(T), Sound(T), Unmarked(T), NEW s \in Text,
           Set(T, s, "strDefault").warned = {}
    PROVE  LET U == Set(T, s, "strDefault")
           IN  /\ Sound(U) /\ Unmarked(U)
               /\ Known(U, SetKey(T, s)) /\ TextOf(U, SetKey(T, s)) = s
               /\ \A k : Known(T, k) => Known(U, k) /\ TextOf(U, k) = TextOf(T, k)
<1> DEFINE U == Set(T, s, "strDefault")
<1>1. CASE s = NoString
  <2>1. U = T /\ SetKey(T, s) = NoKey
    BY <1>1 DEF Set, SetKey, KeyOf
  <2> QED
    BY <1>1, <2>1, NoKeyHasNoText DEF Known
<1>2. CASE s # NoString /\ KeyOf(T, s) # NoKey
  <2>1. U = T /\ SetKey(T, s) = KeyOf(T, s)
    BY <1>2 DEF Set, SetKey
  <2> QED
    BY <1>2, <2>1, KeyOfType DEF Known, TextOf
<1>3. CASE s # NoString /\ KeyOf(T, s) = NoKey
  <2>1. /\ U = Insert(T, s, "strDefault") /\ SetKey(T, s) = NextKey(T, s)
        /\ s \in String /\ "strDefault" \in StrType
    BY <1>3 DEF Set, SetKey, Text, StrType
  <2>2. Insert(T, s, "strDefault").warned = {}
    BY <2>1
  <2>3. /\ Sound(Insert(T, s, "strDefault"))
        /\ DOMAIN Insert(T, s, "strDefault").entries = DOMAIN T.entries \cup {NextKey(T, s)}
        /\ Insert(T, s, "strDefault").entries[NextKey(T, s)] = [str |-> s, type |-> "strDefault"]
        /\ \A k \in DOMAIN T.entries : Insert(T, s, "strDefault").entries[k] = T.entries[k]
    <3> HIDE DEF U
    <3>1. KeyOf(T, s) = NoKey /\ s \in String /\ "strDefault" \in StrType
      BY <1>3, <2>1
    <3> QED
      BY <3>1, <2>2, InsertSound
  <2>4. IsTable(U)
    BY <2>1, InsertType
  <2> HIDE DEF U
  <2>5. Unmarked(U)
    BY <2>1, <2>3 DEF Unmarked
  <2>6. Known(U, SetKey(T, s)) /\ TextOf(U, SetKey(T, s)) = s
    BY <2>1, <2>3 DEF Known, TextOf
  <2>7. NoKey \notin DOMAIN U.entries /\ NoKey \notin DOMAIN T.entries
    BY <2>1, <2>3, <2>4, NoKeyHasNoText
  <2>8. \A k : Known(T, k) => Known(U, k) /\ TextOf(U, k) = TextOf(T, k)
    BY <2>1, <2>3, <2>7 DEF Known, TextOf
  <2> QED
    BY <2>1, <2>3, <2>5, <2>6, <2>8 DEF U
<1> QED
  BY <1>1, <1>2, <1>3

-----------------------------------------------------------------------------
\* The string table section of a file.
IsSaved(F) == /\ F.count \in [Bucket -> Number]
              /\ DOMAIN F.entries \subseteq Key
              /\ F.entries \in [DOMAIN F.entries -> String]
              /\ F.warned \subseteq Bucket

\* What save() writes is well-formed.
LEMMA SavedType ==
    ASSUME NEW T, IsTable(T), NEW K
    PROVE  LET F == Saved(SetTypes(T, K, "strToSave"), "strToSave")
           IN  IsSaved(F) /\ F.warned = T.warned
<1> DEFINE V == SetTypes(T, K, "strToSave")
           F == Saved(V, "strToSave")
<1>1. /\ V.count = T.count /\ V.warned = T.warned /\ DOMAIN V.entries = DOMAIN T.entries
      /\ \A k \in DOMAIN T.entries : V.entries[k].str = T.entries[k].str
  BY DEF SetTypes
<1>2. \A k \in DOMAIN T.entries : T.entries[k].str \in String
  BY DEF IsTable
<1>3. Kept(V, "strToSave") \subseteq DOMAIN V.entries
  BY DEF Kept
<1>4. /\ F.count = V.count /\ F.warned = V.warned
      /\ F.entries = [k \in Kept(V, "strToSave") |-> V.entries[k].str]
  BY DEF Saved
<1> HIDE DEF V, F
<1>5. F.entries \in [DOMAIN F.entries -> String]
  BY <1>1, <1>2, <1>3, <1>4
<1> QED
  BY <1>1, <1>3, <1>4, <1>5 DEF IsSaved, IsTable, F, V

\* What load() makes of it is a table.
LEMMA LoadedType ==
    ASSUME NEW F, IsSaved(F)
    PROVE  IsTable(Loaded(F)) /\ Unmarked(Loaded(F)) /\ Loaded(F).warned = F.warned
<1> DEFINE keys == IF NoKey \in DOMAIN F.entries THEN {} ELSE DOMAIN F.entries
<1>1. /\ Loaded(F).count = F.count /\ Loaded(F).warned = F.warned
      /\ Loaded(F).entries = [k \in keys |-> [str |-> F.entries[k], type |-> "strDefault"]]
  BY DEF Loaded
<1>2. keys \subseteq DOMAIN F.entries /\ \A k \in keys : F.entries[k] \in String
  BY DEF IsSaved
<1>3. Loaded(F).entries \in [DOMAIN Loaded(F).entries -> [str : String, type : StrType]]
  BY <1>1, <1>2 DEF StrType
<1> QED
  BY <1>1, <1>2, <1>3 DEF IsTable, IsSaved, Unmarked

\* The strings of the keys of K, and no others, survive marking, saving and loading.
LEMMA ReloadSound ==
    ASSUME NEW T, IsTable(T), Sound(T), Unmarked(T), NEW K
    PROVE  LET F == Saved(SetTypes(T, K, "strToSave"), "strToSave")
               L == Loaded(F)
           IN  /\ Sound(L)
               /\ DOMAIN F.entries = K \cap DOMAIN T.entries
               /\ \A k \in DOMAIN F.entries : F.entries[k] = TextOf(T, k)
               /\ \A k \in K : Known(T, k) => Known(L, k) /\ TextOf(L, k) = TextOf(T, k)
<1> DEFINE V == SetTypes(T, K, "strToSave")
           F == Saved(V, "strToSave")
           L == Loaded(F)
<1>1. /\ V.count = T.count /\ DOMAIN V.entries = DOMAIN T.entries
      /\ \A k \in DOMAIN T.entries :
            /\ V.entries[k].str = T.entries[k].str
            /\ V.entries[k].type = IF k \in K THEN "strToSave" ELSE T.entries[k].type
  BY DEF SetTypes
<1>2. Kept(V, "strToSave") = K \cap DOMAIN T.entries
  <2>1. \A k \in DOMAIN T.entries : T.entries[k].type # "strToSave"
    BY DEF Unmarked
  <2> HIDE DEF V
  <2>2. \A k \in DOMAIN T.entries : k \in Kept(V, "strToSave") <=> k \in K
    BY <1>1, <2>1 DEF Kept
  <2>3. Kept(V, "strToSave") \subseteq DOMAIN T.entries
    BY <1>1 DEF Kept
  <2> QED
    BY <2>2, <2>3
<1>3. /\ F.count = T.count /\ DOMAIN F.entries = K \cap DOMAIN T.entries
      /\ \A k \in DOMAIN F.entries : F.entries[k] = T.entries[k].str
  <2> HIDE DEF V
  <2> QED
    BY <1>1, <1>2 DEF Saved
<1>4. NoKey \notin DOMAIN T.entries /\ TextOf(T, NoKey) = NoString
  BY NoKeyHasNoText
<1>5. /\ L.count = T.count /\ DOMAIN L.entries = K \cap DOMAIN T.entries
      /\ \A k \in DOMAIN L.entries : L.entries[k].str = T.entries[k].str
  <2> HIDE DEF F
  <2> QED
    BY <1>3, <1>4 DEF Loaded
<1> HIDE DEF F, L
<1>6. Sound(L)
  BY <1>5 DEF Sound
<1>7. \A k \in DOMAIN F.entries : F.entries[k] = TextOf(T, k)
  BY <1>3 DEF TextOf
<1>8. \A k \in K : Known(T, k) => Known(L, k) /\ TextOf(L, k) = TextOf(T, k)
  BY <1>4, <1>5 DEF Known, TextOf
<1> QED
  BY <1>3, <1>6, <1>7, <1>8 DEF F, L, V

=============================================================================
