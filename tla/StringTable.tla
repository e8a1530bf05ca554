---------------------------- MODULE StringTable ----------------------------
(***************************************************************************)
(* The string table of lib/strtable (StrTable.h, StrTable.cpp) as a value.  *)
(* A model refers to a string by its key; the table is a number of buckets, *)
(* each a map from keys to strings with a counter of its own.               *)
(*                                                                         *)
(* A key is 32 bits: the hash of the string above a number that the bucket  *)
(* gives out.  Here it is the pair of both.  The counter is an unsigned     *)
(* short: NumberSpace is 2^16 in the code, and smaller for model checking.  *)
(* warned is not a field of the class: it remembers the buckets for which   *)
(* "Bucket (%d) is full" has been written.                                  *)
(***************************************************************************)
EXTENDS Naturals

CONSTANTS String,        \* the strings but the empty one
          NoString,      \* the empty string
          HashOf,        \* hash()
          NoBuckets,     \* no_buckets
          NumberSpace    \* the values of an unsigned short

ASSUME StringAssumption == NoString \notin String
ASSUME HashAssumption == HashOf \in [String -> Nat]
ASSUME NoBucketsAssumption == NoBuckets \in Nat \ {0}
ASSUME NumberSpaceAssumption == NumberSpace \in Nat /\ NumberSpace > 2

Text == String \cup {NoString}
Bucket == 0 .. NoBuckets - 1
Number == 0 .. NumberSpace - 1
Key == Nat \X Number
StrType == {"strDefault", "strTmp", "strToSave"}

NoKey == <<0, 0>>

BucketOf(s) == HashOf[s] % NoBuckets

IsTable(T) == /\ T.count \in [Bucket -> Number]
              /\ DOMAIN T.entries \subseteq Key
              /\ T.entries \in [DOMAIN T.entries -> [str : String, type : StrType]]
              /\ T.warned \subseteq Bucket

NewTable == [count |-> [b \in Bucket |-> 1],
             entries |-> [k \in {} |-> [str |-> NoString, type |-> "strDefault"]],
             warned |-> {}]

\* The search runs over the keys with the hash of s, from the lowest on.
Found(T, s) == {k \in DOMAIN T.entries : k[1] = HashOf[s] /\ T.entries[k].str = s}

KeyOf(T, s) == IF s = NoString \/ Found(T, s) = {}
               THEN NoKey
               ELSE CHOOSE k \in Found(T, s) : \A j \in Found(T, s) : k[2] <= j[2]

\* get(key): the empty string when the key is unknown.
TextOf(T, k) == IF k \in DOMAIN T.entries THEN T.entries[k].str ELSE NoString

NextKey(T, s) == <<HashOf[s], T.count[BucketOf(s)]>>

\* Slip: wider than an unsigned short.
IncrementedWide(n) == n + 1

Incremented(n) == IF n + 1 = NumberSpace THEN 0 ELSE n + 1

\* map::insert leaves an existing entry alone.
WithEntry(T, k, e) == [j \in DOMAIN T.entries \cup {k} |->
                          IF j \in DOMAIN T.entries THEN T.entries[j] ELSE e]

Insert(T, s, type) ==
    LET b == BucketOf(s)
    IN  [count |-> [T.count EXCEPT ![b] = Incremented(T.count[b])],
         entries |-> WithEntry(T, NextKey(T, s), [str |-> s, type |-> type]),
         warned |-> IF Incremented(T.count[b]) = NumberSpace - 1
                    THEN T.warned \cup {b}
                    ELSE T.warned]

\* set(s, type) returns a key and may change the table.  The type of a string
\* that is there already stays as it is.
Set(T, s, type) == IF s = NoString \/ KeyOf(T, s) # NoKey THEN T ELSE Insert(T, s, type)

SetKey(T, s) == IF s = NoString \/ KeyOf(T, s) # NoKey THEN KeyOf(T, s) ELSE NextKey(T, s)

\* setType(key, type), for each key of K.
SetTypes(T, K, type) ==
    [count |-> T.count,
     entries |-> [k \in DOMAIN T.entries |->
                     [str |-> T.entries[k].str,
                      type |-> IF k \in K THEN type ELSE T.entries[k].type]],
     warned |-> T.warned]

\* Slip: the filter is ignored.
KeptAll(T, filterType) == DOMAIN T.entries

\* save(file, filterType)
Kept(T, filterType) ==
    {k \in DOMAIN T.entries :
        CASE filterType = "strTmp" -> T.entries[k].type # "strTmp"
          [] filterType = "strToSave" -> T.entries[k].type = "strToSave"
          [] OTHER -> TRUE}

Saved(T, filterType) ==
    [count |-> T.count,
     entries |-> [k \in Kept(T, filterType) |-> T.entries[k].str],
     warned |-> T.warned]

\* load(file).  Types are not saved.  The key 0 marks the end, and if a string
\* has it then it comes first of all.
Loaded(F) ==
    LET keys == IF NoKey \in DOMAIN F.entries THEN {} ELSE DOMAIN F.entries
    IN  [count |-> F.count,
         entries |-> [k \in keys |-> [str |-> F.entries[k], type |-> "strDefault"]],
         warned |-> F.warned]

=============================================================================
