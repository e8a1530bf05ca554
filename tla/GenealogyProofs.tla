-------------------------- MODULE GenealogyProofs --------------------------
(* What GenealogyStore keeps, for any strings, hash, buckets and nodes. *)
EXTENDS GenealogyStore, StringTableProofs, FiniteSetTheorems

\* A complete file holds nodes with keys, and a table.
FileTyped ==
    Complete => /\ file.alive \subseteq Node
                /\ file.key \in [Node -> Key]
                /\ file.name \in [Node -> Text]
                /\ IsSaved(file.table)

\* Warnings are never forgotten.
WarningsKept ==
    /\ table.warned \subseteq warned
    /\ newTable.warned \subseteq warned
    /\ Complete => file.table.warned \subseteq warned

\* Nodes are marked and keys remembered only while the tables are exchanged.
SwapOnly == phase # "swap" => swapped = {} /\ DOMAIN keyMap = {}

TypeInv == TypeOK /\ FileTyped /\ WarningsKept /\ SwapOnly

\* A node that is gone leaves no key behind: its number may be used again.
Absent(nodes, keys, names) == \A n \in Node \ nodes : keys[n] = NoKey /\ names[n] = NoString

TablesSound == /\ Sound(table) /\ Unmarked(table)
               /\ Sound(newTable) /\ Unmarked(newTable)

\* Every node has a key of the table that is its own, for the right text.
KeysRight == \A n \in alive : Known(TableOf(n), key[n]) /\ Shown(n) = name[n]

\* A key that has been exchanged is one of the new table, for the same text.
KeyMapRight == \A k \in DOMAIN keyMap : /\ Known(newTable, keyMap[k])
                                        /\ TextOf(newTable, keyMap[k]) = TextOf(table, k)

FileRight ==
    Complete =>
        /\ Sound(Loaded(file.table))
        /\ Absent(file.alive, file.key, file.name)
        /\ \A n \in file.alive : /\ Known(Loaded(file.table), file.key[n])
                                 /\ TextOf(Loaded(file.table), file.key[n]) = file.name[n]
        /\ \A k \in DOMAIN file.table.entries :
               \E n \in file.alive : file.name[n] = file.table.entries[k]

Right == TablesSound /\ Absent(alive, key, name) /\ KeysRight /\ KeyMapRight /\ FileRight

GenealogyInv == TypeInv /\ (warned = {} => Right)

\* In a new process there is nothing that could be wrong.
LEMMA FreshRight ==
    ASSUME Fresh
    PROVE  /\ IsTable(table') /\ IsTable(newTable')
           /\ table'.warned = {} /\ newTable'.warned = {}
           /\ alive' = {} /\ swapped' = {} /\ DOMAIN keyMap' = {}
           /\ key' \in [Node -> Key] /\ name' \in [Node -> Text]
           /\ TablesSound' /\ Absent(alive, key, name)' /\ KeysRight' /\ KeyMapRight'
<1>1. table' = NewTable /\ newTable' = NewTable /\ alive' = {}
  BY DEF Fresh
<1>2. NoKey \in Key /\ NoString \in Text
  BY NumberSpaceAssumption DEF NoKey, Key, Number, Text
<1>3. key' = [n \in Node |-> NoKey] /\ name' = [n \in Node |-> NoString]
  BY DEF Fresh
<1>4. DOMAIN keyMap' = {}
  BY DEF Fresh, EmptyMap
<1>5. key' \in [Node -> Key] /\ name' \in [Node -> Text]
  BY <1>2, <1>3
<1> QED
  BY <1>1, <1>3, <1>4, <1>5, NewTableSound
     DEF Fresh, TablesSound, Absent, KeysRight, KeyMapRight

\* The empty genealogy is right, whatever lies at the place of the file.
LEMMA InitRight == Init => GenealogyInv
<1> SUFFICES ASSUME Init PROVE GenealogyInv
  OBVIOUS
<1>1. NoKey \in Key /\ NoString \in Text
  BY NumberSpaceAssumption DEF NoKey, Key, Number, Text
<1>2. file.state \in {"none", "foreign"}
  BY DEF Init, NoFile
<1>3. ~ Complete
  BY <1>2 DEF Complete
<1>4. key \in [Node -> Key] /\ name \in [Node -> Text] /\ DOMAIN keyMap = {}
  BY <1>1 DEF Init, EmptyMap
<1>5. TypeOK
  BY <1>2, <1>4, NewTableSound DEF Init, TypeOK, Phases
<1>6. FileTyped /\ WarningsKept /\ SwapOnly
  BY <1>3, <1>4, NewTableSound DEF Init, FileTyped, WarningsKept, SwapOnly
<1>7. Right
  BY <1>3, <1>4, NewTableSound
     DEF Init, Right, TablesSound, Absent, KeysRight, KeyMapRight, FileRight
<1> QED
  BY <1>5, <1>6, <1>7 DEF GenealogyInv, TypeInv

-----------------------------------------------------------------------------
\* FileRight, FileTyped speak of the file alone.
LEMMA FileKept ==
    ASSUME FileTyped, UNCHANGED file
    PROVE  FileTyped' /\ (FileRight => FileRight')
BY DEF FileTyped, FileRight, Complete, Absent

\* Starting a run without a usable file, or ending it early.
LEMMA FreshStep ==
    ASSUME GenealogyInv, Fresh, UNCHANGED <<file, warned>>,
           phase' \in Phases
    PROVE  GenealogyInv'
<1>1. TypeOK /\ FileTyped /\ WarningsKept /\ SwapOnly
  BY DEF GenealogyInv, TypeInv
<1>2. TypeOK'
  BY <1>1, FreshRight DEF TypeOK
<1>3. FileTyped' /\ WarningsKept' /\ SwapOnly'
  BY <1>1, FileKept, FreshRight DEF WarningsKept, Complete, SwapOnly
<1>4. warned' = {} => Right'
  BY <1>1, FileKept, FreshRight DEF GenealogyInv, Right
<1> QED
  BY <1>2, <1>3, <1>4 DEF GenealogyInv, TypeInv

LEMMA LoadStep ==
    ASSUME GenealogyInv, Load
    PROVE  GenealogyInv'
<1>1. TypeOK /\ FileTyped /\ WarningsKept /\ SwapOnly
  BY DEF GenealogyInv, TypeInv
<1>2. /\ Complete /\ phase' = "swap" /\ table' = Loaded(file.table) /\ newTable' = NewTable
      /\ alive' = file.alive /\ key' = file.key /\ name' = file.name
      /\ swapped' = {} /\ DOMAIN keyMap' = {}
      /\ UNCHANGED <<file, warned>>
  BY DEF Load, Complete, EmptyMap
<1>3. /\ IsTable(table') /\ Unmarked(table') /\ table'.warned = file.table.warned
  BY <1>1, <1>2, LoadedType DEF FileTyped
<1>4. TypeOK'
  BY <1>1, <1>2, <1>3, NewTableSound DEF TypeOK, FileTyped, Phases
<1>5. FileTyped' /\ WarningsKept' /\ SwapOnly'
  BY <1>1, <1>2, <1>3, FileKept, NewTableSound DEF WarningsKept, Complete, SwapOnly
<1>6. ASSUME warned' = {} PROVE Right'
  <2>1. FileRight
    BY <1>2, <1>6 DEF GenealogyInv, Right
  <2>2. TablesSound'
    BY <1>2, <1>3, <2>1, NewTableSound DEF TablesSound, FileRight
  <2>3. Absent(alive, key, name)'
    BY <1>2, <2>1 DEF FileRight, Absent
  <2>4. KeysRight'
    BY <1>2, <2>1 DEF FileRight, KeysRight, Shown, TableOf
  <2>5. KeyMapRight'
    BY <1>2 DEF KeyMapRight
  <2> QED
    BY <1>1, <1>2, <2>1, <2>2, <2>3, <2>4, <2>5, FileKept DEF Right
<1> QED
  BY <1>4, <1>5, <1>6 DEF GenealogyInv, TypeInv

LEMMA EndSwapStep ==
    ASSUME GenealogyInv, EndSwap
    PROVE  GenealogyInv'
<1>1. TypeOK /\ FileTyped /\ WarningsKept /\ SwapOnly
  BY DEF GenealogyInv, TypeInv
<1>2. /\ phase = "swap" /\ swapped = alive /\ phase' = "work" /\ table' = newTable
      /\ newTable' = NewTable /\ swapped' = {} /\ DOMAIN keyMap' = {}
      /\ UNCHANGED <<alive, key, file, name, warned>>
  BY DEF EndSwap, EmptyMap
<1>3. TypeOK'
  BY <1>1, <1>2, NewTableSound DEF TypeOK, Phases
<1>4. FileTyped' /\ WarningsKept' /\ SwapOnly'
  BY <1>1, <1>2, FileKept, NewTableSound DEF WarningsKept, Complete, SwapOnly
<1>5. ASSUME warned' = {} PROVE Right'
  <2>1. Right
    BY <1>2, <1>5 DEF GenealogyInv
  <2>2. TablesSound'
    BY <1>2, <2>1, NewTableSound DEF Right, TablesSound
  <2>3. Absent(alive, key, name)'
    BY <1>2, <2>1 DEF Right, Absent
  <2>4. KeysRight'
    BY <1>2, <2>1 DEF Right, KeysRight, Shown, TableOf
  <2>5. KeyMapRight'
    BY <1>2 DEF KeyMapRight
  <2> QED
    BY <1>1, <1>2, <2>1, <2>2, <2>3, <2>4, <2>5, FileKept DEF Right
<1> QED
  BY <1>3, <1>4, <1>5 DEF GenealogyInv, TypeInv

LEMMA CreateNodeStep ==
    ASSUME GenealogyInv, NEW n \in Node, CreateNode(n)
    PROVE  GenealogyInv'
<1>1. TypeOK /\ FileTyped /\ WarningsKept /\ SwapOnly
  BY DEF GenealogyInv, TypeInv
<1>2. /\ phase = "work" /\ n \notin alive /\ alive' = alive \cup {n}
      /\ UNCHANGED <<phase, table, key, newTable, swapped, keyMap,
                     file, name, warned>>
  BY DEF CreateNode
<1>3. TypeOK'
  BY <1>1, <1>2 DEF TypeOK
<1>4. FileTyped' /\ WarningsKept' /\ SwapOnly'
  BY <1>1, <1>2, FileKept DEF WarningsKept, Complete, SwapOnly
<1>5. ASSUME warned' = {} PROVE Right'
  <2>1. Right
    BY <1>2, <1>5 DEF GenealogyInv
  <2>2. TablesSound' /\ KeyMapRight'
    BY <1>2, <2>1 DEF Right, TablesSound, KeyMapRight
  <2>3. Absent(alive, key, name)'
    BY <1>2, <2>1 DEF Right, Absent
  <2>4. Known(table, NoKey) /\ TextOf(table, NoKey) = NoString
    BY <1>1, <2>1, NoKeyHasNoText DEF Right, TablesSound, TypeOK, Known
  <2>5. key[n] = NoKey /\ name[n] = NoString
    BY <1>2, <2>1 DEF Right, Absent
  <2>6. KeysRight'
    BY <1>2, <2>1, <2>4, <2>5 DEF Right, KeysRight, Shown, TableOf
  <2> QED
    BY <1>1, <1>2, <2>1, <2>2, <2>3, <2>6, FileKept DEF Right
<1> QED
  BY <1>3, <1>4, <1>5 DEF GenealogyInv, TypeInv

LEMMA DestroyNodeStep ==
    ASSUME GenealogyInv, NEW n \in Node, DestroyNode(n)
    PROVE  GenealogyInv'
<1>1. TypeOK /\ FileTyped /\ WarningsKept /\ SwapOnly
  BY DEF GenealogyInv, TypeInv
<1>2. /\ phase = "work" /\ n \in alive /\ alive' = alive \ {n}
      /\ key' = [key EXCEPT ![n] = NoKey] /\ name' = [name EXCEPT ![n] = NoString]
      /\ UNCHANGED <<phase, table, newTable, swapped, keyMap, file, warned>>
  BY DEF DestroyNode
<1>0. NoKey \in Key /\ NoString \in Text
  BY NumberSpaceAssumption DEF NoKey, Key, Number, Text
<1>3. TypeOK'
  BY <1>1, <1>2, <1>0 DEF TypeOK, SwapOnly
<1>4. FileTyped' /\ WarningsKept' /\ SwapOnly'
  BY <1>1, <1>2, FileKept DEF WarningsKept, Complete, SwapOnly
<1>5. ASSUME warned' = {} PROVE Right'
  <2>1. Right
    BY <1>2, <1>5 DEF GenealogyInv
  <2>2. TablesSound' /\ KeyMapRight'
    BY <1>2, <2>1 DEF Right, TablesSound, KeyMapRight
  <2>3. Absent(alive, key, name)'
    BY <1>1, <1>2, <2>1 DEF Right, Absent, TypeOK
  <2>4. KeysRight'
    BY <1>1, <1>2, <2>1 DEF Right, KeysRight, Shown, TableOf, TypeOK
  <2> QED
    BY <1>1, <1>2, <2>1, <2>2, <2>3, <2>4, FileKept DEF Right
<1> QED
  BY <1>3, <1>4, <1>5 DEF GenealogyInv, TypeInv

LEMMA SetNameStep ==
    ASSUME GenealogyInv, NEW n \in Node, NEW text \in Text, SetName(n, text)
    PROVE  GenealogyInv'
<1>1. TypeOK /\ FileTyped /\ WarningsKept /\ SwapOnly
  BY DEF GenealogyInv, TypeInv
<1>2. /\ phase = "work" /\ n \in alive
      /\ key' = [key EXCEPT ![n] = SetKey(table, text)]
      /\ table' = Set(table, text, "strDefault")
      /\ name' = [name EXCEPT ![n] = text]
      /\ warned' = warned \cup table'.warned
      /\ UNCHANGED <<phase, alive, newTable, swapped, keyMap, file>>
  BY DEF SetName
<1>3. /\ IsTable(table') /\ SetKey(table, text) \in Key
      /\ table.warned \subseteq table'.warned
  <2>1. IsTable(table) /\ "strDefault" \in StrType
    BY <1>1 DEF TypeOK, StrType
  <2> QED
    BY <1>2, <2>1, SetType
<1>4. TypeOK'
  <2>1. table'.warned \subseteq Bucket
    BY <1>3 DEF IsTable
  <2> QED
    BY <1>1, <1>2, <1>3, <2>1 DEF TypeOK
<1>5. FileTyped' /\ WarningsKept' /\ SwapOnly'
  BY <1>1, <1>2, FileKept DEF WarningsKept, Complete, SwapOnly
<1>6. ASSUME warned' = {} PROVE Right'
  <2>1. Right /\ table'.warned = {}
    BY <1>2, <1>6 DEF GenealogyInv
  <2>2. Sound(table) /\ Unmarked(table) /\ IsTable(table)
    BY <1>1, <2>1 DEF Right, TablesSound, TypeOK
  <2>3. Set(table, text, "strDefault").warned = {}
    BY <1>2, <2>1
  <2>4. LET U == Set(table, text, "strDefault")
        IN  /\ Sound(U) /\ Unmarked(U)
            /\ Known(U, SetKey(table, text)) /\ TextOf(U, SetKey(table, text)) = text
            /\ \A k : Known(table, k) => Known(U, k) /\ TextOf(U, k) = TextOf(table, k)
    BY <2>2, <2>3, SetSound
  <2>5. /\ Sound(table') /\ Unmarked(table')
        /\ Known(table', SetKey(table, text)) /\ TextOf(table', SetKey(table, text)) = text
        /\ \A k : Known(table, k) => Known(table', k) /\ TextOf(table', k) = TextOf(table, k)
    BY <1>2, <2>4
  <2>6. TablesSound'
    BY <1>2, <2>1, <2>5 DEF Right, TablesSound
  <2>7. Absent(alive, key, name)'
    BY <1>1, <1>2, <2>1 DEF Right, Absent, TypeOK
  <2>8. KeysRight'
    <3>1. \A m \in alive : Known(table, key[m]) /\ TextOf(table, key[m]) = name[m]
      BY <1>2, <2>1 DEF Right, KeysRight, Shown, TableOf
    <3>2. \A m \in alive : Known(table', key'[m]) /\ TextOf(table', key'[m]) = name'[m]
      BY <1>1, <1>2, <2>5, <3>1 DEF TypeOK
    <3> QED
      BY <1>2, <3>2 DEF KeysRight, Shown, TableOf
  <2>9. KeyMapRight'
    BY <1>1, <1>2 DEF SwapOnly, KeyMapRight
  <2> QED
    BY <1>1, <1>2, <2>1, <2>6, <2>7, <2>8, <2>9, FileKept DEF Right
<1> QED
  BY <1>4, <1>5, <1>6 DEF GenealogyInv, TypeInv

LEMMA BeginSaveStep ==
    ASSUME GenealogyInv, BeginSave
    PROVE  GenealogyInv'
<1>1. TypeOK /\ FileTyped /\ WarningsKept /\ SwapOnly
  BY DEF GenealogyInv, TypeInv
<1>2. phase = "work" /\ phase' = "save" /\ file'.state = "partial" /\ UNCHANGED <<memory, warned>>
  BY DEF BeginSave
<1>3. ~ Complete'
  BY <1>2 DEF Complete
<1>4. TypeOK'
  BY <1>1, <1>2 DEF TypeOK, Phases, memory
<1>5. FileTyped' /\ WarningsKept' /\ SwapOnly'
  BY <1>1, <1>2, <1>3 DEF FileTyped, WarningsKept, SwapOnly, memory
<1>6. warned' = {} => Right'
  BY <1>2, <1>3 DEF GenealogyInv, Right, TablesSound, Absent, KeysRight, KeyMapRight,
                    FileRight, Shown, TableOf, memory
<1> QED
  BY <1>4, <1>5, <1>6 DEF GenealogyInv, TypeInv

LEMMA RemoveFileStep ==
    ASSUME GenealogyInv, RemoveFile
    PROVE  GenealogyInv'
<1>1. TypeOK /\ FileTyped /\ WarningsKept /\ SwapOnly
  BY DEF GenealogyInv, TypeInv
<1>2. file'.state = "none" /\ UNCHANGED <<phase, memory, warned>>
  BY DEF RemoveFile, NoFile
<1>3. ~ Complete'
  BY <1>2 DEF Complete
<1>4. TypeOK'
  BY <1>1, <1>2 DEF TypeOK, memory
<1>5. FileTyped' /\ WarningsKept' /\ SwapOnly'
  BY <1>1, <1>2, <1>3 DEF FileTyped, WarningsKept, SwapOnly, memory
<1>6. warned' = {} => Right'
  BY <1>2, <1>3 DEF GenealogyInv, Right, TablesSound, Absent, KeysRight, KeyMapRight,
                    FileRight, Shown, TableOf, memory
<1> QED
  BY <1>4, <1>5, <1>6 DEF GenealogyInv, TypeInv

\* The file holds what the nodes had, with the strings that they use.
LEMMA EndSaveStep ==
    ASSUME GenealogyInv, EndSave
    PROVE  GenealogyInv'
<1> DEFINE K == {key[n] : n \in alive}
           F == Saved(SetTypes(table, K, "strToSave"), "strToSave")
<1>1. TypeOK /\ FileTyped /\ WarningsKept /\ SwapOnly
  BY DEF GenealogyInv, TypeInv
<1>2. /\ phase = "save" /\ phase' = "off" /\ Fresh /\ warned' = warned
      /\ file' = [state |-> "complete", alive |-> alive, key |-> key, table |-> F, name |-> name]
  BY DEF EndSave, Marked
<1>3. IsSaved(F) /\ F.warned = table.warned
  <2>1. IsTable(table)
    BY <1>1 DEF TypeOK
  <2> QED
    BY <2>1, SavedType
<1> HIDE DEF F
<1>4. /\ Complete' /\ file'.alive = alive /\ file'.key = key /\ file'.name = name
      /\ file'.table = F /\ file'.state = "complete"
  BY <1>2 DEF Complete
<1>5. TypeOK'
  BY <1>1, <1>2, <1>4, FreshRight DEF TypeOK, Phases
<1>6. FileTyped'
  BY <1>1, <1>3, <1>4 DEF FileTyped, TypeOK
<1>7. WarningsKept' /\ SwapOnly'
  BY <1>1, <1>2, <1>3, <1>4, FreshRight DEF WarningsKept, SwapOnly
<1>8. ASSUME warned' = {} PROVE Right'
  <2>1. Right
    BY <1>2, <1>8 DEF GenealogyInv
  <2>2. Sound(table) /\ Unmarked(table) /\ IsTable(table)
    BY <1>1, <2>1 DEF Right, TablesSound, TypeOK
  <2>3. /\ Sound(Loaded(F))
        /\ DOMAIN F.entries = K \cap DOMAIN table.entries
        /\ \A k \in DOMAIN F.entries : F.entries[k] = TextOf(table, k)
        /\ \A k \in K : Known(table, k) => /\ Known(Loaded(F), k)
                                          /\ TextOf(Loaded(F), k) = TextOf(table, k)
    BY <2>2, ReloadSound DEF F
  <2>4. \A n \in alive : key[n] \in K /\ Known(table, key[n]) /\ TextOf(table, key[n]) = name[n]
    BY <1>2, <2>1 DEF Right, KeysRight, Shown, TableOf
  <2>5. \A n \in alive : Known(Loaded(F), key[n]) /\ TextOf(Loaded(F), key[n]) = name[n]
    <3> HIDE DEF K
    <3> QED
      BY <2>3, <2>4
  <2>6. \A k \in DOMAIN F.entries : \E n \in alive : name[n] = F.entries[k]
    <3> TAKE k \in DOMAIN F.entries
    <3>1. PICK n \in alive : key[n] = k
      BY <2>3
    <3>2. F.entries[k] = TextOf(table, k)
      BY <2>3
    <3>3. TextOf(table, key[n]) = name[n]
      BY <2>4
    <3> QED
      BY <3>1, <3>2, <3>3
  <2>7. Absent(file'.alive, file'.key, file'.name)
    BY <1>4, <2>1 DEF Right, Absent
  <2>8. FileRight'
    BY <1>4, <2>3, <2>5, <2>6, <2>7 DEF FileRight, Absent
  <2> QED
    BY <1>2, <2>8, FreshRight DEF Right
<1> QED
  BY <1>5, <1>6, <1>7, <1>8 DEF GenealogyInv, TypeInv

\* A node gets the key of its text in the new table, from the map or by set().
LEMMA SwapNodeStep ==
    ASSUME GenealogyInv, NEW n \in Node, SwapNode(n)
    PROVE  GenealogyInv'
<1> DEFINE text == TextOf(table, key[n])
           fresh == key[n] \notin DOMAIN keyMap
           new == IF fresh THEN SetKey(newTable, text) ELSE keyMap[key[n]]
<1>1. TypeOK /\ FileTyped /\ WarningsKept /\ SwapOnly
  BY DEF GenealogyInv, TypeInv
<1>2. /\ phase = "swap" /\ n \in alive \ swapped
      /\ key' = [key EXCEPT ![n] = new]
      /\ newTable' = IF fresh THEN Set(newTable, text, "strDefault") ELSE newTable
      /\ keyMap' = IF fresh THEN Extend(keyMap, key[n], new) ELSE keyMap
      /\ swapped' = swapped \cup {n}
      /\ warned' = warned \cup newTable'.warned
      /\ UNCHANGED <<phase, table, alive, file, name>>
  BY DEF SwapNode
<1>3. /\ IsTable(table) /\ IsTable(newTable) /\ key[n] \in Key /\ text \in Text
      /\ "strDefault" \in StrType
  BY <1>1, <1>2, TextType DEF TypeOK, StrType
<1>4. /\ IsTable(Set(newTable, text, "strDefault")) /\ SetKey(newTable, text) \in Key
      /\ newTable.warned \subseteq Set(newTable, text, "strDefault").warned
  <2> HIDE DEF text
  <2> QED
    BY <1>3, SetType
<1> HIDE DEF text
<1>5. new \in Key
  BY <1>1, <1>4 DEF TypeOK
<1> HIDE DEF new
<1>6. IsTable(newTable') /\ newTable.warned \subseteq newTable'.warned
  BY <1>2, <1>3, <1>4
<1>7. /\ \A k \in DOMAIN keyMap : k \in DOMAIN keyMap'
      /\ key[n] \in DOMAIN keyMap' /\ keyMap'[key[n]] = new
      /\ \A k \in DOMAIN keyMap' : k = key[n] \/ (k \in DOMAIN keyMap /\ keyMap'[k] = keyMap[k])
  <2>1. CASE fresh
    BY <1>2, <2>1 DEF Extend
  <2>2. CASE ~ fresh
    BY <1>2, <2>2 DEF new
  <2> QED
    BY <2>1, <2>2
<1>8. TypeOK'
  <2>1. newTable'.warned \subseteq Bucket
    BY <1>6 DEF IsTable
  <2>2. \A k \in DOMAIN keyMap' : k \in Key /\ keyMap'[k] \in Key
    BY <1>1, <1>3, <1>5, <1>7 DEF TypeOK
  <2> QED
    BY <1>1, <1>2, <1>5, <1>6, <2>1, <2>2 DEF TypeOK
<1>9. FileTyped' /\ WarningsKept' /\ SwapOnly'
  BY <1>1, <1>2, FileKept DEF WarningsKept, Complete, SwapOnly
<1>10. ASSUME warned' = {} PROVE Right'
  <2>1. Right /\ newTable'.warned = {}
    BY <1>2, <1>10 DEF GenealogyInv
  <2>2. Sound(newTable) /\ Unmarked(newTable)
    BY <2>1 DEF Right, TablesSound
  <2>3. /\ Sound(newTable') /\ Unmarked(newTable')
        /\ Known(newTable', new) /\ TextOf(newTable', new) = text
        /\ \A k : Known(newTable, k) =>
              Known(newTable', k) /\ TextOf(newTable', k) = TextOf(newTable, k)
    <3>1. CASE fresh
      <4>1. /\ newTable' = Set(newTable, text, "strDefault") /\ new = SetKey(newTable, text)
            /\ Set(newTable, text, "strDefault").warned = {}
        BY <1>2, <2>1, <3>1 DEF new
      <4>2. LET U == Set(newTable, text, "strDefault")
            IN  /\ Sound(U) /\ Unmarked(U)
                /\ Known(U, SetKey(newTable, text)) /\ TextOf(U, SetKey(newTable, text)) = text
                /\ \A k : Known(newTable, k) => Known(U, k) /\ TextOf(U, k) = TextOf(newTable, k)
        BY <1>3, <2>2, <4>1, SetSound
      <4> QED
        BY <4>1, <4>2
    <3>2. CASE ~ fresh
      <4>1. newTable' = newTable /\ new = keyMap[key[n]] /\ key[n] \in DOMAIN keyMap
        BY <1>2, <3>2 DEF new
      <4>2. Known(newTable, new) /\ TextOf(newTable, new) = text
        BY <2>1, <4>1 DEF Right, KeyMapRight, text
      <4> QED
        BY <2>2, <4>1, <4>2
    <3> QED
      BY <3>1, <3>2
  <2>4. TablesSound'
    BY <1>2, <2>1, <2>3 DEF Right, TablesSound
  <2>5. Absent(alive, key, name)'
    BY <1>1, <1>2, <2>1 DEF Right, Absent, TypeOK
  <2>6. KeysRight'
    <3>1. ASSUME NEW m \in alive
          PROVE  Known(TableOf(m), key[m]) /\ TextOf(TableOf(m), key[m]) = name[m]
      BY <2>1 DEF Right, KeysRight, Shown
    <3>2. ASSUME NEW m \in alive
          PROVE  Known(TableOf(m)', key'[m]) /\ TextOf(TableOf(m)', key'[m]) = name'[m]
      <4>1. CASE m = n
        <5>1. TableOf(m)' = newTable' /\ key'[m] = new
          BY <1>1, <1>2, <4>1 DEF TableOf, TypeOK
        <5>2. text = name[m]
          BY <1>2, <3>1, <4>1 DEF text, TableOf
        <5> QED
          BY <1>2, <2>3, <5>1, <5>2
      <4>2. CASE m # n /\ m \in swapped
        <5>1. TableOf(m) = newTable /\ TableOf(m)' = newTable' /\ key'[m] = key[m]
          BY <1>1, <1>2, <4>2 DEF TableOf, TypeOK
        <5> QED
          BY <1>2, <2>3, <3>1, <5>1
      <4>3. CASE m # n /\ m \notin swapped
        <5>1. TableOf(m)' = TableOf(m) /\ key'[m] = key[m]
          BY <1>1, <1>2, <4>3 DEF TableOf, TypeOK
        <5> QED
          BY <1>2, <3>1, <5>1
      <4> QED
        BY <4>1, <4>2, <4>3
    <3> QED
      BY <1>2, <3>2 DEF KeysRight, Shown
  <2>7. KeyMapRight'
    <3>1. \A k \in DOMAIN keyMap :
             Known(newTable, keyMap[k]) /\ TextOf(newTable, keyMap[k]) = TextOf(table, k)
      BY <2>1 DEF Right, KeyMapRight
    <3>2. text = TextOf(table, key[n])
      BY DEF text
    <3> QED
      BY <1>2, <1>7, <2>3, <3>1, <3>2 DEF KeyMapRight
  <2> QED
    BY <1>1, <1>2, <2>1, <2>4, <2>5, <2>6, <2>7, FileKept DEF Right
<1> QED
  BY <1>8, <1>9, <1>10 DEF GenealogyInv, TypeInv

-----------------------------------------------------------------------------
\* Every step of the specification keeps the invariant.
LEMMA StepRight ==
    ASSUME GenealogyInv, [Next]_vars
    PROVE  GenealogyInv'
<1>1. CASE Start
  BY <1>1, FreshStep DEF Start, Phases
<1>2. CASE StartOver
  BY <1>2, FreshStep DEF StartOver, Phases
<1>3. CASE Load
  BY <1>3, LoadStep
<1>4. ASSUME NEW n \in Node, SwapNode(n) PROVE GenealogyInv'
  BY <1>4, SwapNodeStep
<1>5. ASSUME NEW n \in Node, CreateNode(n) PROVE GenealogyInv'
  BY <1>5, CreateNodeStep
<1>6. ASSUME NEW n \in Node, DestroyNode(n) PROVE GenealogyInv'
  BY <1>6, DestroyNodeStep
<1>7. ASSUME NEW n \in Node, NEW text \in Text, SetName(n, text) PROVE GenealogyInv'
  BY <1>7, SetNameStep
<1>8. CASE EndSwap
  BY <1>8, EndSwapStep
<1>9. CASE BeginSave
  BY <1>9, BeginSaveStep
<1>10. CASE EndSave
  BY <1>10, EndSaveStep
<1>11. CASE Quit
  BY <1>11, FreshStep DEF Quit, Phases
<1>12. CASE RemoveFile
  BY <1>12, RemoveFileStep
<1>13. CASE UNCHANGED vars
  <2>1. UNCHANGED <<phase, table, alive, key, newTable, swapped, keyMap, 
                    name, file, warned>>
    BY <1>13 DEF vars, memory
  <2>2. TypeInv'
    BY <2>1 DEF GenealogyInv, TypeInv, TypeOK, FileTyped, WarningsKept, SwapOnly, Complete
  <2>3. warned' = {} => Right'
    BY <2>1 DEF GenealogyInv, Right, TablesSound, Absent, KeysRight, KeyMapRight,
                FileRight, Shown, TableOf, Complete
  <2> QED
    BY <2>2, <2>3 DEF GenealogyInv
<1> QED
  BY <1>1, <1>2, <1>3, <1>4, <1>5, <1>6, <1>7, <1>8, <1>9, <1>10, <1>11, <1>12, <1>13
     DEF Next

LEMMA GenealogyInvariant == Spec => []GenealogyInv
<1>1. Init => GenealogyInv
  BY InitRight
<1>2. GenealogyInv /\ [Next]_vars => GenealogyInv'
  BY StepRight
<1> QED
  BY <1>1, <1>2, PTL DEF Spec

\* dcm.cpp, Factory.cpp, StrTable.cpp: after any number of runs, complete or not, the
\* tables, the keys of the nodes and the file are well-formed, counters that have
\* overflowed included.
THEOREM GenealogyTypeCorrect == Spec => []TypeOK
<1>1. GenealogyInv => TypeOK
  BY DEF GenealogyInv, TypeInv
<1> QED
  BY <1>1, GenealogyInvariant, PTL

\* Component::swapStringTable, setName, save and load: as long as no bucket has been
\* reported full, every node shows the text it was given, in this run or an earlier
\* one, also while the tables are being exchanged.
THEOREM GenealogyNamesKept == Spec => []NamesKept
<1>1. GenealogyInv => NamesKept
  BY DEF GenealogyInv, Right, KeysRight, NamesKept
<1> QED
  BY <1>1, GenealogyInvariant, PTL

\* Factory::save and StrTable::save with strToSave: a complete file has the strings of
\* its nodes, under their keys, and no others.
THEOREM GenealogyFileExact == Spec => []FileExact
<1>1. GenealogyInv => FileExact
  BY DEF GenealogyInv, Right, FileRight, FileExact
<1> QED
  BY <1>1, GenealogyInvariant, PTL

-----------------------------------------------------------------------------
(* Buckets into which all their strings fit. *)

StringsOf(T, b) == {T.entries[k].str : k \in DOMAIN T.entries} \cap StringsIn(b)

\* The counter of the bucket has given out a number for each string that is there,
\* and none for any other: nothing has been dropped from this table.
Filled(T, b) ==
    /\ \A k \in DOMAIN T.entries : k[1] = HashOf[T.entries[k].str]
    /\ \A k \in DOMAIN T.entries :
           BucketOf(T.entries[k].str) = b => k[2] # 0 /\ k[2] < T.count[b]
    /\ \A j, k \in DOMAIN T.entries :
           BucketOf(T.entries[j].str) = b /\ T.entries[j].str = T.entries[k].str => j = k
    /\ T.count[b] = Cardinality(StringsOf(T, b)) + 1

\* The table that was loaded is not among them: its counters may be anywhere.
CountersInv ==
    \A b \in Bucket : Fits(b) => /\ Filled(newTable, b)
                                 /\ phase # "swap" => Filled(table, b)
                                 /\ b \notin warned

\* A new table has given out nothing.
LEMMA NewTableFilled ==
    ASSUME NEW b \in Bucket
    PROVE  Filled(NewTable, b)
<1>1. DOMAIN NewTable.entries = {} /\ NewTable.count[b] = 1
  BY DEF NewTable
<1>2. StringsOf(NewTable, b) = {}
  BY <1>1 DEF StringsOf
<1> QED
  BY <1>1, <1>2, FS_EmptySet DEF Filled

\* Every string of the bucket that is there is found.
LEMMA FilledFinds ==
    ASSUME NEW T, IsTable(T), NEW b \in Bucket, Filled(T, b), NEW k \in DOMAIN T.entries,
           BucketOf(T.entries[k].str) = b
    PROVE  KeyOf(T, T.entries[k].str) # NoKey
<1> DEFINE s == T.entries[k].str
<1>1. s \in String /\ s # NoString
  BY StringAssumption DEF IsTable
<1>2. k \in Found(T, s)
  BY DEF Found, Filled
<1>3. \A j \in Found(T, s) : j = k
  BY DEF Found, Filled
<1>4. k[2] <= k[2]
  BY DEF IsTable, Key, Number
<1>5. KeyOf(T, s) = k
  BY <1>1, <1>2, <1>3, <1>4 DEF KeyOf
<1> QED
  BY <1>5 DEF Filled, NoKey

\* Each new string takes one number, and as the strings of the bucket are few none
\* of them is the last one.
LEMMA InsertFilled ==
    ASSUME NEW T, IsTable(T), NEW b \in Bucket, Fits(b), Filled(T, b),
           NEW s \in String, NEW type \in StrType, KeyOf(T, s) = NoKey
    PROVE  /\ Filled(Insert(T, s, type), b)
           /\ b \in Insert(T, s, type).warned => b \in T.warned
<1> DEFINE U == Insert(T, s, type)
           c == BucketOf(s)
           n == NextKey(T, s)
           E == [str |-> s, type |-> type]
<1>1. /\ c \in Bucket /\ T.count[b] \in Number /\ T.count[c] \in Number
      /\ n[1] = HashOf[s] /\ n[2] = T.count[c]
  BY BucketType, NextKeyType DEF IsTable
<1>2. /\ DOMAIN U.entries = DOMAIN T.entries \cup {n}
      /\ \A k \in DOMAIN T.entries : U.entries[k] = T.entries[k]
      /\ n \notin DOMAIN T.entries => U.entries[n] = E
      /\ U.count = [T.count EXCEPT ![c] = Incremented(T.count[c])]
      /\ U.warned = IF Incremented(T.count[c]) = NumberSpace - 1 THEN T.warned \cup {c}
                                                                 ELSE T.warned
  BY DEF Insert, WithEntry
<1>3. U.count[b] = IF b = c THEN Incremented(T.count[b]) ELSE T.count[b]
  BY <1>1, <1>2 DEF IsTable
<1> SUFFICES Filled(U, b) /\ (b \in U.warned => b \in T.warned)
  OBVIOUS
<1> HIDE DEF U, n
<1>4. \A k \in DOMAIN U.entries : k[1] = HashOf[U.entries[k].str]
  BY <1>1, <1>2 DEF Filled
<1>5. \A k \in DOMAIN T.entries : BucketOf(T.entries[k].str) = b => T.entries[k].str # s
  BY FilledFinds
<1>6. IsFiniteSet(StringsIn(b)) /\ Cardinality(StringsIn(b)) + 2 < NumberSpace
  BY DEF Fits
<1>7. /\ StringsOf(T, b) \subseteq StringsIn(b) /\ StringsOf(U, b) \subseteq StringsIn(b)
      /\ IsFiniteSet(StringsOf(T, b)) /\ Cardinality(StringsOf(T, b)) \in Nat
      /\ Cardinality(StringsIn(b)) \in Nat
      /\ Cardinality(StringsOf(U, b)) <= Cardinality(StringsIn(b))
      /\ Cardinality(StringsOf(U, b)) \in Nat
  <2>1. StringsOf(T, b) \subseteq StringsIn(b) /\ StringsOf(U, b) \subseteq StringsIn(b)
    BY DEF StringsOf
  <2> QED
    BY <2>1, <1>6, FS_Subset, FS_CardinalityType
<1>8. CASE b # c
  <2>1. /\ U.count[b] = T.count[b]
        /\ \A k \in DOMAIN U.entries : BucketOf(U.entries[k].str) = b =>
               k \in DOMAIN T.entries /\ U.entries[k] = T.entries[k]
    BY <1>2, <1>3, <1>8
  <2>2. StringsOf(U, b) = StringsOf(T, b)
    BY <1>2, <2>1 DEF StringsOf, StringsIn
  <2> QED
    BY <1>2, <1>4, <1>8, <2>1, <2>2 DEF Filled
<1>9. CASE b = c
  <2>1. n \notin DOMAIN T.entries
    <3> SUFFICES ASSUME n \in DOMAIN T.entries PROVE FALSE
      OBVIOUS
    <3>1. HashOf[T.entries[n].str] = HashOf[s]
      BY <1>1 DEF Filled
    <3>2. BucketOf(T.entries[n].str) = b
      BY <1>9, <3>1 DEF BucketOf
    <3>3. T.count[b] < T.count[b]
      BY <1>1, <1>9, <3>2 DEF Filled
    <3> QED
      BY <1>1, <3>3, NumberSpaceAssumption DEF Number
  <2>2. StringsOf(U, b) = StringsOf(T, b) \cup {s} /\ s \notin StringsOf(T, b)
    <3>1. s \in StringsIn(b)
      BY <1>9 DEF StringsIn
    <3>2. {U.entries[k].str : k \in DOMAIN U.entries}
              = {T.entries[k].str : k \in DOMAIN T.entries} \cup {s}
      BY <1>2, <2>1
    <3>3. s \notin StringsOf(T, b)
      BY <1>5 DEF StringsOf, StringsIn
    <3> QED
      BY <3>1, <3>2, <3>3 DEF StringsOf
  <2>3. Cardinality(StringsOf(U, b)) = Cardinality(StringsOf(T, b)) + 1
    BY <1>7, <2>2, FS_AddElement
  <2>4. T.count[b] + 1 < NumberSpace - 1 /\ T.count[b] # 0
    BY <1>6, <1>7, <2>3, NumberSpaceAssumption DEF Filled
  <2>5. Incremented(T.count[b]) = T.count[b] + 1
    BY <1>1, <2>4, NumberSpaceAssumption DEF Incremented, Number
  <2>6. U.count[b] = T.count[b] + 1 /\ U.warned = T.warned
    BY <1>1, <1>2, <1>3, <1>9, <2>4, <2>5, NumberSpaceAssumption DEF Number
  <2>7. \A k \in DOMAIN U.entries :
            BucketOf(U.entries[k].str) = b => k[2] # 0 /\ k[2] < U.count[b]
    <3> TAKE k \in DOMAIN U.entries
    <3>1. CASE k = n
      BY <1>1, <1>9, <2>4, <2>6, <3>1, NumberSpaceAssumption DEF Number
    <3>2. CASE k \in DOMAIN T.entries
      <4>1. k[2] \in Nat
        BY <3>2, NumberSpaceAssumption DEF IsTable, Key, Number
      <4> QED
        BY <1>1, <1>2, <2>6, <3>2, <4>1, NumberSpaceAssumption DEF Filled, Number
    <3> QED
      BY <1>2, <3>1, <3>2
  <2>8. \A j, k \in DOMAIN U.entries :
            BucketOf(U.entries[j].str) = b /\ U.entries[j].str = U.entries[k].str => j = k
    BY <1>2, <1>5, <2>1 DEF Filled
  <2>9. U.count[b] = Cardinality(StringsOf(U, b)) + 1
    BY <2>3, <2>6 DEF Filled
  <2> QED
    BY <1>4, <2>6, <2>7, <2>8, <2>9 DEF Filled
<1> QED
  BY <1>8, <1>9

\* set() inserts a string that is not there.
LEMMA SetFilled ==
    ASSUME NEW T, IsTable(T), NEW b \in Bucket, Fits(b), Filled(T, b), NEW s \in Text
    PROVE  /\ Filled(Set(T, s, "strDefault"), b)
           /\ b \in Set(T, s, "strDefault").warned => b \in T.warned
<1>1. CASE s = NoString \/ KeyOf(T, s) # NoKey
  BY <1>1 DEF Set
<1>2. CASE s # NoString /\ KeyOf(T, s) = NoKey
  BY <1>2, InsertFilled DEF Set, Text, StrType
<1> QED
  BY <1>1, <1>2

\* In a new process nothing has been counted.
LEMMA FreshCounters ==
    ASSUME CountersInv, Fresh, UNCHANGED warned
    PROVE  CountersInv'
BY NewTableFilled DEF CountersInv, Fresh

\* The counters are right from step to step: what is loaded is not added to.
LEMMA StepCounters ==
    ASSUME TypeInv, CountersInv, [Next]_vars
    PROVE  CountersInv'
<1>1. IsTable(table) /\ IsTable(newTable) /\ table.warned \subseteq warned
      /\ newTable.warned \subseteq warned
  BY DEF TypeInv, TypeOK, WarningsKept
<1>2. CASE Start \/ StartOver \/ EndSave \/ Quit
  BY <1>2, FreshCounters DEF Start, StartOver, EndSave, Quit
<1>3. CASE Load
  BY <1>3, NewTableFilled DEF Load, CountersInv
<1>4. ASSUME NEW n \in Node, SwapNode(n) PROVE CountersInv'
  <2>1. /\ phase = "swap" /\ phase' = phase /\ warned' = warned \cup newTable'.warned
        /\ newTable' \in {newTable, Set(newTable, TextOf(table, key[n]), "strDefault")}
    BY <1>4 DEF SwapNode
  <2>2. TextOf(table, key[n]) \in Text
    BY <1>1, TextType
  <2> SUFFICES ASSUME NEW b \in Bucket, Fits(b) PROVE Filled(newTable', b) /\ b \notin warned'
    BY <2>1 DEF CountersInv
  <2>3. Filled(newTable, b) /\ b \notin warned /\ b \notin newTable.warned
    BY <1>1 DEF CountersInv
  <2> QED
    BY <1>1, <2>1, <2>2, <2>3, SetFilled
<1>5. ASSUME NEW n \in Node, CreateNode(n) \/ DestroyNode(n) PROVE CountersInv'
  BY <1>5 DEF CreateNode, DestroyNode, CountersInv
<1>6. ASSUME NEW n \in Node, NEW text \in Text, SetName(n, text) PROVE CountersInv'
  <2>1. /\ phase = "work" /\ phase' = phase /\ newTable' = newTable
        /\ table' = Set(table, text, "strDefault") /\ warned' = warned \cup table'.warned
    BY <1>6 DEF SetName
  <2> SUFFICES ASSUME NEW b \in Bucket, Fits(b)
               PROVE  Filled(newTable', b) /\ Filled(table', b) /\ b \notin warned'
    BY DEF CountersInv
  <2>2. Filled(newTable, b) /\ Filled(table, b) /\ b \notin warned /\ b \notin table.warned
    BY <1>1, <2>1 DEF CountersInv
  <2> QED
    BY <1>1, <2>1, <2>2, SetFilled
<1>7. CASE EndSwap
  BY <1>7, NewTableFilled DEF EndSwap, CountersInv
<1>8. CASE BeginSave
  BY <1>8 DEF BeginSave, memory, CountersInv
<1>9. CASE RemoveFile
  BY <1>9 DEF RemoveFile, memory, CountersInv
<1>10. CASE UNCHANGED vars
  BY <1>10 DEF vars, memory, CountersInv
<1> QED
  BY <1>2, <1>3, <1>4, <1>5, <1>6, <1>7, <1>8, <1>9, <1>10 DEF Next

\* dcm.cpp, initGenealogy: with the table replaced in every run a bucket into which
\* all its strings fit is never reported full, whatever happens in the other buckets.
THEOREM GenealogyNeverFull == Spec => []NeverFull
<1>1. Init => CountersInv
  BY NewTableFilled DEF Init, CountersInv
<1>2. GenealogyInv /\ CountersInv /\ [Next]_vars => CountersInv'
  BY StepCounters DEF GenealogyInv
<1>3. CountersInv => NeverFull
  BY DEF CountersInv, NeverFull
<1> QED
  BY <1>1, <1>2, <1>3, GenealogyInvariant, PTL DEF Spec

=============================================================================
