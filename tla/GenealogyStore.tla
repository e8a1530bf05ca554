--------------------------- MODULE GenealogyStore ---------------------------
(***************************************************************************)
(* The genealogy of clones as the clone detector keeps it from run to run:  *)
(* DuplicatedCodeMiner::initGenealogy and saveGenealogy (dcm.cpp), the      *)
(* nodes of lib/genealogy with a string attribute (Component::setName and   *)
(* its kin), and the table that holds the strings.                          *)
(*                                                                         *)
(* A run loads the file of the previous one, replaces the string table by   *)
(* a new one, works on the nodes, and writes the file again.  It may end at *)
(* any point: detection may fail, the process may be killed.  Nodes stand   *)
(* for their string attributes, one each.                                   *)
(***************************************************************************)
EXTENDS StringTable, FiniteSets

CONSTANT Node

NoFile == [state |-> "none"]

VARIABLES
    phase,      \* where the run is
    table,      \* strTable
    alive,      \* the nodes in the factory's container
    key,        \* the key in each node's attribute
    newTable,   \* newStrTable of initGenealogy
    swapped,    \* the nodes that swapStringTable has visited
    keyMap,     \* oldAndNewStrKeyMap
    file,       \* the genealogy file
    name,       \* history: the text that each node was given
    warned      \* history: buckets that have ever been reported full

memory == <<table, alive, key, newTable, swapped, keyMap, name>>
vars == <<phase, memory, file, warned>>

\* off    between two runs
\* swap   in Factory::swapStringTable
\* work   from createSystem to the end of dcminer
\* save   in Factory::save: the file is open for writing
Phases == {"off", "swap", "work", "save"}

EmptyMap == [k \in {} |-> NoKey]

Extend(f, k, v) == [j \in DOMAIN f \cup {k} |-> IF j = k THEN v ELSE f[j]]

\* What a process starts with: a new table and a new factory.
Fresh == /\ table' = NewTable
         /\ alive' = {}
         /\ key' = [n \in Node |-> NoKey]
         /\ newTable' = NewTable
         /\ swapped' = {}
         /\ keyMap' = EmptyMap
         /\ name' = [n \in Node |-> NoString]

TableOf(n) == IF phase = "swap" /\ n \in swapped THEN newTable ELSE table

Shown(n) == TextOf(TableOf(n), key[n])

-----------------------------------------------------------------------------
\* The file is absent, or of an older version of the program.
Init == /\ phase = "off"
        /\ table = NewTable
        /\ alive = {}
        /\ key = [n \in Node |-> NoKey]
        /\ newTable = NewTable
        /\ swapped = {}
        /\ keyMap = EmptyMap
        /\ file \in {NoFile, [state |-> "foreign"]}
        /\ name = [n \in Node |-> NoString]
        /\ warned = {}

\* initGenealogy without a file.
Start == /\ phase = "off"
         /\ file.state = "none"
         /\ phase' = "work"
         /\ Fresh
         /\ UNCHANGED <<file, warned>>

\* initGenealogy when Factory::load throws a GenealogyException: wrong version.
\* A file that was cut off makes it throw an IOException instead, which ends
\* the program: nothing changes.
StartOver == /\ phase = "off"
             /\ file.state = "foreign"
             /\ phase' = "work"
             /\ Fresh
             /\ UNCHANGED <<file, warned>>

\* Slip: the table of the file is kept.
LoadOnly == /\ phase = "off"
            /\ file.state = "complete"
            /\ phase' = "work"
            /\ table' = Loaded(file.table)
            /\ alive' = file.alive
            /\ key' = file.key
            /\ newTable' = NewTable
            /\ swapped' = {}
            /\ keyMap' = EmptyMap
            /\ name' = file.name
            /\ UNCHANGED <<file, warned>>

\* Factory::load: the nodes with their keys, then the table.
Load == /\ phase = "off"
        /\ file.state = "complete"
        /\ phase' = "swap"
        /\ table' = Loaded(file.table)
        /\ alive' = file.alive
        /\ key' = file.key
        /\ newTable' = NewTable
        /\ swapped' = {}
        /\ keyMap' = EmptyMap
        /\ name' = file.name
        /\ UNCHANGED <<file, warned>>

\* Slip: the text is looked up in the new table.
SwapNodeByNewTable(n) ==
    /\ phase = "swap"
    /\ n \in alive \ swapped
    /\ LET text == TextOf(newTable, key[n])
           fresh == key[n] \notin DOMAIN keyMap
           new == IF fresh THEN SetKey(newTable, text) ELSE keyMap[key[n]]
       IN  /\ key' = [key EXCEPT ![n] = new]
           /\ newTable' = IF fresh THEN Set(newTable, text, "strDefault") ELSE newTable
           /\ keyMap' = IF fresh THEN Extend(keyMap, key[n], new) ELSE keyMap
    /\ swapped' = swapped \cup {n}
    /\ warned' = warned \cup newTable'.warned
    /\ UNCHANGED <<phase, table, alive, file, name>>

\* swapStringTable of one node.  The order of the nodes is left open.
SwapNode(n) ==
    /\ phase = "swap"
    /\ n \in alive \ swapped
    /\ LET text == TextOf(table, key[n])
           fresh == key[n] \notin DOMAIN keyMap
           new == IF fresh THEN SetKey(newTable, text) ELSE keyMap[key[n]]
       IN  /\ key' = [key EXCEPT ![n] = new]
           /\ newTable' = IF fresh THEN Set(newTable, text, "strDefault") ELSE newTable
           /\ keyMap' = IF fresh THEN Extend(keyMap, key[n], new) ELSE keyMap
    /\ swapped' = swapped \cup {n}
    /\ warned' = warned \cup newTable'.warned
    /\ UNCHANGED <<phase, table, alive, file, name>>

\* delete strTable; strTable = newStrTable.
EndSwap == /\ phase = "swap"
           /\ swapped = alive
           /\ phase' = "work"
           /\ table' = newTable
           /\ newTable' = NewTable
           /\ swapped' = {}
           /\ keyMap' = EmptyMap
           /\ UNCHANGED <<alive, key, file, name, warned>>

CreateNode(n) == /\ phase = "work"
                 /\ n \notin alive
                 /\ alive' = alive \cup {n}
                 /\ UNCHANGED <<phase, table, key, newTable, swapped, keyMap,
                                file, name, warned>>

\* The attribute of the node is set to a text: m_name = table.set(text).
SetName(n, text) == /\ phase = "work"
                    /\ n \in alive
                    /\ key' = [key EXCEPT ![n] = SetKey(table, text)]
                    /\ table' = Set(table, text, "strDefault")
                    /\ name' = [name EXCEPT ![n] = text]
                    /\ warned' = warned \cup table'.warned
                    /\ UNCHANGED <<phase, alive, newTable, swapped, keyMap,
                                   file>>

\* Factory::destroyNode, also of the last system with -smallGenealogy.
DestroyNode(n) == /\ phase = "work"
                  /\ n \in alive
                  /\ alive' = alive \ {n}
                  /\ key' = [key EXCEPT ![n] = NoKey]
                  /\ name' = [name EXCEPT ![n] = NoString]
                  /\ UNCHANGED <<phase, table, newTable, swapped, keyMap,
                                 file, warned>>

\* saveGenealogy: Factory::save opens the file, which empties it.
BeginSave == /\ phase = "work"
             /\ phase' = "save"
             /\ file' = [state |-> "partial"]
             /\ UNCHANGED <<memory, warned>>

\* Slip: the attribute is written but its string not marked.
MarkedNothing == SetTypes(table, {}, "strToSave")

\* Base::save and its kin mark what they write; the table then drops the rest.
Marked == SetTypes(table, {key[n] : n \in alive}, "strToSave")

EndSave == /\ phase = "save"
           /\ phase' = "off"
           /\ file' = [state |-> "complete", alive |-> alive, key |-> key,
                       table |-> Saved(Marked, "strToSave"), name |-> name]
           /\ Fresh
           /\ UNCHANGED warned

\* The run ends early, by itself or not.
Quit == /\ phase # "off"
        /\ phase' = "off"
        /\ Fresh
        /\ UNCHANGED <<file, warned>>

\* CleanResultsTask with -cleanResults:0.
RemoveFile == /\ phase = "off"
              /\ file.state # "none"
              /\ file' = NoFile
              /\ UNCHANGED <<phase, memory, warned>>

Next == \/ Start
        \/ StartOver
        \/ Load
        \/ \E n \in Node : \/ SwapNode(n)
                           \/ CreateNode(n)
                           \/ DestroyNode(n)
                           \/ \E text \in Text : SetName(n, text)
        \/ EndSwap
        \/ BeginSave
        \/ EndSave
        \/ Quit
        \/ RemoveFile

Spec == Init /\ [][Next]_vars

-----------------------------------------------------------------------------
Complete == file.state = "complete"

\* Type invariant.
TypeOK == /\ phase \in Phases
          /\ IsTable(table)
          /\ IsTable(newTable)
          /\ alive \subseteq Node
          /\ key \in [Node -> Key]
          /\ swapped \subseteq alive
          /\ \A k \in DOMAIN keyMap : k \in Key /\ keyMap[k] \in Key
          /\ file.state \in {"none", "foreign", "partial", "complete"}
          /\ name \in [Node -> Text]
          /\ warned \subseteq Bucket

\* Every node shows the text it was given, in this run or in an earlier one: over
\* saving, filtering, loading and replacing the table, also half-way through.
NamesKept == warned = {} => \A n \in alive : Shown(n) = name[n]

\* A complete file has the strings of its nodes, under the keys that the nodes have,
\* and no others ("In save mode only nodes with save flag will be written out"): the
\* flags of earlier runs do not linger.
FileExact ==
    Complete /\ warned = {} =>
        /\ \A n \in file.alive : TextOf(Loaded(file.table), file.key[n]) = file.name[n]
        /\ \A k \in DOMAIN file.table.entries :
               \E n \in file.alive : file.name[n] = file.table.entries[k]

StringsIn(b) == {s \in String : BucketOf(s) = b}

Fits(b) == IsFiniteSet(StringsIn(b)) /\ Cardinality(StringsIn(b)) + 2 < NumberSpace

\* dcm.cpp: "We should replace the string table to reset the internal bucket
\* counters".  A bucket is never reported full when all the strings that hash to
\* it fit into it, however many runs have deleted and inserted them.
NeverFull == \A b \in Bucket : Fits(b) => b \notin warned

=============================================================================
