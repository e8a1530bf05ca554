-------------------------- MODULE MCGenealogyStore --------------------------
(* Four strings in two buckets: one fits, with room for numbers 1 to 3. *)
EXTENDS GenealogyStore

HashValues == [s \in String |-> CASE s = "a" -> 1
                                  [] s \in {"b", "c"} -> 0
                                  [] OTHER -> 2]

=============================================================================
