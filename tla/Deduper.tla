------------------------------ MODULE Deduper ------------------------------
(***************************************************************************)
(* internal/engine/dedupe.go: the table of the last admitted alert of each *)
(* key.  The table is a total function; Never stands for a missing key.    *)
(***************************************************************************)
EXTENDS Integers

CONSTANT Window    \* dedupe.window, in units of the model's clock

ASSUME WindowAssumption == Window \in Nat

Never == -1
Times == Nat \cup {Never}

\* NewDeduper, and what Deduper.Reset leaves.
Forgotten(keys) == [k \in keys |-> Never]

\* Mutant: one unit too early.
AllowedEarly(table, k, t) == table[k] = Never \/ t - table[k] + 1 >= Window

\* The condition of Deduper.Allow.
Allowed(table, k, t) == table[k] = Never \/ t - table[k] >= Window

\* Mutant: the admission is not written down.
AdmittedUnsaved(table, k, t) == table

\* The table after Deduper.Allow admitted k at time t.
Admitted(table, k, t) == [table EXCEPT ![k] = t]

\* Mutant: the loaded entries are not taken over.
RestoredNot(table, loaded) == table

\* Deduper.Restore: the loaded entries overwrite the ones in memory.
Restored(table, loaded) ==
    [k \in DOMAIN table |-> IF loaded[k] = Never THEN table[k] ELSE loaded[k]]
=============================================================================
