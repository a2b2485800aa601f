----------------------------- MODULE Namespaces -----------------------------
(* internal/config/config.go: the filter that most monitors apply first.   *)

CONSTANTS Include, Exclude      \* config.Namespaces

AnyNamespace == "*"

\* NamespaceFilter.Allows: exclusion wins, and no include list means all.
Allows(ns) ==
    /\ ns \notin Exclude
    /\ Include = {} \/ AnyNamespace \in Include \/ ns \in Include
=============================================================================
