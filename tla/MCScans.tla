------------------------------ MODULE MCScans ------------------------------
(* Constants for the run of Scans.                                         *)
EXTENDS Scans, TLC

CONSTANTS o1, n1, n2, n3

Default == o1 :> "default"
Values == [pvc_usage |-> 0..2, node_disk |-> 0..2, tls_cert_expiry |-> {1, 5, 9}, cronjob_missed |-> {0}]
=============================================================================
