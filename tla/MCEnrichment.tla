---------------------------- MODULE MCEnrichment ----------------------------
(***************************************************************************)
(* Small instances of Enrichment for TLC.                                  *)
(***************************************************************************)
EXTENDS EnrichmentProperties, TLC

\* Drivers are named only to tell their files apart.
Interchangeable == Permutations(Driver)
=============================================================================
