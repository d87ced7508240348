------------------------------ MODULE MCFileService ------------------------------
(* A file of either of two companies, three concurrent requests, the three tiers *)
(* and one that the policy does not know.                                        *)
EXTENDS FileService, TLC

MCTarget == {"standard", "standard_ia", "glacier", "archive"}

FileSymmetry == Permutations(File) \cup Permutations(Handler) \cup Permutations(Company)
===============================================================================
