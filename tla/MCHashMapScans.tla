--------------------------- MODULE MCHashMapScans ---------------------------
(* The goroutines and calls of MCConcurrentHashMap, watched.               *)
EXTENDS MCConcurrentHashMap, HashMapScans
=============================================================================
