---------------------------- MODULE MCSingleton ----------------------------
(* Instances of the singleton lease for TLC.                                *)
EXTENDS Singleton, TLC

(* The processes are interchangeable (safety runs only).                    *)
Symmetry == Permutations(Instance)

==============================================================================
