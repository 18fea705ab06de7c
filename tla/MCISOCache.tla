----------------------------- MODULE MCISOCache -----------------------------
(* Instances of the ISO cache for TLC: machines of one dataset that boot    *)
(* the same image, beside the ISO of an image that no machine boots.        *)
EXTENDS ISOCache, TLC

OneHome == [m \in Machine |-> Pool]
SameImage == [m \in Machine |-> CHOOSE i \in Image : TRUE]
OtherImages == {Pool} \X (Image \ {CHOOSE i \in Image : TRUE})
Booted == {SlotOf(m) : m \in Machine}

(* The machines are interchangeable.                                        *)
Symmetry == Permutations(Machine)

(* One time for the file, one for its record, one per machine, a new one.   *)
Times == 1 .. Cardinality(Machine) + 3
=============================================================================
