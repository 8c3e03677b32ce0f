----------------------------- MODULE MCAuditLog -----------------------------
(* Instances of AuditLog for TLC. *)
EXTENDS AuditLog, TLC, SequencesExt

CONSTANTS e1, e2, e3, e4, r1

(* Keep is what Python's list comprehension returns. *)
ASSUME KeepIsSelectSeq ==
    \A s \in BoundedSeq(1..3, 4), values \in SUBSET (1..3) :
        Keep(s, {i \in DOMAIN s : s[i] \in values})
            = SelectSeq(s, LAMBDA x : x \in values)

Symmetry == Permutations(Entries)
=============================================================================
