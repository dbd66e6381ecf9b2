---------------------------- MODULE MCManifestLink ----------------------------
(* Small instances of ManifestLink for TLC. *)
EXTENDS ManifestLink, SequencesExt

OneChild == {1}

\* The manifest of a parent that reads the messages q one by one, as
\* handle_manifestSet does.
Read(m, q) ==
    FoldLeft(LAMBDA n, x : CASE x.op = "add" -> n \cup x.subs
                             [] x.op = "minus" -> n \ x.subs
                             [] OTHER -> n,
             m, q)

\* Outcome speaks of the last message about a sub-stream; it is the same.
ASSUME LastWordAssumption ==
    \A q \in BoundedSeq({Con} \cup {Add(m) : m \in SUBSET {0, 1}} \cup {Minus(0), Minus(1)}, 4) :
        \A m \in SUBSET {0, 1}, s \in {0, 1} :
            s \in Read(m, q) <=> LastSays(q, s, "add") \/ (Silent(q, s) /\ s \in m)
=============================================================================
