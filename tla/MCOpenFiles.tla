---------------------------- MODULE MCOpenFiles -----------------------------
(* Model checking of OpenFiles: connections, names, objects and handles are *)
(* interchangeable, and CREATE comes in the forms that differ in effect.    *)
EXTENDS OpenFiles, TLC

Form(d, opts) == [disp |-> d, dir |-> "dir" \in opts, write |-> "write" \in opts,
                  stream |-> "stream" \in opts, flag |-> "delete" \in opts]

MCForms == {Form("create", {"write"}), Form("create", {"dir"}),
            Form("open_if", {"write"}), Form("open_if", {"dir", "delete"}),
            Form("open", {}), Form("open", {"write", "delete"}),
            Form("overwrite", {"write"}), Form("overwrite_if", {}),
            Form("open", {"stream"}), Form("create", {"stream"}),
            Form("overwrite_if", {"stream", "delete"})}

Symmetry == Permutations(Conns) \cup Permutations(Names)
              \cup Permutations(Objects) \cup Permutations(Handles)
=============================================================================
