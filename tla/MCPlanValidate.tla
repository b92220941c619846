--------------------------- MODULE MCPlanValidate ---------------------------
(***************************************************************************)
(* Two entries d and e of the root, each with room for one entry x.        *)
(***************************************************************************)
EXTENDS PlanValidate

MCPaths == {<<>>, <<"d">>, <<"e">>, <<"d", "x">>, <<"e", "x">>}

Layout(d, dx, e, ex) ==
    [p \in MCPaths |-> CASE p = <<>> -> "directory"
                         [] p = <<"d">> -> d
                         [] p = <<"d", "x">> -> dx
                         [] p = <<"e">> -> e
                         [] p = <<"e", "x">> -> ex]

MCDisks == {Layout("directory", "file", "none", "none"),
            Layout("directory", "file", "file", "none"),
            Layout("directory", "archive", "directory", "none"),
            Layout("directory", "file", "directory", "file")}
=============================================================================
