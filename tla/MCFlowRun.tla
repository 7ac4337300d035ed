-------------------------------- MODULE MCFlowRun ------------------------------
(***************************************************************************)
(* Settings for FlowRun: one run at a time over two files; two runs that   *)
(* may overlap over one file; another directory with a .dot file, or an    *)
(* old drawing, of the same name; and a machine without dot.               *)
(***************************************************************************)
EXTENDS FlowRun

CONSTANTS f1, f2, r1, r2

OneFile == [names |-> {f1}, sources |-> {<<Home, f1>>}, drawings |-> {},
            runners |-> {r1}, installed |-> TRUE]

MCSettings ==
  { [OneFile EXCEPT !.names = {f1, f2}, !.sources = {Home} \X {f1, f2}],
    [OneFile EXCEPT !.runners = {r1, r2}],
    [OneFile EXCEPT !.sources = Directories \X {f1}],
    [OneFile EXCEPT !.drawings = {<<"away", f1>>}],
    [OneFile EXCEPT !.drawings = Directories \X {f1}, !.installed = FALSE] }

================================================================================
