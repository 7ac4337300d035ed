-------------------------------- MODULE POSIXMain ------------------------------
(***************************************************************************)
(* The posix-main pass (lib/snippets/POSIXMain.cc): a main without         *)
(* parameters becomes a main of argc and argv with the same body.  The     *)
(* pass is one call of POSIXizeMain: each way through it is one action.    *)
(***************************************************************************)
EXTENDS IR

CONSTANTS
  Modules,   \* the modules the pass may be given
  Asserts    \* whether the pass is built with assertions

VARIABLES
  ir,   \* the module
  pc    \* posix: about to run; done; failed: the tool has died

vars == <<ir, pc>>

NoParameters  == {"int()", "void()"}
PosixParameters == {"int(int,char**)"}
OtherTwoParameters == {"int(int,int*)"}

Init == ir \in Modules /\ pc = "posix"

HasMain == "main" \in FunctionNames(ir)
Main == Named(ir, "main")

(* No main, or one with two parameters, whose types only a build with      *)
(* assertions looks at.                                                    *)
NothingToDo ==
  /\ pc = "posix"
  /\ HasMain => Main.sig \in PosixParameters \cup OtherTwoParameters
  /\ pc' = IF HasMain /\ Main.sig \in OtherTwoParameters /\ Asserts
           THEN "failed" ELSE "done"
  /\ UNCHANGED ir

(* old_main is renamed, emptied into the new main, and erased; the new     *)
(* main is the last function of the module.                                *)
Posixized(M) ==
  LET k == Position(M, "main")
      newMain == Func("main", "int(int,char**)", M.funcs[k].blocks)
  IN  [M EXCEPT !.funcs =
         SubSeq(@, 1, k - 1) \o SubSeq(@, k + 1, Len(@)) \o <<newMain>>]

(* Erasing a function that a call still refers to: ~Value asserts.         *)
MainIsUsed == \E ins \in Calls(ir) : ins.sym = "main"

Posixize ==
  /\ pc = "posix"
  /\ HasMain
  /\ Main.sig \in NoParameters
  /\ ~ MainIsUsed
  /\ ir' = Posixized(ir)
  /\ pc' = "done"

(* The body of old_main may refer to what is erased with it: to old_main   *)
(* itself, or, in a build without assertions, to parameters it had.  A     *)
(* build without assertions may also get away with it.                     *)
ErasesUsed ==
  /\ pc = "posix"
  /\ HasMain
  /\ Main.sig \notin PosixParameters \cup OtherTwoParameters
  /\ MainIsUsed \/ Main.sig \notin NoParameters
  /\ \/ pc' = "failed" /\ UNCHANGED ir
     \/ /\ ~ Asserts /\ ~ MainIsUsed
        /\ ir' = Posixized(ir)
        /\ pc' = "done"

Next == NothingToDo \/ Posixize \/ ErasesUsed

Spec == Init /\ [][Next]_vars

================================================================================
