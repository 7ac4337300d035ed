------------------------------ MODULE MCOptPipeline ----------------------------
(***************************************************************************)
(* Modules for OptPipeline: a main and another function, in either order,  *)
(* each declared, with one block or with two, main with and without        *)
(* parameters, calling the other function or itself; the modules without a *)
(* main; and modules that hold a symbol the passes use.                    *)
(***************************************************************************)
EXTENDS OptPipeline

Module(funcs) == [funcs |-> funcs, gvars |-> <<>>, ctors |-> <<>>]

Bodies(callee, type) ==
  { <<>>,
    << <<Instr("call", callee), Ret(type)>> >>,
    << <<Br({2})>>, <<Instr("work", ""), Instr("call", callee), Ret(type)>> >> }

Mains(sigs) ==
  {Func("main", sig, body) :
     sig \in sigs, body \in Bodies("f", "int") \cup Bodies("main", "int")}

VoidMains == {Func("main", "void()", body) : body \in Bodies("f", "void")}

Fs == {Func("f", "void()", body) : body \in Bodies("f", "void")}

MainAndF(mains) ==
  UNION {{Module(<<m, f>>), Module(<<f, m>>)} : m \in mains, f \in Fs}

(* A program that has `symbol`, as a function or as a variable.            *)
Small(main) == <<Func("main", "int()", main),
                 Func("f", "void()", << <<Ret("void")>> >>)>>
Plain == << <<Ret("int")>> >>
HasFunction(func) ==
  {Module(Small(Plain) \o <<func>>), Module(<<func>> \o Small(Plain))}
HasVariable(var) ==
  {[Module(Small(Plain)) EXCEPT !.gvars = [g \in {"bbCounter"} |-> var]]}

Variable(type, local) == [type |-> type, local |-> local, init |-> 5]

Taken ==
  UNION { HasFunction(Func("setupAtExit", "void()", <<>>)),
          HasFunction(Func("setupAtExit", "int()", <<>>)),
          HasFunction(Func("bbCounter", "void()", <<>>)),
          HasFunction(Func("atexit", "int(void())", <<>>)),
          HasFunction(Func("printf", "int(char*,...)", <<>>)),
          HasFunction(Func("printf", "int()", <<>>)),
          HasVariable(Variable("i32", FALSE)),
          HasVariable(Variable("i64", TRUE)) }

MCModules ==
  MainAndF(Mains({"int()", "int(int,char**)", "int(int)", "int(int,int*)"})
           \cup VoidMains)
  \cup Taken
  \cup {Module(<<f>>) : f \in Fs}

MCPipelines ==
  { <<"count-bb">>, <<"posix-main">>, <<"count-bb", "count-bb">>,
    <<"posix-main", "count-bb">>, <<"count-bb", "posix-main">> }

(* A program with a counter of its own by the name of the pass's.          *)
OwnCounter == HasVariable(Variable("i64", FALSE))

OnlyCount == {<<"count-bb">>}

================================================================================
