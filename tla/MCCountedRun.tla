------------------------------- MODULE MCCountedRun ----------------------------
(***************************************************************************)
(* Programs for CountedRun.                                                *)
(***************************************************************************)
EXTENDS CountedRun

Program(funcs) == [funcs |-> funcs, gvars |-> <<>>, ctors |-> <<>>]

I(op, sym) == Instr(op, sym)
Main(blocks) == Func("main", "int()", blocks)
Leaf == Func("f", "void()", << <<Br({2, 3})>>, <<Ret("void")>>, <<Ret("void")>> >>)

(* A loop whose body calls f.                                              *)
Loop == Program(<<
  Main(<< <<I("work", ""), Br({2})>>,
          <<I("call", "f"), Br({2, 3})>>,
          <<Ret("int")>> >>),
  Leaf >>)

(* A main that calls itself: it registers the handler each time.           *)
Recursive == Program(<<
  Main(<< <<Br({2, 3})>>, <<I("call", "main"), Br({3})>>, <<Ret("int")>> >>) >>)

(* A handler of the program's own, registered by main.                     *)
OwnHandler == Program(<<
  Main(<< <<I("atexit", "f"), Br({2, 3})>>,
          <<I("atexit", "f"), Br({3})>>,
          <<Ret("int")>> >>),
  Leaf, Func("atexit", "int(void())", <<>>) >>)

(* A constructor, which runs before main.                                  *)
Constructor == [Program(<<Leaf, Main(<< <<I("call", "f"), Ret("int")>> >>) >>)
                  EXCEPT !.ctors = <<"f", "f">>]

(* A program that leaves main, or a function it calls, by exit.            *)
Exiting == Program(<<
  Main(<< <<Br({2, 3})>>, <<I("call", "quit"), Ret("int")>>, <<Ret("int")>> >>),
  Func("quit", "void()", << <<I("exit", ""), Ret("void")>> >>) >>)

(* A constructor registers a handler, which runs after the report.         *)
EarlyHandler == [Program(<<
  Main(<< <<Ret("int")>> >>),
  Func("early", "void()", << <<I("atexit", "f"), Ret("void")>> >>),
  Leaf, Func("atexit", "int(void())", <<>>) >>)
    EXCEPT !.ctors = <<"early">>]

(* posix-main leaves this one with a ret of the wrong type.                *)
VoidMain == Program(<<Func("main", "void()", << <<Ret("void")>> >>)>>)

(* Threads that run while main does; main waits for them, or does not.     *)
Worker == Func("worker", "void()", << <<Br({2})>>, <<Ret("void")>> >>)
Joined == Program(<<
  Main(<< <<I("spawn", "worker"), Br({2})>>, <<I("join", ""), Ret("int")>> >>),
  Worker >>)
Detached == Program(<<
  Main(<< <<I("spawn", "worker"), Br({2})>>, <<Ret("int")>> >>),
  Worker >>)

MCSequential ==
  {Loop, Recursive, OwnHandler, Constructor, Exiting, EarlyHandler, VoidMain}
MCThreaded == {Joined, Detached}
MCPrograms == MCSequential \cup MCThreaded
MCJoined == {Joined}
MCLoop == {Loop}
MCExiting == {Exiting}

AllPipelines ==
  { <<"count-bb">>, <<"count-bb", "count-bb">>,
    <<"posix-main", "count-bb">>, <<"count-bb", "posix-main">> }
OnlyCount == {<<"count-bb">>}

================================================================================
