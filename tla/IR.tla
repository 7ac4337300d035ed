----------------------------------- MODULE IR ----------------------------------
(***************************************************************************)
(* The part of an LLVM module that the module passes under lib/snippets    *)
(* look at or change: its functions in list order, their blocks in list    *)
(* order, the instructions that matter to them, and the global variables.  *)
(* Functions and variables share one symbol table.  The module is the      *)
(* library's (llvm::Module), seen through the calls the passes make.       *)
(***************************************************************************)
EXTENDS Naturals, Sequences

(* op: work, call, spawn, join, atexit, exit, load, add, store, printf,    *)
(* and the terminators br, ret.  sym: the function or variable used; to:   *)
(* the positions of the successors of br.  The sym of ret is the type of   *)
(* what it returns.                                                        *)
Instr(op, sym) == [op |-> op, sym |-> sym, to |-> {}]
Br(to)         == [op |-> "br", sym |-> "", to |-> to]
Ret(type)      == Instr("ret", type)

ReturnType(sig) == IF sig = "void()" THEN "void" ELSE "int"

Func(name, sig, blocks) == [name |-> name, sig |-> sig, blocks |-> blocks]

(* The shapes of all this, when the names, types and operations are of the *)
(* set `names`.                                                            *)
Instructions(names) == [op : names, sym : names, to : SUBSET Nat]

FunctionDefs(names) ==
  [name : names, sig : names, blocks : Seq(Seq(Instructions(names)))]

IsModule(M, names) ==
  M \in [funcs : Seq(FunctionDefs(names)), gvars : {M.gvars}, ctors : {M.ctors}]

FunctionNames(M) == {M.funcs[k].name : k \in DOMAIN M.funcs}
Symbols(M)       == FunctionNames(M) \cup DOMAIN M.gvars

(* Module::getFunction, for a name that is one of the functions'.          *)
Position(M, name) == CHOOSE k \in DOMAIN M.funcs : M.funcs[k].name = name
Named(M, name)    == M.funcs[Position(M, name)]

(* Module::getOrInsertFunction yields a Function unless the symbol is      *)
(* taken by a variable or by a function of another type.                   *)
MayGetOrInsert(M, name, sig) ==
  \/ name \notin Symbols(M)
  \/ name \in FunctionNames(M) /\ Named(M, name).sig = sig

GetOrInsert(M, name, sig) ==
  IF name \in Symbols(M) THEN M
  ELSE [M EXCEPT !.funcs = Append(@, Func(name, sig, <<>>))]

(* Instructions `code` are inserted before position pos of a block.        *)
InsertBefore(block, pos, code) ==
  SubSeq(block, 1, pos - 1) \o code \o SubSeq(block, pos, Len(block))

(* What the verifier of LLVM demands: blocks end in their only terminator, *)
(* functions return their type, calls name functions of the module, and no *)
(* branch goes to an entry block.                                          *)
IsTerminator(instr) == instr.op \in {"br", "ret"}

InstrsOf(func) ==
  UNION {{func.blocks[m][n] : n \in DOMAIN func.blocks[m]} :
           m \in DOMAIN func.blocks}

Instrs(M) == UNION {InstrsOf(M.funcs[k]) : k \in DOMAIN M.funcs}

Calls(M) == {ins \in Instrs(M) : ins.op \in {"call", "spawn", "atexit"}}

Verifies(M) ==
  /\ \A k, m \in DOMAIN M.funcs : M.funcs[k].name = M.funcs[m].name => k = m
  /\ FunctionNames(M) \cap DOMAIN M.gvars = {}
  /\ \A ins \in Calls(M) : ins.sym \in FunctionNames(M)
  /\ \A k \in DOMAIN M.funcs : LET blocks == M.funcs[k].blocks IN
       \A m \in DOMAIN blocks :
         /\ blocks[m] # <<>>
         /\ \A n \in DOMAIN blocks[m] :
              IsTerminator(blocks[m][n]) <=> n = Len(blocks[m])
         /\ LET last == blocks[m][Len(blocks[m])] IN
              /\ last.to \subseteq 2..Len(blocks)
              /\ last.op = "ret" => last.sym = ReturnType(M.funcs[k].sig)

================================================================================
