-------------------------------- MODULE MCLLUtils ------------------------------
(***************************************************************************)
(* Values and instructions of every class and type the verifier of LLVM    *)
(* allows, up to three stars; type tables of five types, one of them a     *)
(* pointer to any of the five, two aggregates with up to two members.      *)
(***************************************************************************)
EXTENDS LLUtils, SequencesExt

Type(base, stars) == [base |-> base, stars |-> stars]
Stars(base, counts) == {Type(base, n) : n \in counts}

(* What a register can hold, and the types of addresses of variables.      *)
FirstClass == Stars("int", 0..3) \cup Stars("struct", 0..2) \cup Stars("fn", 1..2)
Addresses  == Stars("int", 1..3) \cup Stars("struct", 1..2) \cup {Type("fn", 2)}
Pointers   == Stars("int", 1..3) \cup Stars("struct", 1..2) \cup Stars("fn", 1..2)

Of(classes, types) == [class : classes, ty : types]

MCValues ==
  Of({"alloca", "GlobalVariable"}, Addresses)
  \cup Of({"Function"}, {Type("fn", 1)})
  \cup Of({"Argument", "load", "ConstantExpr", "UndefValue"}, FirstClass)
  \cup Of({"ConstantPointerNull"}, Pointers)
  \cup Of({"ConstantInt"}, {Type("int", 0)})

Fn(name, declared, intrinsic) ==
  [name |-> name, declared |-> declared, intrinsic |-> intrinsic]

MCCallSites ==
  [asm : {FALSE}, ty : {NoType, Type("int", 1)},
   called : {NoFunction, Fn("malloc", TRUE, "none"), Fn("malloc", FALSE, "none"),
             Fn("memcpy", TRUE, "none"), Fn("llvm.memcpy", TRUE, "memcpy"),
             Fn("free", TRUE, "none")}]
  \cup [asm : {TRUE}, ty : {NoType, Type("int", 0)}, called : {NoFunction}]

Instr(class, ty, v) ==
  [class |-> class, ty |-> ty, operand |-> v,
   call |-> [asm |-> FALSE, ty |-> NoType, called |-> NoFunction]]

Five == CHOOSE v \in MCValues : v.class = "ConstantInt"

MCInstructions ==
  {Instr("alloca", t, Five) : t \in Addresses}
  \cup {Instr("load", Pointee(v.ty), v) :
          v \in {w \in MCValues : Pointee(w.ty) \in FirstClass}}
  \cup {Instr("store", NoType, v) : v \in MCValues}
  \cup {Instr("bitcast", t, v) :
          t \in Pointers, v \in {w \in MCValues : IsPointer(w.ty)}}
  \cup {Instr("insertvalue", Type("struct", 0), v) : v \in MCValues}
  \cup {Instr(c, t, Five) : c \in {"getelementptr", "inttoptr", "addrspacecast"},
                           t \in Pointers}
  \cup {Instr(c, t, Five) : t \in FirstClass,
          c \in {"phi", "extractvalue", "select", "freeze", "va_arg", "invoke"}}
  \cup {Instr(c, Type("int", 0), Five) : c \in {"icmp", "binary", "bitcast"}}
  \cup {Instr(c, NoType, Five) : c \in {"br", "ret", "fence"}}
  \cup {[Instr("call", c.ty, Five) EXCEPT !.call = c] : c \in MCCallSites}

MCExpressions ==
  {Append(s, "object") :
     s \in BoundedSeq({"getelementptr", "cast", "binary", "other"}, 3)}

Callees == {"", "__assert_fail", "f"}
MCBodies == BoundedSeq(UNION {[1..n -> Callees] : n \in 1..2}, 2)

(* Types 1 to 5: integer, other, pointer to any, two aggregates.  Only     *)
(* through the pointer can a type contain itself.                          *)
UpTo2(S) == BoundedSeq(S, 2)
Compound(S) ==
  {<<"struct", e>> : e \in UpTo2(S)} \cup {<<"array", <<t>>>> : t \in S}

MCTypeTables ==
  {[kind  |-> <<"integer", "other", "pointer", c4[1], c5[1]>>,
    elems |-> << <<>>, <<>>, <<p>>, c4[2], c5[2] >>] :
     p \in 1..5, c4 \in Compound(1..3), c5 \in Compound(1..4)}

================================================================================
