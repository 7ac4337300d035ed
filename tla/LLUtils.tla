--------------------------------- MODULE LLUtils -------------------------------
(***************************************************************************)
(* The queries of lib/mybase/LLUtils.cc, asked one at a time about values, *)
(* instructions and functions of a valid module with typed pointers.  Most *)
(* answer at once, or end the process: by report_fatal_error, by a failed  *)
(* cast or by a null callee; elimConstExpr and getAssertCallSite walk, and *)
(* isIntegerRelatedType is the recursion of IntegerRelated.                *)
(***************************************************************************)
EXTENDS IntegerRelated

CONSTANTS
  Values,        \* values: [class, ty]
  Instructions,  \* instructions: a class, a type and one operand
  CallSites,     \* [asm, called, ty]: what a call instruction calls
  Expressions,   \* nested constants, each the first operand of the one before
  Bodies,        \* functions: sequences of blocks, each a sequence of callees
  Asserts        \* whether the library is built with assertions

(* A type is a base type under a number of pointers.  What names a variable *)
(* or function is its address, what inserts into an aggregate yields one,  *)
(* and neither a variable nor a function is an instruction.                *)
Addressed == {"alloca", "GlobalVariable", "Function"}
IsType(ty) == ty \in [base : {ty.base}, stars : Nat]

ASSUME ValuesAssumption == \A v \in Values :
  IsType(v.ty) /\ (v.class \in Addressed => v.ty.stars > 0)
ASSUME InstructionsAssumption == \A I \in Instructions :
  /\ I.class \notin {"GlobalVariable", "Function"}
  /\ I.class = "insertvalue" => I.ty.stars = 0
ASSUME BodiesAssumption == Bodies \subseteq Seq(Seq(STRING))

VARIABLES
  question,   \* [op, about]
  at,         \* how far a walk has got: <<block, instruction>>
  found,      \* the calls collected so far
  answer,     \* none yet, yes, no, type, value, list, dies
  result      \* the type, if the answer is one

utilsVars == <<vars, question, at, found, answer, result>>

IsPointer(ty) == ty.stars > 0
Pointee(ty) == [ty EXCEPT !.stars = @ - 1]
NoType == [base |-> "void", stars |-> 0]

NoFunction == [name |-> "", declared |-> FALSE, intrinsic |-> "none"]

Pending(op) == question.op = op /\ answer = "none"
About == question.about

(* Where a walk stands does not change, and no type is given.              *)
Say(word) ==
  /\ answer' = word
  /\ UNCHANGED <<vars, question, at, found, result>>

YesOrNo(condition) == Say(IF condition THEN "yes" ELSE "no")

(* Behaviour that is undefined, and that an assertion rules out: without   *)
(* assertions the process may die or give an answer that means nothing.    *)
Undefined(answers) == {"dies"} \cup (IF Asserts THEN {} ELSE answers)
Garbage == [base |-> "garbage", stars |-> 0]

(* A cast<PointerType> fails for any other type.                           *)
PointeeOf(ty) ==
  IF IsPointer(ty) THEN {<<"type", Pointee(ty)>>}
  ELSE {<<"dies", NoType>>} \cup IF Asserts THEN {} ELSE {<<"type", Garbage>>}

GivePointee(ty) ==
  /\ \E given \in PointeeOf(ty) : answer' = given[1] /\ result' = given[2]
  /\ UNCHANGED <<vars, question, at, found>>

--------------------------------------------------------------------------------
(* What a value stands for *)

isTrivialPointer(v) == v.class \in {"alloca", "GlobalVariable", "Function"}

(* Which classes derive from Constant, and which of them from GlobalValue. *)
GlobalValues == {"GlobalVariable", "Function", "GlobalAlias", "GlobalIFunc"}
Constants ==
  GlobalValues \cup
  {"ConstantInt", "ConstantFP", "ConstantPointerNull", "ConstantExpr",
   "ConstantAggregateZero", "ConstantArray", "ConstantStruct", "ConstantVector",
   "ConstantDataArray", "ConstantDataVector", "ConstantTokenNone",
   "BlockAddress", "UndefValue", "PoisonValue"}

isConstantValue(v) ==
  /\ v.class \in Constants
  /\ v.class \notin GlobalValues
  /\ v.class \notin {"UndefValue", "PoisonValue"}

isPointerValue(v) ==
  IF isTrivialPointer(v) THEN IsPointer(Pointee(v.ty)) ELSE IsPointer(v.ty)

(* getPointedType of a value, before the last cast: the pointer it casts.  *)
Pointed(v) == IF isTrivialPointer(v) THEN Pointee(v.ty) ELSE v.ty

(* Mutant: the value is not asked about before its type is.                *)
isPointerToPointerUnasked(v) ==
  IF ~ IsPointer(Pointed(v)) THEN Undefined({"yes", "no"})
  ELSE IF IsPointer(Pointee(Pointed(v))) THEN {"yes"} ELSE {"no"}

(* The answers it may give: no more than one, unless a cast fails.         *)
isPointerToPointerValue(v) ==
  IF ~ isPointerValue(v) THEN {"no"}
  ELSE IF ~ IsPointer(Pointed(v)) THEN Undefined({"yes", "no"})
  ELSE IF IsPointer(Pointee(Pointed(v))) THEN {"yes"} ELSE {"no"}

ValueQuery ==
  \/ Pending("isTrivialPointer") /\ YesOrNo(isTrivialPointer(About))
  \/ Pending("isConstantValue") /\ YesOrNo(isConstantValue(About))
  \/ Pending("isPointerValue") /\ YesOrNo(isPointerValue(About))
  \/ Pending("isPointerToPointerValue")
     /\ \E word \in isPointerToPointerValue(About) : Say(word)
  \/ Pending("getPointedType") /\ GivePointee(Pointed(About))

(* Whether a global variable, not a declaration, starts as the address of  *)
(* a variable or function: `about` is its initializer.                     *)
IsGlobalPointerInit ==
  /\ Pending("isGlobalPointerInit")
  /\ YesOrNo(About.class # "none" /\ isTrivialPointer(About))

--------------------------------------------------------------------------------
(* Calls *)

isFn_mem_ops(F) ==
  /\ F # NoFunction
  /\ \/ F.declared /\ F.name \in {"malloc", "free"}
     \/ F.intrinsic \in {"memcpy", "memmove", "memset"}

isInst_mem_ops ==
  Pending("isInst_mem_ops") /\ YesOrNo(isFn_mem_ops(About.called))

callToVoidFunction ==
  Pending("callToVoidFunction") /\ YesOrNo(~ About.asm /\ About.ty = NoType)

(* Both cast the called function before they look whether there is one;    *)
(* a Function is no InlineAsm, so a call that has one has no side effect.  *)
getCalleeFnType ==
  /\ Pending("getCalleeFnType")
  /\ Say(IF About.called = NoFunction THEN "dies" ELSE "value")

is_inlineAsm_withSideEffect ==
  /\ Pending("is_inlineAsm_withSideEffect")
  /\ Say(IF About.called = NoFunction THEN "dies" ELSE "no")

(* getEntryBlock is the front of the list of blocks; a declaration's list  *)
(* is empty.                                                               *)
getFunctionEntry ==
  /\ Pending("getFunctionEntry")
  /\ \E word \in IF About.declared THEN Undefined({"value"}) ELSE {"value"} :
       Say(word)

--------------------------------------------------------------------------------
(* isPointerManipulation *)

(* I: class, its type, and the operand that decides: operand 0, for an     *)
(* insertvalue the inserted one; for a call, what it calls.                *)
Manipulates(I) ==
  \/ I.class = "load"  /\ IsPointer(Pointee(I.operand.ty))
  \/ I.class = "store" /\ IsPointer(I.operand.ty)
  \/ I.class = "bitcast" /\ IsPointer(I.ty) /\ IsPointer(I.operand.ty)
  \/ I.class \in {"getelementptr", "inttoptr"}
  \/ I.class = "call" /\ ~ I.call.asm /\ isFn_mem_ops(I.call.called)
  \/ I.class \in {"phi", "extractvalue", "select"} /\ isPointerValue(I)
  \/ I.class = "insertvalue" /\ isPointerValue(I.operand)

(* The classes whose branch returns in any case.                           *)
Decided == {"alloca", "getelementptr", "call", "phi", "extractvalue",
            "insertvalue", "inttoptr"}

(* Mutant: the last check, before the final FALSE, is missing.             *)
isPointerManipulationUnchecked(I) == IF Manipulates(I) THEN "yes" ELSE "no"

isPointerManipulation(I) ==
  IF Manipulates(I) THEN "yes"
  ELSE IF I.class \notin Decided /\ isPointerValue(I) THEN "dies" ELSE "no"

IsPointerManipulation ==
  /\ Pending("isPointerManipulation")
  /\ Say(isPointerManipulation(About))

--------------------------------------------------------------------------------
(* Walks *)

(* elimConstExpr: from a constant expression to its first operand, but not *)
(* from a binary operator.  An expression is the sequence of what the      *)
(* first operands are; its last element is no constant expression.         *)
Strippable == {"getelementptr", "cast"}

Kept(kind) == kind \in {"object", "binary"}

(* Mutant: no assertion asks for an address computation or a conversion.   *)
StripAnything ==
  /\ Pending("elimConstExpr")
  /\ ~ Kept(About[at[2]])
  /\ at' = <<1, at[2] + 1>>
  /\ UNCHANGED <<vars, question, found, answer, result>>

Strip ==
  /\ Pending("elimConstExpr")
  /\ LET kind == About[at[2]] IN
       /\ ~ Kept(kind)
       /\ IF kind \notin Strippable /\ Asserts
          THEN answer' = "dies" /\ at' = at
          ELSE at' = <<1, at[2] + 1>> /\ answer' = answer
  /\ UNCHANGED <<vars, question, found, result>>

Stripped ==
  /\ Pending("elimConstExpr")
  /\ Kept(About[at[2]])
  /\ Say("value")

(* getAssertCallSite: all blocks, all instructions; a null callee is left  *)
(* out before its name is looked at.                                       *)
InBody == at[1] <= Len(About)
InBlock == InBody /\ at[2] <= Len(About[at[1]])

(* Mutant: one call per block is enough.                                   *)
CollectOnePerBlock ==
  /\ Pending("getAssertCallSite") /\ InBlock
  /\ IF About[at[1]][at[2]] = "__assert_fail"
     THEN found' = Append(found, at) /\ at' = <<at[1] + 1, 1>>
     ELSE found' = found /\ at' = <<at[1], at[2] + 1>>
  /\ UNCHANGED <<vars, question, answer, result>>

Collect ==
  /\ Pending("getAssertCallSite") /\ InBlock
  /\ found' = IF About[at[1]][at[2]] = "__assert_fail" THEN Append(found, at)
              ELSE found
  /\ at' = <<at[1], at[2] + 1>>
  /\ UNCHANGED <<vars, question, answer, result>>

NextBlock ==
  /\ Pending("getAssertCallSite") /\ InBody /\ ~ InBlock
  /\ at' = <<at[1] + 1, 1>>
  /\ UNCHANGED <<vars, question, found, answer, result>>

Collected ==
  /\ Pending("getAssertCallSite") /\ ~ InBody
  /\ Say("list")

--------------------------------------------------------------------------------
(* Positions *)

(* The neighbours of the n-th of `length` instructions; 0 is nullptr.      *)
getSuccInBlock(length, n) == IF n = length THEN 0 ELSE n + 1
getPredInBlock(length, n) == IF n = 1 THEN 0 ELSE n - 1

PositionQuery ==
  \/ Pending("getSuccInBlock")
     /\ Say(IF getSuccInBlock(About[1], About[2]) = 0 THEN "no" ELSE "value")
  \/ Pending("getPredInBlock")
     /\ Say(IF getPredInBlock(About[1], About[2]) = 0 THEN "no" ELSE "value")

(* The function an instruction is in, 0 for another value, and F.          *)
isLocalToFunction ==
  Pending("isLocalToFunction") /\ YesOrNo(About[1] = About[2])

--------------------------------------------------------------------------------
(* Which operation is asked about what *)

ValueOps == {"isTrivialPointer", "isConstantValue", "isPointerValue",
             "isPointerToPointerValue", "getPointedType"}
CallOps == {"isInst_mem_ops", "callToVoidFunction", "getCalleeFnType",
            "is_inlineAsm_withSideEffect"}

NoInitializer == [class |-> "none", ty |-> NoType]
Initializers ==
  {NoInitializer} \cup
  {v \in Values : isConstantValue(v) \/ v.class \in {"GlobalVariable", "Function"}}

Positions == {p \in (1..3) \X (1..3) : p[2] <= p[1]}

(* An instruction and the function asked about; 0: no instruction.         *)
Owners == (0..2) \X (1..2)

Questions ==
  [op : ValueOps, about : Values]
  \cup [op : {"isGlobalPointerInit"}, about : Initializers]
  \cup [op : CallOps, about : CallSites]
  \cup [op : {"getFunctionEntry"},
        about : {c.called : c \in CallSites} \ {NoFunction}]
  \cup [op : {"isPointerManipulation"}, about : Instructions]
  \cup [op : {"elimConstExpr"}, about : Expressions]
  \cup [op : {"getAssertCallSite"}, about : Bodies]
  \cup [op : {"getSuccInBlock", "getPredInBlock"}, about : Positions]
  \cup [op : {"isLocalToFunction"}, about : Owners]

(* Types that play no part when another operation is asked about.          *)
SomeTable == CHOOSE T \in TypeTables : TRUE
SomeType == CHOOSE t \in DOMAIN SomeTable.kind : TRUE

UtilsInit ==
  /\ Init
  /\ \/ question = [op |-> "isIntegerRelatedType", about |-> <<>>]
     \/ /\ table = SomeTable /\ root = SomeType
        /\ question \in Questions
  /\ at = <<1, 1>>
  /\ found = <<>>
  /\ answer = "none"
  /\ result = NoType

isIntegerRelatedType ==
  /\ Pending("isIntegerRelatedType")
  /\ Next
  /\ answer' = IF pc' # "done" THEN "none" ELSE IF ret' THEN "yes" ELSE "no"
  /\ UNCHANGED <<question, at, found, result>>

Answered == answer # "none" /\ UNCHANGED utilsVars

UtilsNext ==
  \/ ValueQuery \/ IsGlobalPointerInit
  \/ isInst_mem_ops \/ callToVoidFunction
  \/ getCalleeFnType \/ is_inlineAsm_withSideEffect
  \/ getFunctionEntry \/ IsPointerManipulation
  \/ Strip \/ Stripped
  \/ Collect \/ NextBlock \/ Collected
  \/ PositionQuery \/ isLocalToFunction
  \/ isIntegerRelatedType
  \/ Answered

UtilsSpec == UtilsInit /\ [][UtilsNext]_utilsVars

(* A query is one sequential computation.                                  *)
FairUtilsSpec == UtilsSpec /\ WF_utilsVars(UtilsNext)

--------------------------------------------------------------------------------
(* What a value stands for: a variable or function named by its address,   *)
(* for what is stored there, any other value for itself.                   *)
Denoted(v) ==
  IF v.class \in Addressed
  THEN Pointee(v.ty) ELSE v.ty

(* The three queries about pointers speak of the same thing, what the      *)
(* value stands for, though each treats addresses in its own way: hence    *)
(* asking whether it points to a pointer never fails in a cast, and asking *)
(* what it points to fails just for what is no pointer, where only the     *)
(* assertion of the cast keeps a meaningless answer back.                  *)
PointerQueriesAgree ==
  answer # "none" =>
    /\ question.op = "isPointerValue" =>
         answer = IF Denoted(About).stars > 0 THEN "yes" ELSE "no"
    /\ question.op = "isPointerToPointerValue" =>
         answer = IF Denoted(About).stars > 1 THEN "yes" ELSE "no"
    /\ question.op = "getPointedType" =>
         IF Denoted(About).stars > 0
         THEN answer = "type" /\ result = Pointee(Denoted(About))
         ELSE answer = "dies" \/ (~ Asserts /\ result = Garbage)

(* No chain of conditions that falls through denies an instruction that    *)
(* yields a pointer: it is manipulation, or fatal.  Exempt are the address *)
(* of a variable and what a call that does not handle memory returns.      *)
PointerNeverDenied ==
  question.op = "isPointerManipulation" /\ answer = "no"
  /\ About.class \notin {"alloca", "call"} => ~ IsPointer(About.ty)

(* Only address computations and conversions are stripped from a constant: *)
(* what is left computes from, or is, the object the constant refers to.   *)
ElimKeepsObject ==
  question.op = "elimConstExpr" /\ answer = "value" =>
    /\ About[at[2]] \in {"binary", "object"}
    /\ Asserts => \A k \in 1..at[2] - 1 :
                    About[k] \in {"getelementptr", "cast"}

(* All calls of __assert_fail are found, each once, in order, and calls    *)
(* through pointers among them do no harm.                                 *)
AssertSites(body) ==
  {p \in (DOMAIN body) \X UNION {DOMAIN body[b] : b \in DOMAIN body} :
     p[2] \in DOMAIN body[p[1]] /\ body[p[1]][p[2]] = "__assert_fail"}

Before(p, q) == p[1] < q[1] \/ (p[1] = q[1] /\ p[2] < q[2])

AssertSitesExact ==
  answer = "list" =>
    /\ {found[k] : k \in DOMAIN found} = AssertSites(About)
    /\ \A k, m \in DOMAIN found : k < m => Before(found[k], found[m])

(* A comment of getCalleeFnType on its second branch: "function pointer".  *)
FunctionPointersHaveCalleeType ==
  question.op = "getCalleeFnType" /\ answer = "dies" => About.asm

(* Every question is answered, or ends the process: type recursion that    *)
(* goes through a pointer would not come back from a list node.            *)
EveryQuestionEnds == <>(answer # "none")

================================================================================
