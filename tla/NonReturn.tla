----------------------------- MODULE NonReturn -----------------------------
(***************************************************************************)
(* NonReturnFunction (src/pass/nonreturn.cpp): which calls and which       *)
(* Functions never return.  The pass goes over the function list again and *)
(* again until a whole round has added nothing.  In one visit it marks the *)
(* jumps and calls that lead to a Function known not to return, and then   *)
(* the Function itself if such an instruction is on the way from its entry *)
(* to every exit of its control flow graph.                                *)
(*                                                                         *)
(* The names of knownList are the Functions Known; Error is GNU error(),   *)
(* which returns if and only if its first argument is 0.  A call of Error  *)
(* has the field status, the constant that is loaded for that argument.    *)
(***************************************************************************)
EXTENDS FlowGraph

CONSTANTS Functions,  \* the Functions of the module
          Known,      \* the external ones in knownList
          Others,     \* the external ones that return
          Error,      \* error(3), external
          Order,      \* the function list
          Programs    \* [Functions -> bodies]: what may be analysed

VARIABLES program,        \* the bodies
          nonReturnList,  \* the Functions found not to return
          marks,          \* the blocks, by Function, whose cfi->returns() is false
          size,           \* of nonReturnList when the round began
          at,             \* the next Function of the round
          done

vars == << program, nonReturnList, marks, size, at, done >>

Init ==
  /\ program \in Programs
  /\ nonReturnList = {}
  /\ marks = [f \in Functions |-> {}]
  /\ size = 0
  /\ at = 1
  /\ done = FALSE

-----------------------------------------------------------------------------
hasLinkToNeverReturn(instr) ==
  instr.callee \in Known \cup nonReturnList

hasLinkToGNUError(instr) == instr.callee = Error

\* fillCall() of src/analysis/usedef.cpp: the registers a call uses
CallUses == 0..2 \cup 6..11

\* getArg0Value() follows the definitions of register R5 that the call uses
Arg0Register == 5

getArg0Value(instr) ==
  IF Arg0Register \in CallUses THEN << TRUE, instr.status >> ELSE << FALSE, 0 >>

\* any ControlFlowInstruction, conditional or not
CFIs(body) == {b \in Blocks(body) : body[b].op \in {"jmp", "jcc", "callq"}}

\* step-1 of visit(Function)
Marked(f) ==
  marks[f] \cup
  {b \in CFIs(program[f]) :
     \/ hasLinkToNeverReturn(program[f][b])
     \/ /\ hasLinkToGNUError(program[f][b])
        /\ getArg0Value(program[f][b])[1]
        /\ getArg0Value(program[f][b])[2] # 0}

\* any marked instruction suffices
NeverReturnsAny(f, marked) == marked # {}

\* step-2
neverReturns(f, marked) ==
  LET pdom == getPostDominators(construct(program[f], marked))
  IN  \E b \in marked : Contains(pdom, b)

visit ==
  /\ ~done
  /\ at <= Len(Order)
  /\ LET f == Order[at]
     IN  IF f \in nonReturnList
         THEN UNCHANGED << marks, nonReturnList >>
         ELSE /\ marks' = [marks EXCEPT ![f] = Marked(f)]
              /\ nonReturnList' = IF neverReturns(f, Marked(f))
                                  THEN nonReturnList \cup {f}
                                  ELSE nonReturnList
  /\ at' = at + 1
  /\ UNCHANGED << program, size, done >>

EndRound ==
  /\ ~done
  /\ at > Len(Order)
  /\ done' = (size = Cardinality(nonReturnList))
  /\ size' = Cardinality(nonReturnList)
  /\ at' = IF done' THEN at ELSE 1
  /\ UNCHANGED << program, nonReturnList, marks >>

Next == visit \/ EndRound

Spec == Init /\ [][Next]_vars

-----------------------------------------------------------------------------
(* What the program does.                                                  *)

\* may control leave block b for the next one, if the Functions R may return?
GoesOn(instr, R) ==
  \/ instr.op \in {"jcc", "other"}
  \/ /\ instr.op = "callq"
     /\ \/ instr.callee \in R \cup Others \cup {None}
        \/ instr.callee = Error /\ instr.status = 0

\* may the Function return from this block?
Leaves(body, b, R) ==
  \/ body[b].op = "ret"
  \/ body[b].op = "ijmp" /\ body[b].to = << >>
  \/ body[b].op \in {"jmp", "jcc"} /\ body[b].callee \in R \cup Others
  \/ GoesOn(body[b], R) /\ b + 1 \notin Blocks(body)

ReallyReached(body, R) ==
  ReachSet({e \in Blocks(body) \X Blocks(body) :
              \/ Contains(body[e[1]].to, e[2])
              \/ e[2] = e[1] + 1 /\ GoesOn(body[e[1]], R)},
           {0}, {})

\* the least set of Functions that may return
RECURSIVE MayReturn(_)
MayReturn(R) ==
  LET more == {f \in Functions :
                 \E b \in ReallyReached(program[f], R) :
                   Leaves(program[f], b, R)}
  IN  IF more \subseteq R THEN R ELSE MayReturn(R \cup more)

\* no conditional jump leaves the Function, whether it is taken or not
JumpsInside ==
  \A f \in Functions : \A b \in Blocks(program[f]) :
    program[f][b].op = "jcc" =>
      program[f][b].callee = None /\ b + 1 \in Blocks(program[f])

-----------------------------------------------------------------------------
\* A Function that is marked as never returning (nonreturn.cpp:102) has no
\* path to a return: code that follows a call of it may be taken for data or
\* padding.
NeverReturnsIsTrue == nonReturnList \cap MayReturn({}) = {}

\* The same where no conditional jump leads out of a Function.
NeverReturnsIsTrueInside == JumpsInside => NeverReturnsIsTrue

\* Dominance computes the immediate dominators of every control flow graph
\* that the pass looks at, loops, unreachable blocks and blocks with several
\* entries included (dominance.cpp:33-64).
DominatorsAreNearest ==
  done => \A f \in Functions :
    LET graph == construct(program[f], marks[f])
    IN  IsImmediateDominators(graph, Dominance(graph))

\* SccOrder lists the strongly connected components of the graph, each block
\* in one of them and no component before one that leads to it
\* (walker.h:159-199).
ComponentsInOrder ==
  done => \A f \in Functions :
    LET graph == construct(program[f], marks[f])
    IN  IsSccOrder(graph, SccOrder(graph))
=============================================================================
