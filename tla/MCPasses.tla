------------------------------ MODULE MCPasses ------------------------------
(***************************************************************************)
(* A behaviour is one of one of three passes: ReorderPush on a Block,      *)
(* PromoteJumpsPass on a Function, or NonReturnFunction on a module.       *)
(***************************************************************************)
EXTENDS Reorder, JumpEncoding

CONSTANTS Known, Others, Error, None, Programs

VARIABLES
  pass,
  code, codeSize, codeAt, changed, status, first,              \* PromoteJumps
  program, nonReturnList, marks, listSize, functionAt, done    \* NonReturn

promoteVars == << code, codeSize, codeAt, changed, status, first >>
nonRetVars == << program, nonReturnList, marks, listSize, functionAt, done >>

MCFunctions == {"f", "g", "h"}
MCOrder == << "f", "g", "h" >>

Promote == INSTANCE PromoteJumps WITH size <- codeSize, at <- codeAt
NonRet == INSTANCE NonReturn WITH
  Functions <- MCFunctions, Order <- MCOrder, size <- listSize, at <- functionAt

-----------------------------------------------------------------------------
(* Blocks of up to five instructions on two registers, with each kind of   *)
(* operand, and with a call or a jump among them.                          *)
I(op, src, dst, sz, link) ==
  [op |-> op, src |-> src, dst |-> dst, index |-> {}, size |-> sz, link |-> link]
Indexed(x, r) == [x EXCEPT !.index = {r}]

MovabsLoad == I("movabs_mem_reg", "rax", "rax", 9, "none")
CallInstr == I("call", "rax", "rax", 5, "flow")
JccInstr == I("jne", "rax", "rax", 2, "flow")

Some == {I("add_reg_reg", "rax", "rbx", 3, "none"),
         I("add_mem_reg", "rbx", "rax", 4, "linked"),
         I("cmp_imm_reg", "rax", "rax", 3, "none"),
         I("cmp_imm_mem", "rax", "rbx", 4, "none"),
         Indexed(I("mov_reg_mem", "rax", "rax", 3, "none"), "rbx"),
         I("mov_mem_reg", "rbx", "rax", 7, "linked"),
         I("push_mem", "rax", "rax", 3, "none"),
         I("pop_mem", "rax", "rax", 3, "none"),
         I("pop_reg", "rax", "rbx", 1, "none"),
         I("pop_reg", "rsp", "rsp", 1, "none"),
         CallInstr}

More == {I("add_imm_reg", "rax", "rax", 4, "none"),
         I("cmp_reg_reg", "rax", "rbx", 3, "none"),
         I("mov_imm_reg", "rax", "rax", 5, "none"),
         I("mov_reg_reg", "rax", "rbx", 3, "none"),
         Indexed(I("lea", "rax", "rax", 7, "linked"), "rbx"),
         I("push_reg", "rbx", "rbx", 1, "none")}

MCCandidates ==
  (UNION {[1..n -> Some] : n \in 1..3})
  \cup {<< a, MovabsLoad >> : a \in More}
  \cup {<< a, b, c, JccInstr >> : a \in More, b \in More, c \in More}
  \cup {<< a, CallInstr, b, c, d >> : a \in More, b \in More, c \in Some, d \in More}

-----------------------------------------------------------------------------
(* Functions of three jumps with code between them, whose length is around *)
(* the reach of a short jump, so that widening one jump puts another out   *)
(* of reach.                                                               *)
Code(n) == [id |-> "other", opcode |-> n, disp |-> 0, link |-> "none", target |-> 0]

Short(id, link, target) ==
  [id |-> id, opcode |-> 1, disp |-> 1, link |-> link, target |-> target]

Near(target) ==
  [id |-> "call", opcode |-> 1, disp |-> 4, link |-> "external", target |-> target]

ThroughTable(offset) ==
  [id |-> "call", opcode |-> 4, disp |-> 4, link |-> "table", target |-> offset]

First == {Short("jcc", "within", t) : t \in {1, 4, 5, 6}}
         \cup {Short("jrcxz", "within", 5), Near(6000)}
Second == {Short("jmp", "within", t) : t \in {1, 2, 5, 6}}
          \cup {Short("jmp", "external", 50), Short("jmp", "none", 0)}
Third == {Short("jcc", "within", t) : t \in {1, 2, 3, 4}}
         \cup {Short("jmp", "external", 5000), Near(20)}

MCBodies ==
  {<< a, Code(m), b, Code(n), c, Code(1) >> :
     a \in First, b \in Second, c \in Third,
     m \in {1, 60, 62, 123, 124}, n \in {2, 63, 67, 121}}
  \cup {<< a, ThroughTable(16), b, Code(n), Code(1), Code(1) >> :
          a \in First, b \in Second, n \in {112, 113}}

-----------------------------------------------------------------------------
(* Functions of four basic blocks that jump anywhere, return or call       *)
(* exit(); pairs of Functions that call and tail call each other, in both  *)
(* orders of discovery; and a larger graph with a loop of two entries.     *)
Ends(op, to, callee, stat) ==
  [op |-> op, to |-> to, callee |-> callee, status |-> stat]

Ret == Ends("ret", << >>, None, 0)
Jump(b) == Ends("jmp", << b >>, None, 0)
Branch(b) == Ends("jcc", << b >>, None, 0)
Call(f) == Ends("callq", << >>, f, 0)
TailCall(f) == Ends("jmp", << >>, f, 0)
BranchOut(f) == Ends("jcc", << >>, f, 0)
Table(bs) == Ends("ijmp", bs, None, 0)
Plain == Ends("other", << >>, None, 0)
Fail(stat) == Ends("callq", << >>, "error", stat)

Body(s) == [b \in 0..Len(s) - 1 |-> s[b + 1]]

Anywhere == {Jump(b) : b \in 0..3} \cup {Branch(b) : b \in 0..3}

Graphs4 ==
  {Body(<< a, b, c, d >>) :
     a \in {Branch(2), Branch(3), Table(<< 1, 2, 3 >>)},
     b \in Anywhere \cup {Ret, Call("exit")},
     c \in Anywhere \cup {Ret, Call("exit")},
     d \in {Jump(0), Jump(1), Jump(2), Jump(3), Ret, Call("exit")}}

Returns == Body(<< Ret >>)

\* Block 0 leads to both entries of the loop of blocks 3, 4 and 5.
TwoEntries ==
  Body(<< Branch(2), Jump(4), Plain, Branch(5), Jump(3), Table(<< 3, 6 >>), Ret >>)

\* Two Functions that end in exit() or in each other.
Enders == {Call("exit"), Fail(1), Fail(0), TailCall("exit"), Ret}
Pairs ==
  {[f |-> Body(<< Branch(2), a, b >>), g |-> Body(<< c, d >>), h |-> Body(<< e >>)] :
     a \in Enders \cup {Call("g"), TailCall("g"), Jump(0)},
     b \in Enders \cup {Call("g"), TailCall("h"), BranchOut("g")},
     c \in {Call("h"), Branch(0), Call("read"), Call("f")},
     d \in {Call("exit"), Ret, TailCall("h"), Jump(0)},
     e \in {Call("exit"), Ret, TailCall("f")}}

MCPrograms ==
  {[f |-> b, g |-> Returns, h |-> TwoEntries] : b \in Graphs4} \cup Pairs

\* A conditional jump to exit().
MCBranchOut ==
  {[f |-> Body(<< BranchOut("exit"), Ret >>), g |-> Returns, h |-> Returns]}

-----------------------------------------------------------------------------
NoReorder ==
  /\ block = << >> /\ phase = "done" /\ analysed = 0 /\ killMap = << >>
  /\ currentWriteMap = [r \in Places |-> 0]
  /\ currentReadMap = [r \in Places |-> {}]
  /\ place = << >> /\ picked = 0 /\ owner = << >> /\ size = 0
NoPromote ==
  /\ code = << >> /\ codeSize = 0 /\ codeAt = 1 /\ changed = FALSE
  /\ status = "done" /\ first = << >>
NoNonRet ==
  /\ program = << >> /\ nonReturnList = {} /\ marks = << >>
  /\ listSize = 0 /\ functionAt = 1 /\ done = FALSE

PassesInit ==
  \/ pass = "ReorderPush" /\ Init /\ NoPromote /\ NoNonRet
  \/ pass = "PromoteJumps" /\ Promote!Init /\ NoReorder /\ NoNonRet
  \/ pass = "NonReturn" /\ NonRet!Init /\ NoReorder /\ NoPromote

ReorderStep ==
  pass = "ReorderPush" /\ Next /\ UNCHANGED << pass, promoteVars, nonRetVars >>
PromoteStep ==
  pass = "PromoteJumps" /\ Promote!Next /\ UNCHANGED << pass, vars, nonRetVars >>
NonReturnStep ==
  pass = "NonReturn" /\ NonRet!Next /\ UNCHANGED << pass, vars, promoteVars >>

PassesVars == << pass, vars, promoteVars, nonRetVars >>

\* Weak fairness of NonReturnStep, which is enabled until the pass is done and
\* is the only step that changes the pass's variables.
NonReturnGoesOn ==
  \/ []<>(pass # "NonReturn" \/ done)
  \/ []<><<TRUE>>_nonRetVars

\* A pass is run by one thread that nothing else keeps from going on.
PassesSpec ==
  /\ PassesInit
  /\ [][ReorderStep \/ PromoteStep \/ NonReturnStep]_PassesVars
  /\ WF_PassesVars(ReorderStep)
  /\ WF_PassesVars(PromoteStep)
  /\ NonReturnGoesOn

-----------------------------------------------------------------------------
\* After PromoteJumpsPass every jump is written with the displacement that
\* leads to its target, no jump to another Function is short, and no jump has
\* been promoted that could have stayed short.
PromotesJustEnough == Promote!JumpsReach /\ Promote!PromotesNoMore

\* A Function that NonReturnFunction takes for one that never returns has no
\* path to a return.
NeverReturnsIsTrue == pass = "NonReturn" => NonRet!NeverReturnsIsTrue

\* The same where no conditional jump leads out of a Function.
NeverReturnsIsTrueInside == pass = "NonReturn" => NonRet!NeverReturnsIsTrueInside

\* Dominance computes the immediate dominators of every graph, and SccOrder
\* lists its strongly connected components in an order in which none comes
\* before one that leads to it.
GraphsAnalysed ==
  pass = "NonReturn" => NonRet!DominatorsAreNearest /\ NonRet!ComponentsInOrder

\* Every pass ends: an instruction can be picked as long as one is left, the
\* repetition of PromoteJumpsPass stops, and so do the rounds of
\* NonReturnFunction.
PassesEnd ==
  /\ ReorderEnds
  /\ Promote!PassEnds
  /\ pass = "NonReturn" ~> done
=============================================================================
