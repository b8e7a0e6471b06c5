------------------------------- MODULE MCBoot -------------------------------
(***************************************************************************)
(* A behaviour is one of the loading of an executable with its libraries,  *)
(* or one of the construction and use of the GSTable of the program.       *)
(***************************************************************************)
EXTENDS GSTable, FiniteSets

CONSTANTS Files, Main, Egalito, Pthread, NotLoaded, Missing, Needs, TLSSizes,
          HeaderSize, Align

\* A file names a library once.
ASSUME LoadingAssumption ==
  /\ Main \in Files /\ Egalito \in Files /\ Main # Egalito
  /\ NotLoaded \cup Missing \subseteq Files \ {Main, Egalito}
  /\ \A needs \in Needs : \A f \in Files : \A m, n \in 1..Len(needs[f]) :
       needs[f][m] = needs[f][n] => m = n
  /\ HeaderSize \in Nat \ {0} /\ Align \in Nat \ {0}

VARIABLES
  part,
  needed, tlsSize, loadPhase, libraries, deps, modules, loadPos, order, met, size,
  tlsOffset, next, image

loadVars == <<needed, tlsSize, loadPhase, libraries, deps, modules, loadPos, order,
              met, size, tlsOffset, next, image>>

Load == INSTANCE Loading WITH
  phase <- loadPhase, pos <- loadPos

-----------------------------------------------------------------------------
(* An executable, libegalito.so and five libraries, of which ld.so is      *)
(* never loaded and libz.so.1 is not found.                                *)
MCFiles == {"(executable)", "(egalito)", "libpthread.so.0", "libc.so.6", "libm.so.6",
            "libz.so.1", "ld.so"}

\* The executable names its libraries in any of these orders.
MCMainNeeds == {<< >>, <<"libm.so.6">>, <<"libpthread.so.0", "libc.so.6">>,
                <<"libm.so.6", "ld.so", "libpthread.so.0">>}
MCNeeds ==
  {[f \in MCFiles |->
      CASE f = "(executable)" -> main
        [] f = "(egalito)" -> <<"libc.so.6">>
        [] f = "libpthread.so.0" -> <<"libc.so.6">>
        [] f = "libm.so.6" -> m
        [] f = "libc.so.6" -> c
        [] OTHER -> << >>] :
    main \in MCMainNeeds,
    m \in {<< >>, <<"libc.so.6", "ld.so">>, <<"libpthread.so.0">>,
           <<"libpthread.so.0", "libc.so.6">>, <<"libz.so.1", "libc.so.6">>},
    c \in {<<"ld.so">>, <<"libm.so.6">>, <<"libpthread.so.0">>}}
MCTLSSizes ==
  {[f \in MCFiles |-> CASE f = "(executable)" -> a [] f = "libc.so.6" -> b
                        [] f = "libm.so.6" -> 1 [] OTHER -> 0] : a \in {0, 1, 3}, b \in {0, 2}}

-----------------------------------------------------------------------------
(* Two hooks, the second with a jump table, one function wanted by name,   *)
(* whose Instructions vary, an exempt function, two trampolines, and the   *)
(* constructor and entry point of the program.                             *)
MCFunctions == {"fixup", "handler", "resolve", "malloc", "abort", "init", "main"}
MCPLTs == {"ifunc", "lazy"}
MCLabels == {"case1", "case2"}
MCJumpTables == [f \in MCFunctions |->
  CASE f = "handler" -> <<"case1">> [] f = "malloc" -> <<"case2", "case2">>
    [] OTHER -> << >>]
MCTarget == [p \in MCPLTs |-> IF p = "ifunc" THEN "malloc" ELSE "null"]
MCIFuncs == {"ifunc"}
MCHooks == <<"fixup", "handler">>
MCWanted == <<"resolve", "abort">>
MCPointers == <<"malloc", "resolve">>
MCOrder == <<"init", "main", "abort", "lazy", "ifunc", "malloc", "resolve", "handler", "fixup">>
MCStarts == <<"init", "main">>

To(kind, target) == [kind |-> kind, target |-> target]

\* What the function wanted by name and the constructor may do.
MCResolve == {<< >>, <<To("call", "malloc")>>, <<To("dcall", "malloc"), To("load", "abort")>>,
              <<To("jump", "ifunc"), To("call", "lazy")>>, <<To("call", "main")>>}
MCInit == {<< >>, <<To("icall", "null")>>, <<To("jump", "init")>>, <<To("djump", "resolve")>>,
           <<To("icall", "null"), To("pointer", "malloc")>>}
MCMalloc == {<< >>, <<To("call", "resolve"), To("call", "abort")>>}
MCPrograms ==
  {[fixup |-> <<To("call", "resolve")>>, handler |-> <<To("load", "abort")>>,
    resolve |-> r, malloc |-> m, abort |-> << >>, init |-> n,
    main |-> <<To("call", "malloc"), To("call", "null")>>,
    ifunc |-> <<To("djump", "malloc")>>, lazy |-> <<To("jump", "null")>>] :
      r \in MCResolve, m \in MCMalloc, n \in MCInit}

-----------------------------------------------------------------------------
NoLoading ==
  /\ needed = << >> /\ tlsSize = << >> /\ loadPhase = "executable"
  /\ libraries = << >> /\ deps = [f \in Files |-> {}] /\ modules = << >>
  /\ loadPos = 1 /\ order = << >> /\ met = {} /\ size = 0
  /\ tlsOffset = << >> /\ next = 0 /\ image = << >>

NoTable ==
  /\ code = CHOOSE p \in Programs : TRUE
  /\ phase = "aborted" /\ rest = << >> /\ left = << >> /\ at = NULL
  /\ entries = Hooks /\ reserved = 0 /\ todo = << >>
  /\ count = 0 /\ pos = 1 /\ k = 1 /\ array = << >> /\ starts = << >>

BootInit ==
  \/ part = "GSTable" /\ Init /\ NoLoading
  \/ part = "Loading" /\ Load!Init /\ NoTable

TableStep == part = "GSTable" /\ Next /\ UNCHANGED <<part, loadVars>>
LoadStep == part = "Loading" /\ Load!Next /\ UNCHANGED <<part, vars>>
LoaderStep ==
  /\ part = "Loading" /\ (Load!Parse \/ Load!TLS \/ Load!InitArray)
  /\ UNCHANGED <<part, vars>>

\* The loader is one thread; whether threads are made is up to the program.
BootSpec ==
  /\ BootInit
  /\ [][TableStep \/ LoadStep]_<<part, vars, loadVars>>
  /\ WF_<<part, vars, loadVars>>(TableStep)
  /\ WF_<<part, vars, loadVars>>(LoaderStep)

-----------------------------------------------------------------------------
\* Every library that is needed, however indirectly, has one module, unless
\* the file of one of them is not found.
LoadsWhatIsNeeded == Load!LoadsWhatIsNeeded

\* No module's constructors run before those of what it depends on, except
\* libpthread's, and never those of the executable; and makeInitArray fails
\* exactly when libraries depend on each other in a cycle that libpthread does
\* not break.
DependenciesFirst == Load!DependenciesFirst /\ Load!AbortsOnCycleOnly

\* The loader comes to an end: the rounds that reserve entries, the passes that
\* make the others, and the sweeps of makeInitArray.
LoaderEnds == SetupEnds /\ (part = "Loading" => Load!StartsOrAborts)

\* chunk/dataregion.h: tlsOffset is "the offset from the beginning of all TLS
\* data to this particular TLS region".  In a thread that the program creates
\* the initial data of every module are where its tlsOffset says.
ThreadFindsItsTLS == Load!ThreadFindsItsTLS
=============================================================================
