----------------------------- MODULE MCArchive -----------------------------
(***************************************************************************)
(* Instances of Archive: a program of two modules with one chunk of most   *)
(* kinds, its links varied.                                                *)
(***************************************************************************)
EXTENDS Archive

ChunkTypes ==
  [p |-> "Program", libs |-> "LibraryList", lib |-> "Library",
   m |-> "Module", plts |-> "PLTList", fl |-> "FunctionList",
   jts |-> "JumpTableList", drs |-> "DataRegionList",
   ext |-> "ExternalSymbolList", inits |-> "InitFunctionList",
   init |-> "InitFunction",
   pt |-> "PLTTrampoline", pb |-> "Block", pi |-> "Instruction",
   f |-> "Function", fb |-> "Block", fi |-> "Instruction", fj |-> "Instruction",
   g |-> "Function", gb |-> "Block", gi |-> "Instruction",
   jt |-> "JumpTable", je |-> "JumpTableEntry",
   dr |-> "DataRegion", ds |-> "DataSection", dv |-> "DataVariable",
   es |-> "ExternalSymbol",
   n |-> "Module", nplts |-> "PLTList", nfl |-> "FunctionList",
   njts |-> "JumpTableList", ndrs |-> "DataRegionList",
   next |-> "ExternalSymbolList",
   h |-> "Function", hb |-> "Block", hi |-> "Instruction",
   gone |-> "Function"]    \* removed from its FunctionList

ChunkKids ==
  [p |-> <<"m", "n">>, libs |-> <<"lib">>,
   plts |-> <<"pt">>, pt |-> <<"pb">>, pb |-> <<"pi">>,
   fl |-> <<"f", "g">>, f |-> <<"fb">>, fb |-> <<"fi", "fj">>, g |-> <<"gb">>, gb |-> <<"gi">>,
   jts |-> <<"jt">>, jt |-> <<"je">>,
   drs |-> <<"dr">>, dr |-> <<"ds">>, ds |-> <<"dv">>,
   ext |-> <<"es">>, inits |-> <<"init">>,
   nplts |-> << >>, nfl |-> <<"h">>, h |-> <<"hb">>, hb |-> <<"hi">>,
   njts |-> << >>, ndrs |-> << >>, next |-> << >>]

\* The links of the Instruction fi and of the DataVariable dv, and whether
\* FindInitFuncs found a function.  Links to Instructions stay in a module.
Tree(root, fi, dv, inits) ==
  LET refs == [lib |-> <<"m">>, m |-> <<"lib">>, n |-> <<None>>, pt |-> <<"es">>,
               pi |-> <<"ds">>, fi |-> fi, jt |-> <<"f", "fj", "ds", None>>,
               je |-> <<"dv">>, drs |-> <<None>>, ndrs |-> <<None>>, dv |-> dv,
               es |-> <<"h", "n">>, inits |-> <<"init">>, init |-> <<"g", None>>]
      late == [p |-> <<"f">>, jt |-> <<"fj">>]
      with(fn, c) == IF c \in DOMAIN fn THEN fn[c] ELSE << >>
  IN  [root |-> root,
       type |-> ChunkTypes,
       kids |-> ChunkKids,
       own  |-> [p |-> <<"libs">>,
                 m |-> <<"plts", "fl", "jts", "drs", None,
                         IF inits THEN "inits" ELSE None, None, "ext">>,
                 n |-> <<"nplts", "nfl", "njts", "ndrs", None, None, None, "next">>],
       refs |-> [c \in DOMAIN ChunkTypes |-> with(refs, c)],
       late |-> [c \in DOMAIN ChunkTypes |-> with(late, c)]]

MCPrograms ==
  {Tree("p", fi, dv, inits) :
     fi \in {<< >>, <<"g">>, <<"gi">>, <<"dv">>, <<"gone">>},
     dv \in {<<None>>, <<"fj">>, <<"h">>},
     inits \in BOOLEAN}

MCBeyond == {"other", "l"}
=============================================================================
