------------------------------ MODULE Loading ------------------------------
(***************************************************************************)
(* What the loader makes of an executable and the libraries it needs: the  *)
(* list of modules (Conductor::parse, ElfDynamic), the layout of the       *)
(* thread-local storage (Conductor::allocateTLSArea), the order of         *)
(* constructors (CallInit::makeInitArray), and the TLS of a thread that    *)
(* the program creates (Conductor::loadTLSDataFor).  A library and its     *)
(* module are one file here; addresses of TLS are relative to the thread   *)
(* pointer.                                                                *)
(***************************************************************************)
EXTENDS Integers, Sequences, FiniteSets

CONSTANTS
  Files,      \* everything that may be loaded
  Main,       \* the executable
  Egalito,    \* libegalito.so, under the name "(egalito)"
  Pthread,    \* libpthread.so.0, which may be in Files
  NotLoaded,  \* ld.so and other files that processLibrary passes over
  Missing,    \* files that findSharedObject finds in no directory
  Needs,      \* possible DT_NEEDED lists: a set of [Files -> Seq(Files)]
  TLSSizes,   \* possible sizes of TLS regions, 0 for none: [Files -> Nat]
  HeaderSize, \* sizeof(EgalitoTLS)
  Align       \* what allocateTLS rounds the size up to

ElementsOf(s) == {s[n] : n \in 1..Len(s)}

VARIABLES
  needed,     \* DT_NEEDED of each file
  tlsSize,    \* size of the TLS region of each file
  phase,
  libraries,  \* the LibraryList
  deps,       \* Library::dependencies
  modules,    \* the children of Program
  pos,        \* index in the loop of the phase
  order, met, size,  \* locals of makeInitArray
  tlsOffset,  \* TLSDataRegion::tlsOffset, of the modules that have one
  next,       \* where the next TLS region goes
  image       \* where the TLS regions were copied for a new thread

vars == <<needed, tlsSize, phase, libraries, deps, modules, pos, order, met, size,
          tlsOffset, next, image>>

Init ==
  /\ needed \in Needs /\ tlsSize \in TLSSizes
  /\ phase = "executable"
  /\ libraries = << >> /\ deps = [f \in Files |-> {}] /\ modules = << >>
  /\ pos = 1 /\ order = << >> /\ met = {} /\ size = 0
  /\ tlsOffset = << >> /\ next = 0 /\ image = << >>

\* The regions placed so far, with f at the address a.
Place(placed, f, a) ==
  [g \in DOMAIN placed \cup {f} |-> IF g = f THEN a ELSE placed[g]]

HasTLS(f) == tlsSize[f] > 0

-----------------------------------------------------------------------------
\* LibraryList::add
Known(f) == IF f \in ElementsOf(libraries) THEN libraries ELSE Append(libraries, f)

\* ElfDynamic::processLibrary, for every library that f needs.
resolveLibraries(f, known) ==
  LET IsNew(g) == g \notin NotLoaded \cup ElementsOf(known)
  IN  known \o SelectSeq(needed[f], IsNew)

\* Conductor::parse: add the library, then what it needs, then the module.
parse(f) ==
  LET all == resolveLibraries(f, Known(f))
  IN  /\ libraries' = all
      /\ deps' = [deps EXCEPT ![f] = ElementsOf(needed[f]) \ NotLoaded]
      /\ modules' = Append(modules, f)
      /\ UNCHANGED <<needed, tlsSize, order, met, size, tlsOffset, next, image>>

parseExecutable ==
  /\ phase = "executable" /\ phase' = "egalito"
  /\ parse(Main) /\ UNCHANGED pos

parseEgalito ==
  /\ phase = "egalito" /\ phase' = "libraries"
  /\ parse(Egalito) /\ UNCHANGED pos

\* Mutant: the bound of the loop is read before the first library is parsed.
parseLibrariesOnce ==
  /\ phase = "libraries" /\ pos <= Len(libraries) /\ libraries[pos] \notin Missing
  /\ IF libraries[pos] \in ElementsOf(modules)
     THEN UNCHANGED <<phase, libraries, deps, modules, needed, tlsSize, order, met,
                      size, tlsOffset, next, image>>
     ELSE parse(libraries[pos]) /\ phase' = IF pos = 3 THEN "tls" ELSE phase
  /\ pos' = IF phase' = "tls" THEN 1 ELSE pos + 1

\* The list grows while parseLibraries iterates over it.
parseLibraries ==
  /\ phase = "libraries" /\ pos <= Len(libraries) /\ libraries[pos] \notin Missing
  /\ pos' = pos + 1 /\ UNCHANGED phase
  /\ IF libraries[pos] \in ElementsOf(modules)
     THEN UNCHANGED <<libraries, deps, modules, needed, tlsSize, order, met, size,
                      tlsOffset, next, image>>
     ELSE parse(libraries[pos])

\* A library that was not found is in the list with an empty path.  That it
\* cannot be opened is noticed here, and ends the loader.
cannotOpen ==
  /\ phase = "libraries" /\ pos <= Len(libraries) /\ libraries[pos] \in Missing
  /\ phase' = "failed"
  /\ UNCHANGED <<needed, tlsSize, libraries, deps, modules, pos, order, met, size,
                 tlsOffset, next, image>>

Parse == parseExecutable \/ parseEgalito \/ parseLibraries \/ cannotOpen

-----------------------------------------------------------------------------
\* Conductor::allocateTLSArea
RoundUp(n) == ((n + Align - 1) \div Align) * Align

\* The regions of the modules until m together.
RECURSIVE SizeUntil(_)
SizeUntil(m) == IF m = 0 THEN HeaderSize ELSE tlsSize[modules[m]] + SizeUntil(m - 1)

TLSStart == -RoundUp(SizeUntil(Len(modules)))

allocateTLS ==
  /\ phase = "libraries" /\ pos > Len(libraries)
  /\ phase' = "tls" /\ pos' = 1 /\ next' = TLSStart
  /\ UNCHANGED <<needed, tlsSize, libraries, deps, modules, order, met, size,
                 tlsOffset, image>>

PlaceTLS(f) ==
  /\ tlsOffset' = Place(tlsOffset, f, next)
  /\ next' = next + tlsSize[f]

\* The executable is passed over in the loop and comes last.
assignTLS ==
  /\ phase = "tls" /\ pos <= Len(modules)
  /\ pos' = pos + 1
  /\ IF HasTLS(modules[pos]) /\ modules[pos] # Main
     THEN PlaceTLS(modules[pos])
     ELSE UNCHANGED <<tlsOffset, next>>
  /\ UNCHANGED <<needed, tlsSize, phase, libraries, deps, modules, order, met, size, image>>

assignMainTLS ==
  /\ phase = "tls" /\ pos > Len(modules)
  /\ phase' = "first" /\ pos' = 1
  /\ IF HasTLS(Main) THEN PlaceTLS(Main) ELSE UNCHANGED <<tlsOffset, next>>
  /\ UNCHANGED <<needed, tlsSize, libraries, deps, modules, order, met, size, image>>

TLS == allocateTLS \/ assignTLS \/ assignMainTLS

-----------------------------------------------------------------------------
\* CallInit::makeInitArray
OrderOnly == UNCHANGED <<needed, tlsSize, libraries, deps, modules, tlsOffset, next, image>>

\* libpthread comes first whatever it depends on.
First ==
  /\ phase = "first" /\ phase' = "sweep" /\ pos' = 1
  /\ IF Pthread \in ElementsOf(modules)
     THEN order' = <<Pthread>> /\ met' = {Pthread}
     ELSE UNCHANGED <<order, met>>
  /\ size' = Cardinality(met')
  /\ OrderOnly

\* Mutant: a library is ready when one of its dependencies is.
AllMetSome(f) == deps[f] = {} \/ \E d \in deps[f] : d \in met

AllMet(f) == \A d \in deps[f] : d \in met

Consider ==
  /\ phase = "sweep" /\ pos <= Len(modules)
  /\ pos' = pos + 1
  /\ LET f == modules[pos] IN
       IF f # Main /\ f \notin met /\ AllMet(f)
       THEN order' = Append(order, f) /\ met' = met \cup {f}
       ELSE UNCHANGED <<order, met>>
  /\ UNCHANGED <<phase, size>> /\ OrderOnly

\* Mutant: it is repeated as long as a library is left.
EndSweepNever ==
  /\ phase = "sweep" /\ pos > Len(modules)
  /\ pos' = 1 /\ size' = Cardinality(met)
  /\ phase' = IF ElementsOf(modules) \subseteq met \cup {Main} THEN "run" ELSE "sweep"
  /\ UNCHANGED <<order, met>> /\ OrderOnly

\* Sweep again until nothing changes; then every library must be met.
EndSweep ==
  /\ phase = "sweep" /\ pos > Len(modules)
  /\ pos' = 1 /\ size' = Cardinality(met)
  /\ phase' = CASE size # Cardinality(met) -> "sweep"
                [] ElementsOf(modules) \subseteq met \cup {Main} -> "run"
                [] OTHER -> "aborted"
  /\ UNCHANGED <<order, met>> /\ OrderOnly

InitArray == First \/ Consider \/ EndSweep

-----------------------------------------------------------------------------
\* Emulation::_dl_allocate_tls calls loadTLSDataFor for a new thread.
NewThread ==
  /\ phase = "run" /\ phase' = "thread"
  /\ pos' = 1 /\ next' = TLSStart /\ image' = << >>
  /\ UNCHANGED <<needed, tlsSize, libraries, deps, modules, order, met, size, tlsOffset>>

loadTLSDataFor ==
  /\ phase = "thread" /\ pos <= Len(modules)
  /\ pos' = pos + 1
  /\ IF HasTLS(modules[pos])
     THEN /\ image' = Place(image, modules[pos], next)
          /\ next' = next + tlsSize[modules[pos]]
     ELSE UNCHANGED <<image, next>>
  /\ UNCHANGED <<needed, tlsSize, phase, libraries, deps, modules, order, met, size, tlsOffset>>

ThreadReady ==
  /\ phase = "thread" /\ pos > Len(modules)
  /\ phase' = "run" /\ pos' = 1
  /\ UNCHANGED <<needed, tlsSize, libraries, deps, modules, order, met, size, tlsOffset,
                 next, image>>

Thread == NewThread \/ loadTLSDataFor \/ ThreadReady
Next == Parse \/ TLS \/ InitArray \/ Thread
Spec == Init /\ [][Next]_vars

\* The loader is one thread; whether threads are made is up to the program.
FairSpec == Spec /\ WF_vars(Parse \/ TLS \/ InitArray)

-----------------------------------------------------------------------------
Parsed == phase \notin {"executable", "egalito", "libraries", "failed"}

\* A set of files that holds all that its members need.
Closed(S) == \A f \in S : ElementsOf(needed[f]) \ NotLoaded \subseteq S

\* parseLibraries goes on until every library that is needed, however
\* indirectly, has a module, although the list grows while it iterates; none
\* has two, and nothing else is loaded.  It fails only for want of a file that
\* is needed.
LoadsWhatIsNeeded ==
  LET enough == {S \in SUBSET Files : {Main, Egalito} \subseteq S /\ Closed(S)}
  IN  /\ Parsed =>
           /\ Len(modules) = Cardinality(ElementsOf(modules))
           /\ ElementsOf(modules) \in enough
           /\ \A S \in enough : ElementsOf(modules) \subseteq S
      /\ phase = "failed" => \A S \in enough : S \cap Missing # {}

\* No module's constructors run before those of what it depends on, except
\* libpthread's; and never those of the executable, which runs them itself.
DependenciesFirst ==
  \A n \in 1..Len(order) :
    /\ order[n] # Main
    /\ order[n] # Pthread =>
         \A d \in ElementsOf(needed[order[n]]) \ NotLoaded :
           \E m \in 1..(n - 1) : order[m] = d

\* Libraries that wait for each other, or for the executable.
Cyclic ==
  \E S \in SUBSET (ElementsOf(modules) \ {Main, Pthread}) :
    S # {} /\ \A f \in S : (ElementsOf(needed[f]) \ NotLoaded) \cap (S \cup {Main}) # {}

\* The assertion "library dependency not met?" fails exactly when libraries
\* depend on each other in a cycle that libpthread does not break; otherwise
\* every module but the executable gets its place, once.
AbortsOnCycleOnly ==
  /\ phase = "aborted" => Cyclic
  /\ phase = "run" => /\ ~Cyclic
                      /\ Len(order) = Cardinality(ElementsOf(order))
                      /\ ElementsOf(order) = ElementsOf(modules) \ {Main}

\* The sweeps of makeInitArray come to an end, in the program or at the
\* assertion, if there is a file for every library.
StartsOrAborts == <>(phase \in {"run", "aborted", "failed"})

\* chunk/dataregion.h: tlsOffset is "the offset from the beginning of all TLS
\* data to this particular TLS region".  In a thread that the program creates
\* the initial data of every module are where its tlsOffset says.
ThreadFindsItsTLS ==
  phase = "run" /\ image # << >> => image = tlsOffset
=============================================================================
