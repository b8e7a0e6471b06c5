--------------------------- MODULE GSTableProofs ---------------------------
(***************************************************************************)
(* For any program: the hooks get the indices that hook code is written    *)
(* with, and the reserved entries are closed under what the reserved       *)
(* chunks refer to.  The inductive invariant says how far each loop has    *)
(* come: which hooks are entered, and that whatever makeRequiredEntries    *)
(* has scanned in this round is in the table or about to be entered.       *)
(***************************************************************************)
EXTENDS GSTable, TLAPS

\* All that a reference to t makes necessary is in S.
Covers(S, t) ==
  /\ t \in Functions \ Exempt => t \in S /\ Elements(JumpTables[t]) \subseteq S
  /\ t \in PLTs /\ Target[t] # NULL => {t, Target[t]} \subseteq S

\* The first n Instructions of x are covered by S.
Scanned(S, x, n) ==
  x \notin Labels => \A m \in 1..Len(code[x]) : m <= n => Covers(S, code[x][m].target)

Distinct == \A m, n \in 1..Len(entries) : entries[m] = entries[n] => m = n

\* How many hooks have been passed to makeResolvedEntryForFunction.
Taken == Len(Hooks) - Len(rest)

\* While hooks are entered, one at a time, in their order.
HooksSoFar ==
  phase = "hooks" =>
    /\ Len(rest) <= Len(Hooks)
    /\ \A n \in 1..Len(rest) : rest[n] = Hooks[Taken + n]
    /\ \A n \in 1..Len(Hooks) : n <= Taken /\ n <= Len(entries) => entries[n] = Hooks[n]
    /\ Taken < Len(Hooks) => Len(entries) + Len(todo) = Taken
    /\ Len(entries) < Taken =>
         Len(entries) = Taken - 1 /\ todo # << >> /\ todo[1] = Hooks[Taken]

HooksDone ==
  phase # "hooks" =>
    /\ Len(Hooks) <= Len(entries)
    /\ \A n \in 1..Len(Hooks) : entries[n] = Hooks[n]

Pending == Elements(entries) \cup Elements(todo)

\* What the round has seen is entered or pending.
RoundSoFar ==
  phase = "required" =>
    /\ \A n \in 1..Len(entries) : n < pos => Scanned(Pending, entries[n], Len(code[entries[n]]))
    /\ pos <= count => Scanned(Pending, entries[pos], k - 1)

SetupInv ==
  /\ TypeOK /\ Distinct /\ HooksSoFar /\ HooksDone /\ RoundSoFar
  /\ RuntimeSelfContained

\* Until then, nothing is reserved and nothing is converted.
NothingReserved ==
  phase \in {"hooks", "named", "required"} => reserved = 0 /\ at = NULL

\* Among the first n Instructions of x is one whose rewriting enters x.
Called(x, n) == \E m \in 1..Len(code[x]) : m <= n /\ EntersCaller(code[x][m])

\* A Function that UseGSTablePass has converted, or is converting, and that has
\* made a call is entered or pending.
CallersEntered ==
  \A x \in Functions : ~Skipped(x) =>
    /\ x \notin Elements(left) /\ x # at /\ Called(x, Len(code[x])) => x \in Pending
    /\ x = at /\ Called(x, k - 1) => x \in Pending

\* Once the array is filled, those Functions have slots that are not zero.
CallersFilled ==
  phase = "start" =>
    \A x \in Functions : ~Skipped(x) /\ Called(x, Len(code[x])) =>
      \E n \in 1..Len(entries) : entries[n] = x /\ array[n] # "zero"

\* How far MakeStart has come.
StartsSoFar ==
  IF phase = "start"
  THEN /\ Len(starts) + Len(rest) = Len(Starts)
       /\ \A n \in 1..Len(rest) : rest[n] = Starts[Len(starts) + n]
       /\ \A n \in 1..Len(starts) : entries[starts[n]] = Starts[n]
  ELSE starts = << >>

StartInv == CallersEntered /\ CallersFilled /\ StartsSoFar

-----------------------------------------------------------------------------
\* makeEntryFor keeps what is there, and enters its target once.
LEMMA EnteredFacts ==
  ASSUME NEW S, NEW s \in Seq(S), NEW x \in S
  PROVE  /\ Entered(s, x) \in Seq(S)
         /\ Len(s) <= Len(Entered(s, x))
         /\ \A n \in 1..Len(s) : Entered(s, x)[n] = s[n]
         /\ Elements(Entered(s, x)) = Elements(s) \cup {x}
         /\ x \notin Elements(s) =>
              Len(Entered(s, x)) = Len(s) + 1 /\ Entered(s, x)[Len(s) + 1] = x
         /\ x \in Elements(s) => Entered(s, x) = s
<1>1. CASE x \in Elements(s)
  BY <1>1 DEF Entered, Elements
<1>2. CASE x \notin Elements(s)
  <2>1. Entered(s, x) = Append(s, x)
    BY <1>2 DEF Entered
  <2>2. /\ Len(Append(s, x)) = Len(s) + 1
        /\ Append(s, x)[Len(s) + 1] = x
        /\ \A n \in 1..Len(s) : Append(s, x)[n] = s[n]
        /\ Append(s, x) \in Seq(S)
    OBVIOUS
  <2>3. Len(s) \in Nat
    OBVIOUS
  <2>4. Elements(Append(s, x)) = Elements(s) \cup {x}
    BY <2>2, <2>3 DEF Elements
  <2> QED
    BY <1>2, <2>1, <2>2, <2>3, <2>4
<1> QED
  BY <1>1, <1>2

\* The head of a list of chunks and the others.
LEMMA HeadAndTail ==
  ASSUME NEW S, NEW s \in Seq(S), s # << >>
  PROVE  /\ Head(s) \in S /\ Tail(s) \in Seq(S)
         /\ Head(s) = s[1] /\ Len(Tail(s)) = Len(s) - 1 /\ Len(s) > 0
         /\ \A n \in 1..Len(Tail(s)) : Tail(s)[n] = s[n + 1]
         /\ Elements(s) = {Head(s)} \cup Elements(Tail(s))
<1>1. /\ Head(s) \in S /\ Tail(s) \in Seq(S)
      /\ Head(s) = s[1] /\ Len(Tail(s)) = Len(s) - 1 /\ Len(s) > 0
      /\ \A n \in 1..Len(Tail(s)) : Tail(s)[n] = s[n + 1]
  OBVIOUS
<1>2. Len(s) \in Nat
  OBVIOUS
<1>3. ASSUME NEW e \in Elements(s) PROVE e \in {Head(s)} \cup Elements(Tail(s))
  <2>1. PICK n \in 1..Len(s) : e = s[n]
    BY <1>3 DEF Elements
  <2>2. CASE n = 1
    BY <2>1, <2>2, <1>1
  <2>3. CASE n # 1
    <3>1. n - 1 \in 1..Len(Tail(s)) /\ Tail(s)[n - 1] = s[n]
      BY <2>1, <2>3, <1>1, <1>2
    <3> QED
      BY <2>1, <3>1 DEF Elements
  <2> QED
    BY <2>2, <2>3
<1>4. ASSUME NEW e \in {Head(s)} \cup Elements(Tail(s)) PROVE e \in Elements(s)
  BY <1>1, <1>2 DEF Elements
<1> QED
  BY <1>1, <1>3, <1>4

\* A list of members of S is a list of members of a larger set.
LEMMA SeqWidens ==
  ASSUME NEW S, NEW T, S \subseteq T, NEW s \in Seq(S)
  PROVE  s \in Seq(T)
  OBVIOUS

\* What makeResolvedEntryForFunction enters covers a reference to f.
LEMMA ResolvedFacts ==
  ASSUME NEW f \in Functions
  PROVE  /\ Resolved(f) \in Seq(Chunks)
         /\ f \notin Exempt => /\ f \in Elements(Resolved(f))
                               /\ Elements(JumpTables[f]) \subseteq Elements(Resolved(f))
                               /\ Resolved(f) # << >> /\ Resolved(f)[1] = f
         /\ f \notin Exempt /\ JumpTables[f] = << >> => Len(Resolved(f)) = 1
<1>1. JumpTables[f] \in Seq(Chunks) /\ f \in Chunks
  BY GSTableAssumption DEF Chunks
<1> DEFINE J == JumpTables[f]
<1>2. J \in Seq(Chunks)
  BY <1>1
<1> HIDE DEF J
<1>3. /\ <<f>> \o J \in Seq(Chunks)
      /\ Len(<<f>> \o J) = Len(J) + 1
      /\ (<<f>> \o J)[1] = f
      /\ \A n \in 1..Len(J) : (<<f>> \o J)[n + 1] = J[n]
      /\ Len(J) \in Nat
  BY <1>1, <1>2
<1>4. Elements(J) \subseteq Elements(<<f>> \o J)
  <2> SUFFICES ASSUME NEW e \in Elements(J) PROVE e \in Elements(<<f>> \o J)
    OBVIOUS
  <2>1. PICK n \in 1..Len(J) : e = J[n]
    BY DEF Elements
  <2>2. n + 1 \in 1..Len(<<f>> \o J) /\ (<<f>> \o J)[n + 1] = e
    BY <1>3, <2>1
  <2> QED
    BY <2>2 DEF Elements
<1>5. f \in Elements(<<f>> \o J)
  <2>1. 1 \in 1..Len(<<f>> \o J)
    BY <1>3
  <2> QED
    BY <1>3, <2>1 DEF Elements
<1>6. CASE f \in Exempt
  BY <1>6 DEF Resolved
<1>7. CASE f \notin Exempt
  <2>1. Resolved(f) = <<f>> \o J
    BY <1>7 DEF Resolved, J
  <2>2. J = << >> => Len(J) = 0
    OBVIOUS
  <2> QED
    BY <2>1, <2>2, <1>3, <1>4, <1>5, <1>7 DEF J
<1> QED
  BY <1>6, <1>7

\* What makeRequiredEntriesFor enters covers the reference it has met.
LEMMA RequiredFacts ==
  ASSUME NEW t \in Functions \cup PLTs \cup {NULL}
  PROVE  Required(t) \in Seq(Chunks) /\ Covers(Elements(Required(t)), t)
<1>1. CASE t \in Functions
  <2>1. Required(t) = Resolved(t) /\ t \notin PLTs
    BY <1>1, GSTableAssumption DEF Required
  <2> QED
    BY <1>1, <2>1, ResolvedFacts DEF Covers
<1>2. CASE t \in PLTs
  <2>1. Required(t) = ResolvedPLT(t) /\ t \notin Functions
    BY <1>2, GSTableAssumption DEF Required
  <2>2. CASE Target[t] = NULL
    BY <2>1, <2>2 DEF ResolvedPLT, Covers
  <2>3. CASE Target[t] # NULL
    <3>1. ResolvedPLT(t) = <<t, Target[t]>> /\ t \in Chunks /\ Target[t] \in Chunks
      BY <1>2, <2>3, GSTableAssumption DEF ResolvedPLT, Chunks
    <3>2. Len(<<t, Target[t]>>) = 2 /\ 1 \in 1..2 /\ 2 \in 1..2
      OBVIOUS
    <3>3. {t, Target[t]} \subseteq Elements(<<t, Target[t]>>)
      BY <3>2 DEF Elements
    <3> QED
      BY <2>1, <3>1, <3>3 DEF Covers
  <2> QED
    BY <2>2, <2>3
<1>3. CASE t = NULL
  <2>1. t \notin Functions /\ t \notin PLTs
    BY <1>3, GSTableAssumption DEF Chunks
  <2> QED
    BY <2>1 DEF Required, Covers
<1> QED
  BY <1>1, <1>2, <1>3

\* What is covered stays covered when there is more.
LEMMA ScannedGrows ==
  ASSUME NEW S, NEW T, NEW x, NEW n, S \subseteq T, Scanned(S, x, n)
  PROVE  Scanned(T, x, n)
  BY DEF Scanned, Covers

-----------------------------------------------------------------------------
\* The hooks are a list of Functions that are not exempt.
LEMMA HooksType ==
  Hooks \in Seq(Functions \ Exempt) /\ Hooks \in Seq(Functions) /\ Len(Hooks) \in Nat
  BY GSTableAssumption

\* The loader starts in a state that satisfies the invariant.
LEMMA InitInv ==
  Init => SetupInv
<1> SUFFICES ASSUME Init PROVE SetupInv
  OBVIOUS
<1>1. TypeOK
  <2>1. Hooks \in Seq(Functions) /\ Len(Hooks) \in Nat
    BY GSTableAssumption
  <2>2. /\ entries = << >> /\ todo = << >> /\ starts = << >> /\ left = Order /\ rest = Hooks
        /\ phase = "hooks" /\ at = NULL /\ reserved = 0 /\ count = 0 /\ pos = 1 /\ k = 1
        /\ code \in Programs
    BY DEF Init
  <2>3. Order \in Seq(Functions \cup PLTs)
    BY GSTableAssumption
  <2> QED
    BY <2>1, <2>2, <2>3 DEF TypeOK
<1>2. Distinct /\ HooksDone /\ RoundSoFar /\ RuntimeSelfContained
  BY DEF Init, Distinct, HooksDone, RoundSoFar, RuntimeSelfContained
<1>3. HooksSoFar
  <2>1. Hooks \in Seq(Functions) /\ Len(Hooks) \in Nat /\ rest = Hooks /\ entries = << >> /\ todo = << >>
    BY GSTableAssumption DEF Init
  <2>2. Taken = 0 /\ Len(entries) = 0 /\ Len(todo) = 0
    BY <2>1 DEF Taken
  <2> QED
    BY <2>1, <2>2 DEF HooksSoFar
<1> QED
  BY <1>1, <1>2, <1>3 DEF SetupInv

\* The chunks and Instructions that the loops look at exist.
LEMMA CodeFacts ==
  ASSUME TypeOK, NEW x \in Functions \cup PLTs
  PROVE  /\ code[x] \in Seq(Instrs) /\ Len(code[x]) \in Nat
         /\ \A n \in 1..Len(code[x]) : code[x][n].target \in Functions \cup PLTs \cup {NULL}
<1>1. code \in [Functions \cup PLTs -> Seq(Instrs)]
  BY GSTableAssumption DEF TypeOK
<1>2. code[x] \in Seq(Instrs)
  BY <1>1
<1>3. \A n \in 1..Len(code[x]) : code[x][n] \in Instrs
  BY <1>2
<1> QED
  BY <1>2, <1>3 DEF Instrs

\* Every step preserves the types.
LEMMA TypeStep ==
  ASSUME TypeOK, [Next]_vars
  PROVE  TypeOK'
<1> USE DEF TypeOK
<1>0. /\ Len(entries) \in Nat /\ Functions \subseteq Chunks /\ Labels \subseteq Chunks
      /\ Seq(Functions) \subseteq Seq(Chunks)
  BY DEF Chunks
<1>1. CASE makeEntryFor
  <2>1. Head(todo) \in Chunks /\ Tail(todo) \in Seq(Chunks)
    BY <1>1, HeadAndTail DEF makeEntryFor
  <2>2. entries' \in Seq(Chunks) /\ Len(entries) <= Len(entries')
    BY <1>1, <2>1, EnteredFacts DEF makeEntryFor
  <2>3. starts \in Seq(1..Len(entries'))
    <3>1. Len(entries') \in Nat /\ 1..Len(entries) \subseteq 1..Len(entries')
      BY <2>2, <1>0
    <3> QED
      BY <3>1, SeqWidens
  <2>4. Len(entries') \in Nat
    BY <2>2
  <2> QED
    BY <1>1, <2>1, <2>2, <2>3, <2>4, <1>0 DEF makeEntryFor
<1>2. CASE makeResolvedEntry
  <2>1. Head(rest) \in Functions /\ Tail(rest) \in Seq(Functions)
    BY <1>2, HeadAndTail DEF makeResolvedEntry
  <2>2. todo' \in Seq(Chunks)
    BY <1>2, <2>1, ResolvedFacts DEF makeResolvedEntry
  <2> QED
    BY <1>2, <2>1, <2>2 DEF makeResolvedEntry
<1>3. CASE EndHooks
  BY <1>3, GSTableAssumption DEF EndHooks
<1>4. CASE StartRounds
  BY <1>4, <1>0 DEF StartRounds
<1>5. CASE makeRequiredEntriesFor
  <2>1. CASE k <= Len(InstrsOf(entries[pos]))
    <3>1. entries[pos] \in Chunks
      BY <1>5 DEF makeRequiredEntriesFor
    <3>2. entries[pos] \in Functions \cup PLTs
      <4>1. entries[pos] \notin Labels
        <5> SUFFICES ASSUME entries[pos] \in Labels PROVE FALSE
          OBVIOUS
        <5>1. Len(InstrsOf(entries[pos])) = 0
          BY DEF InstrsOf
        <5> QED
          BY <5>1, <2>1
      <4> QED
        BY <3>1, <4>1 DEF Chunks
    <3>3. code[entries[pos]][k].target \in Functions \cup PLTs \cup {NULL}
      <4>1. k \in 1..Len(code[entries[pos]])
        BY <2>1, <3>2, CodeFacts, GSTableAssumption DEF InstrsOf
      <4> QED
        BY <4>1, <3>2, CodeFacts
    <3>4. todo' \in Seq(Chunks)
      BY <1>5, <2>1, <3>3, RequiredFacts DEF makeRequiredEntriesFor
    <3> QED
      BY <1>5, <2>1, <3>4 DEF makeRequiredEntriesFor
  <2>2. CASE ~(k <= Len(InstrsOf(entries[pos])))
    BY <1>5, <2>2 DEF makeRequiredEntriesFor
  <2> QED
    BY <2>1, <2>2
<1>6. CASE EndRound
  <2>1. Pointers \in Seq(Functions)
    BY GSTableAssumption
  <2>2. CASE count # Len(entries)
    BY <1>6, <1>0, <2>2 DEF EndRound
  <2>3. CASE count = Len(entries)
    BY <1>6, <1>0, <2>1, <2>3 DEF EndRound
  <2> QED
    BY <2>2, <2>3
<1>7. CASE Visit
  <2>1. Head(left) \in Functions \cup PLTs /\ Tail(left) \in Seq(Functions \cup PLTs)
    BY <1>7, HeadAndTail DEF Visit
  <2> QED
    BY <1>7, <2>1 DEF Visit, Rewriting
<1>8. CASE convert
  <2>1. CASE k <= Len(code[at])
    <3>1. at \in Functions \cup PLTs
      BY <1>8 DEF convert
    <3>2. at \in Chunks /\ code[at][k].target \in Functions \cup PLTs \cup {NULL}
      <4>1. k \in 1..Len(code[at])
        BY <2>1, <3>1, CodeFacts
      <4> QED
        BY <4>1, <3>1, CodeFacts DEF Chunks
    <3>3. EntriesFor(at, code[at][k]) \in Seq(Chunks)
      <4> DEFINE instr == code[at][k]
      <4>1. instr.target # NULL => instr.target \in Chunks
        BY <3>2 DEF Chunks
      <4>2. <<at>> \in Seq(Chunks) /\ << >> \in Seq(Chunks)
        BY <3>2
      <4>3. instr.target # NULL =>
              <<instr.target>> \in Seq(Chunks) /\ <<instr.target, at>> \in Seq(Chunks)
        BY <3>2, <4>1
      <4> HIDE DEF instr
      <4> QED
        BY <4>2, <4>3 DEF EntriesFor, instr
    <3> QED
      BY <1>8, <2>1, <3>3 DEF convert
  <2>2. CASE ~(k <= Len(code[at]))
    <3>1. \A f \in Functions : JumpTables[f] \in Seq(Chunks)
      BY GSTableAssumption DEF Chunks
    <3>2. todo' \in Seq(Chunks) /\ at' = NULL
      <4>1. << >> \in Seq(Chunks)
        OBVIOUS
      <4>2. /\ todo' = IF at \in Functions THEN JumpTables[at] ELSE << >>
            /\ at' = NULL
        BY <1>8, <2>2 DEF convert
      <4> QED
        BY <3>1, <4>1, <4>2
    <3>3. UNCHANGED <<code, phase, rest, left, entries, reserved, count, pos, k, starts>>
      BY <1>8, <2>2 DEF convert
    <3> QED
      BY <3>2, <3>3
  <2> QED
    BY <2>1, <2>2
<1>9. CASE RedirectPointer
  <2>1. Head(rest) \in Functions /\ Tail(rest) \in Seq(Functions)
    BY <1>9, HeadAndTail DEF RedirectPointer
  <2>2. <<Head(rest)>> \in Seq(Chunks)
    BY <2>1, <1>0
  <2> QED
    BY <1>9, <2>1, <2>2 DEF RedirectPointer
<1>10. CASE InitGS
  BY <1>10, GSTableAssumption DEF InitGS
<1>11. CASE MakeStart
  <2>1. Head(rest) \in Functions /\ Head(rest) \in Chunks /\ Tail(rest) \in Seq(Functions)
    BY <1>11, <1>0, HeadAndTail DEF MakeStart
  <2>2. /\ entries' \in Seq(Chunks) /\ Len(entries) <= Len(entries')
        /\ Head(rest) \in Elements(entries')
    <3>1. entries' = Entered(entries, Head(rest)) /\ entries \in Seq(Chunks)
      BY <1>11 DEF MakeStart
    <3> DEFINE x == Head(rest)
    <3>2. x \in Chunks /\ entries' = Entered(entries, x)
      BY <2>1, <3>1
    <3> HIDE DEF x
    <3>3. /\ Entered(entries, x) \in Seq(Chunks)
          /\ Len(entries) <= Len(Entered(entries, x))
          /\ Elements(Entered(entries, x)) = Elements(entries) \cup {x}
      <4>1. entries \in Seq(Chunks) /\ x \in Chunks
        BY <3>1, <3>2
      <4> HIDE DEF TypeOK
      <4> QED
        BY ONLY <4>1, EnteredFacts
    <3> QED
      BY <3>2, <3>3 DEF x
  <2>3. IndexOf(entries', Head(rest)) \in 1..Len(entries')
    BY <2>2 DEF Elements, IndexOf
  <2>4. starts \in Seq(1..Len(entries'))
    <3>1. Len(entries') \in Nat /\ 1..Len(entries) \subseteq 1..Len(entries')
      BY <2>2, <1>0
    <3> QED
      BY <3>1, SeqWidens
  <2>5. starts' \in Seq(1..Len(entries'))
    BY <1>11, <2>3, <2>4 DEF MakeStart
  <2>6. Len(entries') \in Nat
    BY <2>2
  <2> QED
    BY <1>11, <1>0, <2>1, <2>2, <2>5, <2>6 DEF MakeStart
<1>12. CASE UNCHANGED vars
  BY <1>12 DEF vars
<1>13. CASE NameNotFound \/ RefusePointer
  BY <1>13 DEF NameNotFound, RefusePointer
<1> QED
  BY <1>1, <1>2, <1>3, <1>4, <1>5, <1>6, <1>7, <1>8, <1>9, <1>10, <1>11, <1>12, <1>13
  DEF Next, Setup, UseGS, Boot

-----------------------------------------------------------------------------
\* The reserved chunks stay what they are when the table only grows.
LEMMA RuntimeKept ==
  ASSUME TypeOK, RuntimeSelfContained,
         \A n \in 1..Len(entries) : entries'[n] = entries[n],
         UNCHANGED <<reserved, code>>,
         phase' \notin {"hooks", "named", "required"} =>
           phase \notin {"hooks", "named", "required"}
  PROVE  RuntimeSelfContained'
<1>1. Runtime' = Runtime
  <2>1. \A n \in 1..reserved : entries'[n] = entries[n]
    BY DEF TypeOK
  <2> QED
    BY <2>1 DEF Runtime
<1> QED
  BY <1>1 DEF RuntimeSelfContained

\* An entry made for a chunk in todo leaves entries and todo together as they
\* were.
LEMMA EntryStep ==
  ASSUME SetupInv, makeEntryFor, TypeOK'
  PROVE  SetupInv'
<1> DEFINE x == Head(todo)
<1>0. TypeOK /\ Distinct /\ HooksSoFar /\ HooksDone /\ RoundSoFar /\ RuntimeSelfContained
  BY DEF SetupInv
<1>1. /\ todo \in Seq(Chunks) /\ todo # << >> /\ entries \in Seq(Chunks)
      /\ entries' = Entered(entries, x) /\ todo' = Tail(todo)
      /\ UNCHANGED <<code, phase, rest, reserved, count, pos, k>>
  BY <1>0 DEF TypeOK, makeEntryFor
<1>2. /\ x \in Chunks /\ x = todo[1] /\ Len(todo') = Len(todo) - 1 /\ Len(todo) > 0
      /\ Elements(todo) = {x} \cup Elements(todo')
  BY ONLY <1>1, HeadAndTail
<1> HIDE DEF x
<1>3. /\ entries' \in Seq(Chunks)
      /\ Len(entries) <= Len(entries')
      /\ \A n \in 1..Len(entries) : entries'[n] = entries[n]
      /\ Elements(entries') = Elements(entries) \cup {x}
      /\ x \notin Elements(entries) =>
           Len(entries') = Len(entries) + 1 /\ entries'[Len(entries) + 1] = x
      /\ x \in Elements(entries) => entries' = entries
  <2>1. entries \in Seq(Chunks) /\ x \in Chunks
    BY <1>1, <1>2
  <2>2. /\ Entered(entries, x) \in Seq(Chunks)
        /\ Len(entries) <= Len(Entered(entries, x))
        /\ \A n \in 1..Len(entries) : Entered(entries, x)[n] = entries[n]
        /\ Elements(Entered(entries, x)) = Elements(entries) \cup {x}
        /\ x \notin Elements(entries) =>
             /\ Len(Entered(entries, x)) = Len(entries) + 1
             /\ Entered(entries, x)[Len(entries) + 1] = x
        /\ x \in Elements(entries) => Entered(entries, x) = entries
    BY ONLY <2>1, EnteredFacts
  <2> QED
    BY <1>1, <2>2
<1>4. Len(entries) \in Nat /\ Len(todo) \in Nat /\ Len(entries') \in Nat /\ Len(rest) \in Nat
      /\ Len(Hooks) \in Nat
  BY <1>0, <1>1, <1>3, HooksType DEF TypeOK
<1>5. Distinct'
  <2>1. CASE x \in Elements(entries)
    BY <1>0, <1>3, <2>1 DEF Distinct
  <2>2. CASE x \notin Elements(entries)
    <3>1. \A n \in 1..Len(entries) : entries[n] # x
      BY <2>2 DEF Elements
    <3> QED
      BY <1>0, <1>3, <1>4, <2>2, <3>1 DEF Distinct
  <2> QED
    BY <2>1, <2>2
<1>6. HooksSoFar'
  <2>0. phase # "hooks" => HooksSoFar'
    <3>1. phase' = phase
      BY <1>1
    <3> QED
      BY <3>1 DEF HooksSoFar
  <2> SUFFICES ASSUME phase = "hooks" PROVE HooksSoFar'
    BY <2>0
  <2>1. Taken' = Taken /\ Taken \in Int
    BY <1>1, <1>4 DEF Taken
  <2>2. /\ Len(rest) <= Len(Hooks)
        /\ \A n \in 1..Len(rest) : rest[n] = Hooks[Taken + n]
        /\ \A n \in 1..Len(Hooks) : n <= Taken /\ n <= Len(entries) => entries[n] = Hooks[n]
        /\ Taken < Len(Hooks) => Len(entries) + Len(todo) = Taken
        /\ Len(entries) < Taken =>
             Len(entries) = Taken - 1 /\ todo # << >> /\ todo[1] = Hooks[Taken]
    BY <1>0 DEF HooksSoFar
  <2>3. CASE Len(entries) < Taken
    <3>1. Len(entries) = Taken - 1 /\ x = Hooks[Taken] /\ Taken \in 1..Len(Hooks)
      BY <2>1, <2>2, <2>3, <1>2, <1>4 DEF Taken
    <3>2. x \notin Elements(entries)
      <4> SUFFICES ASSUME NEW n \in 1..Len(entries), entries[n] = x PROVE FALSE
        BY DEF Elements
      <4>1. n \in 1..Len(Hooks) /\ n < Taken /\ entries[n] = Hooks[n]
        BY <2>2, <3>1, <1>4
      <4>2. Hooks[n] = Hooks[Taken] => n = Taken
        BY <3>1, <4>1, GSTableAssumption
      <4> QED
        BY <3>1, <4>1, <4>2
    <3>3. Len(entries') = Taken /\ entries'[Taken] = Hooks[Taken]
      BY <3>1, <3>2, <1>3, <1>4
    <3>4. \A n \in 1..Len(Hooks) : n <= Taken /\ n <= Len(entries') => entries'[n] = Hooks[n]
      BY <2>2, <3>1, <3>3, <1>3, <1>4
    <3>5. Taken < Len(Hooks) => Len(entries') + Len(todo') = Taken
      BY <2>2, <3>1, <3>3, <1>2, <1>4
    <3> QED
      BY <1>1, <2>1, <2>2, <3>3, <3>4, <3>5 DEF HooksSoFar
  <2>4. CASE ~(Len(entries) < Taken)
    <3>1. ~(Taken < Len(Hooks))
      BY <2>1, <2>2, <2>4, <1>2, <1>4
    <3>2. \A n \in 1..Len(Hooks) : n <= Taken /\ n <= Len(entries') => entries'[n] = Hooks[n]
      BY <2>1, <2>2, <2>4, <1>3, <1>4
    <3>3. ~(Len(entries') < Taken)
      BY <2>1, <2>4, <1>3, <1>4
    <3> QED
      BY <1>1, <2>1, <2>2, <3>1, <3>2, <3>3 DEF HooksSoFar
  <2> QED
    BY <2>3, <2>4
<1>7. HooksDone'
  BY <1>0, <1>1, <1>3, <1>4 DEF HooksDone
<1>8. Pending' = Pending
  BY <1>2, <1>3 DEF Pending
<1>9. RoundSoFar'
  <2> SUFFICES ASSUME phase = "required" PROVE RoundSoFar'
    BY <1>1 DEF RoundSoFar
  <2>1. /\ \A n \in 1..Len(entries) : n < pos => Scanned(Pending, entries[n], Len(code[entries[n]]))
        /\ pos <= count => Scanned(Pending, entries[pos], k - 1)
        /\ count \in 0..Len(entries) /\ pos \in 1..(count + 1)
    BY <1>0 DEF RoundSoFar, TypeOK
  <2>2. \A S, y, n : Scanned(S, y, n)' <=> Scanned(S, y, n)
    BY <1>1 DEF Scanned
  <2>3. \A n \in 1..Len(entries') : n < pos =>
          Scanned(Pending, entries'[n], Len(code[entries'[n]]))
    <3> SUFFICES ASSUME NEW n \in 1..Len(entries'), n < pos
                 PROVE  Scanned(Pending, entries'[n], Len(code[entries'[n]]))
      OBVIOUS
    <3>1. n \in 1..Len(entries)
      BY ONLY <1>4, <2>1, n \in 1..Len(entries'), n < pos
    <3>2. entries'[n] = entries[n]
      BY ONLY <1>3, <3>1
    <3> QED
      BY ONLY <2>1, <3>1, <3>2, n < pos, Zenon
  <2>4. pos <= count => Scanned(Pending, entries'[pos], k - 1)
    BY ONLY <2>1, <1>3, <1>4
  <2> QED
    BY <1>1, <1>8, <2>2, <2>3, <2>4 DEF RoundSoFar, Scanned
<1>10. RuntimeSelfContained'
  BY <1>0, <1>1, <1>3, RuntimeKept
<1> QED
  BY <1>5, <1>6, <1>7, <1>9, <1>10 DEF SetupInv

\* A name is looked up, and the Functions that have it are to be entered.
LEMMA NameStep ==
  ASSUME SetupInv, makeResolvedEntry, TypeOK'
  PROVE  SetupInv'
<1>0. TypeOK /\ Distinct /\ HooksSoFar /\ HooksDone /\ RoundSoFar /\ RuntimeSelfContained
  BY DEF SetupInv
<1>1. /\ phase \in {"hooks", "named"} /\ todo = << >> /\ rest # << >>
      /\ todo' = Resolved(Head(rest)) /\ rest' = Tail(rest)
      /\ rest \in Seq(Functions)
      /\ UNCHANGED <<code, phase, entries, reserved, count, pos, k>>
  BY <1>0 DEF makeResolvedEntry, TypeOK
<1>2. /\ Head(rest) = rest[1] /\ Len(rest') = Len(rest) - 1 /\ Len(rest) > 0
      /\ Head(rest) \in Functions
      /\ \A n \in 1..Len(rest') : rest'[n] = rest[n + 1]
  BY ONLY <1>1, HeadAndTail
<1>3. Len(rest) \in Nat /\ Len(entries) \in Nat /\ Len(Hooks) \in Nat /\ Len(todo) = 0
  BY <1>0, <1>1, HooksType DEF TypeOK
<1>4. Distinct' /\ HooksDone' /\ RoundSoFar'
  BY <1>0, <1>1 DEF Distinct, HooksDone, RoundSoFar
<1>5. RuntimeSelfContained'
  BY <1>0, <1>1, RuntimeKept
<1>6. HooksSoFar'
  <2>0. phase # "hooks" => HooksSoFar'
    <3>1. phase' = phase
      BY <1>1
    <3> QED
      BY <3>1 DEF HooksSoFar
  <2> SUFFICES ASSUME phase = "hooks" PROVE HooksSoFar'
    BY <2>0
  <2>1. Taken' = Taken + 1 /\ Taken \in Int
    BY <1>2, <1>3 DEF Taken
  <2>2. /\ Len(rest) <= Len(Hooks)
        /\ \A n \in 1..Len(rest) : rest[n] = Hooks[Taken + n]
        /\ \A n \in 1..Len(Hooks) : n <= Taken /\ n <= Len(entries) => entries[n] = Hooks[n]
        /\ Taken < Len(Hooks) => Len(entries) + Len(todo) = Taken
    BY <1>0 DEF HooksSoFar
  <2>3. Len(entries) = Taken /\ Taken + 1 \in 1..Len(Hooks)
    BY <2>1, <2>2, <1>2, <1>3 DEF Taken
  <2>4. Head(rest) = Hooks[Taken + 1] /\ Head(rest) \notin Exempt
    <3>1. 1 \in 1..Len(rest) /\ Hooks[Taken + 1] \in Functions \ Exempt
      BY <1>2, <1>3, <2>3, GSTableAssumption
    <3> QED
      BY <3>1, <2>2, <1>2
  <2>5. todo' # << >> /\ todo'[1] = Hooks[Taken + 1]
    BY <1>1, <1>2, <2>4, ResolvedFacts
  <2>6. Taken + 1 < Len(Hooks) => Len(todo') = 1
    <3> SUFFICES ASSUME Taken + 1 < Len(Hooks) PROVE Len(todo') = 1
      OBVIOUS
    <3>1. JumpTables[Hooks[Taken + 1]] = << >>
      BY <2>1, <2>3, <1>3, HooksAssumption
    <3> QED
      BY <3>1, <1>1, <1>2, <2>4, ResolvedFacts
  <2>7. \A n \in 1..Len(rest') : rest'[n] = Hooks[Taken' + n]
    <3> SUFFICES ASSUME NEW n \in 1..Len(rest') PROVE rest'[n] = Hooks[Taken' + n]
      OBVIOUS
    <3>1. n + 1 \in 1..Len(rest) /\ Taken + (n + 1) = Taken' + n
      BY <1>2, <1>3, <2>1
    <3> QED
      BY <3>1, <1>2, <2>2
  <2>8. \A n \in 1..Len(Hooks) : n <= Taken' /\ n <= Len(entries) => entries[n] = Hooks[n]
    BY <2>1, <2>2, <2>3, <1>3
  <2>9. /\ Len(rest') <= Len(Hooks)
        /\ Taken' < Len(Hooks) => Len(entries) + Len(todo') = Taken'
        /\ Len(entries) = Taken' - 1
    <3>1. Taken' < Len(Hooks) => Len(todo') = 1
      BY <2>1, <2>6
    <3>2. /\ Len(rest') = Len(rest) - 1 /\ Len(rest) <= Len(Hooks)
          /\ Len(entries) = Taken /\ Taken' = Taken + 1 /\ Taken \in Int
          /\ Len(rest) \in Nat /\ Len(Hooks) \in Nat
      BY <1>2, <1>3, <2>1, <2>2, <2>3
    <3>3. Len(rest') <= Len(Hooks)
      BY ONLY <3>2
    <3>4. Len(entries) = Taken' - 1
      BY ONLY <3>2
    <3>5. ASSUME Taken' < Len(Hooks) PROVE Len(entries) + Len(todo') = Taken'
      <4>1. Len(todo') = 1
        BY <3>1, <3>5
      <4> QED
        BY ONLY <3>2, <4>1
    <3> QED
      BY <3>3, <3>4, <3>5
  <2> QED
    BY <1>1, <2>1, <2>5, <2>7, <2>8, <2>9 DEF HooksSoFar
<1> QED
  BY <1>4, <1>5, <1>6 DEF SetupInv

\* Nothing is reserved when a name is not found.
LEMMA NoNameStep ==
  ASSUME SetupInv, NothingReserved, NameNotFound, TypeOK'
  PROVE  SetupInv'
<1>0. TypeOK /\ Distinct /\ HooksDone
  BY DEF SetupInv
<1>1. /\ phase = "named" /\ phase' = "aborted" /\ reserved' = 0
      /\ UNCHANGED <<code, entries>>
  BY DEF NameNotFound, NothingReserved
<1>2. Distinct' /\ HooksSoFar' /\ HooksDone' /\ RoundSoFar'
  BY <1>0, <1>1 DEF Distinct, HooksSoFar, HooksDone, RoundSoFar
<1>3. Runtime' = {}
  BY <1>1 DEF Runtime
<1> QED
  BY <1>2, <1>3 DEF SetupInv, RuntimeSelfContained

\* The last hook has been entered.
LEMMA EndHooksStep ==
  ASSUME SetupInv, EndHooks, TypeOK'
  PROVE  SetupInv'
<1>0. TypeOK /\ Distinct /\ HooksSoFar /\ RuntimeSelfContained
  BY DEF SetupInv
<1>1. /\ phase = "hooks" /\ phase' = "named" /\ todo = << >> /\ rest = << >>
      /\ UNCHANGED <<code, entries, reserved>>
  BY DEF EndHooks
<1>2. Len(entries) \in Nat /\ Len(Hooks) \in Nat /\ Taken = Len(Hooks)
  <2>1. Len(rest) = 0
    BY <1>1
  <2> QED
    BY <1>0, <2>1, HooksType DEF TypeOK, Taken
<1>3. HooksDone'
  <2>1. /\ \A n \in 1..Len(Hooks) : n <= Taken /\ n <= Len(entries) => entries[n] = Hooks[n]
        /\ ~(Len(entries) < Taken)
    BY <1>0, <1>1 DEF HooksSoFar
  <2>2. /\ Len(Hooks) <= Len(entries)
        /\ \A n \in 1..Len(Hooks) : entries[n] = Hooks[n]
    BY <2>1, <1>2
  <2> QED
    BY <2>2, <1>1 DEF HooksDone
<1>4. Distinct' /\ HooksSoFar' /\ RoundSoFar' /\ RuntimeSelfContained'
  BY <1>0, <1>1 DEF Distinct, HooksSoFar, RoundSoFar, RuntimeSelfContained
<1> QED
  BY <1>3, <1>4 DEF SetupInv

\* The rounds begin with nothing scanned.
LEMMA StartRoundsStep ==
  ASSUME SetupInv, StartRounds, TypeOK'
  PROVE  SetupInv'
<1>0. TypeOK /\ Distinct /\ HooksDone /\ RuntimeSelfContained
  BY DEF SetupInv
<1>1. /\ phase = "named" /\ phase' = "required" /\ pos' = 1 /\ k' = 1
      /\ UNCHANGED <<code, entries, reserved>>
  BY DEF StartRounds
<1>2. Distinct' /\ HooksSoFar' /\ HooksDone' /\ RuntimeSelfContained'
  BY <1>0, <1>1 DEF Distinct, HooksSoFar, HooksDone, RuntimeSelfContained
<1>3. RoundSoFar'
  BY <1>1 DEF RoundSoFar, Scanned
<1> QED
  BY <1>2, <1>3 DEF SetupInv

\* One more Instruction of a reserved chunk is scanned, or one more chunk.
LEMMA ScanStep ==
  ASSUME SetupInv, makeRequiredEntriesFor, TypeOK'
  PROVE  SetupInv'
<1> DEFINE x == entries[pos]
<1>0. TypeOK /\ Distinct /\ HooksDone /\ RoundSoFar /\ RuntimeSelfContained
  BY DEF SetupInv
<1>1. /\ phase = "required" /\ todo = << >> /\ pos <= count
      /\ UNCHANGED <<code, phase, entries, reserved, count>>
  BY DEF makeRequiredEntriesFor
<1>2. /\ pos \in 1..Len(entries) /\ x \in Chunks /\ k \in Nat \ {0} /\ count \in Nat
      /\ Len(entries) \in Nat /\ count <= Len(entries)
  <2>1. /\ entries \in Seq(Chunks) /\ count \in 0..Len(entries)
        /\ pos \in 1..(count + 1) /\ k \in Nat \ {0}
    BY <1>0 DEF TypeOK
  <2>2. Len(entries) \in Nat
    BY <2>1
  <2>3. count \in Nat /\ count <= Len(entries) /\ pos \in 1..Len(entries)
    BY <2>1, <2>2, <1>1
  <2>4. x \in Chunks
    BY <2>1, <2>3
  <2> QED
    BY <2>1, <2>2, <2>3, <2>4
<1>3. Distinct' /\ HooksSoFar' /\ HooksDone' /\ RuntimeSelfContained'
  BY <1>0, <1>1 DEF Distinct, HooksSoFar, HooksDone, RuntimeSelfContained, Runtime
<1>4. /\ \A n \in 1..Len(entries) : n < pos => Scanned(Pending, entries[n], Len(code[entries[n]]))
      /\ Scanned(Pending, x, k - 1)
  BY <1>0, <1>1 DEF RoundSoFar
<1>5. Elements(todo) = {}
  BY <1>1 DEF Elements
<1>6. Pending \subseteq Pending'
  BY <1>1, <1>5 DEF Pending
<1>7. \A n \in 1..Len(entries) : n < pos => Scanned(Pending', entries[n], Len(code[entries[n]]))
  BY <1>4, <1>6, ScannedGrows
<1>8. CASE k <= Len(InstrsOf(x))
  <2>1. x \notin Labels
    <3> SUFFICES ASSUME x \in Labels PROVE FALSE
      OBVIOUS
    <3>1. Len(InstrsOf(x)) = 0
      BY DEF InstrsOf
    <3> QED
      BY <3>1, <1>8, <1>2
  <2>2. x \in Functions \cup PLTs /\ InstrsOf(x) = code[x]
    BY <2>1, <1>2 DEF Chunks, InstrsOf
  <2>3. k \in 1..Len(code[x]) /\ Len(code[x]) \in Nat
    BY <1>0, <1>2, <1>8, <2>2, CodeFacts
  <2>4. code[x][k].target \in Functions \cup PLTs \cup {NULL}
    BY <1>0, <2>2, <2>3, CodeFacts
  <2>5. /\ todo' = Required(code[x][k].target) /\ k' = k + 1 /\ pos' = pos
    BY <1>8 DEF makeRequiredEntriesFor
  <2>6. Covers(Pending', code[x][k].target)
    <3>1. Covers(Elements(todo'), code[x][k].target)
      BY <2>4, <2>5, RequiredFacts
    <3> QED
      BY <3>1 DEF Covers, Pending
  <2>7. Scanned(Pending', x, k)
    <3>1. \A m \in 1..Len(code[x]) : m <= k - 1 => Covers(Pending', code[x][m].target)
      <4>1. Scanned(Pending', x, k - 1)
        BY <1>4, <1>6, ScannedGrows
      <4> QED
        BY <4>1, <2>1 DEF Scanned
    <3>2. \A m \in 1..Len(code[x]) : m <= k => m <= k - 1 \/ m = k
      BY <1>2, <2>3
    <3> QED
      BY <3>1, <3>2, <2>6 DEF Scanned
  <2>8. RoundSoFar'
    <3>1. k' - 1 = k
      BY <2>5, <1>2
    <3>2. (\A n \in 1..Len(entries) : n < pos => Scanned(Pending, entries[n], Len(code[entries[n]])))'
      BY <1>1, <1>7, <2>5 DEF Scanned
    <3>3. Scanned(Pending, entries[pos], k - 1)'
      BY <1>1, <2>5, <2>7, <3>1 DEF Scanned
    <3> QED
      BY <3>2, <3>3 DEF RoundSoFar
  <2> QED
    BY <1>3, <2>8 DEF SetupInv
<1>9. CASE ~(k <= Len(InstrsOf(x)))
  <2>1. todo' = todo /\ k' = 1 /\ pos' = pos + 1
    BY <1>9 DEF makeRequiredEntriesFor
  <2>2. Scanned(Pending', x, Len(code[x]))
    <3>1. CASE x \in Labels
      BY <3>1 DEF Scanned
    <3>2. CASE x \notin Labels
      <4>1. x \in Functions \cup PLTs /\ InstrsOf(x) = code[x]
        BY <3>2, <1>2 DEF Chunks, InstrsOf
      <4>2. Len(code[x]) \in Nat /\ Len(code[x]) <= k - 1
        BY <4>1, <1>0, <1>2, <1>9, CodeFacts
      <4>3. \A m \in 1..Len(code[x]) : m <= k - 1
        BY <4>2, <1>2
      <4>4. Scanned(Pending', x, k - 1)
        BY <1>4, <1>6, ScannedGrows
      <4> QED
        BY <4>3, <4>4 DEF Scanned
    <3> QED
      BY <3>1, <3>2
  <2>3. \A n \in 1..Len(entries) : n < pos' => Scanned(Pending', entries[n], Len(code[entries[n]]))
    <3>1. \A n \in 1..Len(entries) : n < pos' => n < pos \/ n = pos
      BY <2>1, <1>2
    <3> QED
      BY <3>1, <2>2, <1>7
  <2>4. RoundSoFar'
    <3>1. (\A n \in 1..Len(entries) : n < pos => Scanned(Pending, entries[n], Len(code[entries[n]])))'
      BY <1>1, <2>3 DEF Scanned
    <3>2. Scanned(Pending, entries[pos], k - 1)'
      BY <2>1 DEF Scanned
    <3> QED
      BY <3>1, <3>2 DEF RoundSoFar
  <2> QED
    BY <1>3, <2>4 DEF SetupInv
<1> QED
  BY <1>8, <1>9

\* A round that has made no entry has covered all that the table refers to.
LEMMA EndRoundStep ==
  ASSUME SetupInv, EndRound, TypeOK'
  PROVE  SetupInv'
<1>0. TypeOK /\ Distinct /\ HooksDone /\ RoundSoFar /\ RuntimeSelfContained
  BY DEF SetupInv
<1>1. /\ phase = "required" /\ todo = << >> /\ pos > count
      /\ pos' = 1 /\ k' = 1 /\ UNCHANGED <<code, entries>>
  BY DEF EndRound
<1>2. Len(entries) \in Nat /\ entries \in Seq(Chunks) /\ count \in Nat /\ pos \in Nat
  BY <1>0 DEF TypeOK
<1>3. phase' \in {"required", "rewrite"}
  BY <1>1 DEF EndRound
<1>4. Distinct' /\ HooksSoFar' /\ HooksDone' /\ RoundSoFar'
  BY <1>0, <1>1, <1>3 DEF Distinct, HooksSoFar, HooksDone, RoundSoFar, Scanned
<1>5. RuntimeSelfContained'
  <2>1. CASE count # Len(entries)
    BY <1>1, <2>1 DEF EndRound, RuntimeSelfContained
  <2>2. CASE count = Len(entries)
    <3>1. reserved' = Len(entries)
      BY <2>2 DEF EndRound
    <3>2. Runtime' = Elements(entries)
      BY <3>1, <1>1 DEF Runtime, Elements
    <3>3. Pending = Elements(entries)
      BY <1>1 DEF Pending, Elements
    <3>4. \A n \in 1..Len(entries) : Scanned(Elements(entries), entries[n], Len(code[entries[n]]))
      BY <1>0, <1>1, <1>2, <2>2, <3>3 DEF RoundSoFar
    <3>5. ASSUME NEW x \in Elements(entries) \ Labels, NEW n \in 1..Len(code[x])
          PROVE  Covers(Elements(entries), code[x][n].target)
      <4>1. PICK m \in 1..Len(entries) : x = entries[m]
        BY <3>5 DEF Elements
      <4>2. x \in Functions \cup PLTs
        BY <1>2, <4>1 DEF Chunks
      <4>3. Len(code[x]) \in Nat
        BY <4>2, <1>0, CodeFacts
      <4> QED
        BY <3>4, <4>1, <4>3 DEF Scanned
    <3>6. code' = code
      BY <1>1
    <3>7. ASSUME NEW x \in Runtime' \ Labels, NEW n \in 1..Len(code'[x])
          PROVE  Covers(Runtime', code'[x][n].target)
      BY <3>2, <3>5, <3>6
    <3> QED
      BY <3>7 DEF RuntimeSelfContained, Covers
  <2> QED
    BY <2>1, <2>2
<1> QED
  BY <1>4, <1>5 DEF SetupInv

\* After the reservation, the passes leave its entries alone.
LEMMA LaterStep ==
  ASSUME SetupInv, UseGS \/ InitGS, TypeOK'
  PROVE  SetupInv'
<1>0. TypeOK /\ Distinct /\ HooksDone /\ RuntimeSelfContained
  BY DEF SetupInv
<1>1. /\ phase = "rewrite" /\ phase' \notin {"hooks", "named", "required"}
      /\ UNCHANGED <<code, entries, reserved>>
  BY DEF UseGS, Visit, convert, RefusePointer, RedirectPointer, Rewriting, InitGS
<1>2. Distinct' /\ HooksSoFar' /\ HooksDone' /\ RoundSoFar'
  BY <1>0, <1>1 DEF Distinct, HooksSoFar, HooksDone, RoundSoFar
<1>3. RuntimeSelfContained'
  BY <1>0, <1>1, RuntimeKept
<1> QED
  BY <1>2, <1>3 DEF SetupInv

\* The entries of makeInitArray come after all others.
LEMMA StartStep ==
  ASSUME SetupInv, MakeStart, TypeOK'
  PROVE  SetupInv'
<1> DEFINE x == Head(rest)
<1>0. TypeOK /\ Distinct /\ HooksDone /\ RuntimeSelfContained
  BY DEF SetupInv
<1>1. /\ phase = "start" /\ phase' = "start" /\ UNCHANGED <<code, reserved>>
      /\ entries' = Entered(entries, x) /\ entries \in Seq(Chunks)
      /\ rest \in Seq(Functions) /\ rest # << >>
  BY <1>0 DEF MakeStart, TypeOK
<1>2. x \in Functions
  BY ONLY <1>1, HeadAndTail
<1>3. x \in Chunks
  BY <1>2 DEF Chunks
<1> HIDE DEF x
<1>4. /\ entries' \in Seq(Chunks)
      /\ Len(entries) <= Len(entries')
      /\ \A n \in 1..Len(entries) : entries'[n] = entries[n]
      /\ x \notin Elements(entries) =>
           Len(entries') = Len(entries) + 1 /\ entries'[Len(entries) + 1] = x
      /\ x \in Elements(entries) => entries' = entries
  <2>1. entries \in Seq(Chunks) /\ x \in Chunks
    BY <1>1, <1>3
  <2>2. /\ Entered(entries, x) \in Seq(Chunks)
        /\ Len(entries) <= Len(Entered(entries, x))
        /\ \A n \in 1..Len(entries) : Entered(entries, x)[n] = entries[n]
        /\ Elements(Entered(entries, x)) = Elements(entries) \cup {x}
        /\ x \notin Elements(entries) =>
             /\ Len(Entered(entries, x)) = Len(entries) + 1
             /\ Entered(entries, x)[Len(entries) + 1] = x
        /\ x \in Elements(entries) => Entered(entries, x) = entries
    BY ONLY <2>1, EnteredFacts
  <2> QED
    BY <1>1, <2>2
<1>5. Len(entries) \in Nat /\ Len(entries') \in Nat /\ Len(Hooks) \in Nat
  BY <1>1, <1>4, HooksType
<1>6. Distinct'
  <2>1. CASE x \in Elements(entries)
    BY <1>0, <1>4, <2>1 DEF Distinct
  <2>2. CASE x \notin Elements(entries)
    <3>1. \A n \in 1..Len(entries) : entries[n] # x
      BY <2>2 DEF Elements
    <3> QED
      BY <1>0, <1>4, <1>5, <2>2, <3>1 DEF Distinct
  <2> QED
    BY <2>1, <2>2
<1>7. HooksSoFar' /\ HooksDone' /\ RoundSoFar'
  BY <1>0, <1>1, <1>4, <1>5 DEF HooksSoFar, HooksDone, RoundSoFar
<1>8. RuntimeSelfContained'
  BY <1>0, <1>1, <1>4, RuntimeKept
<1> QED
  BY <1>6, <1>7, <1>8 DEF SetupInv

\* Every step of the loader preserves the invariant.
LEMMA InvStep ==
  SetupInv /\ NothingReserved /\ [Next]_vars => SetupInv'
<1> SUFFICES ASSUME SetupInv, NothingReserved, [Next]_vars PROVE SetupInv'
  OBVIOUS
<1>1. TypeOK'
  BY TypeStep DEF SetupInv
<1>2. CASE UNCHANGED vars
  <2>1. UNCHANGED <<code, phase, rest, entries, reserved, todo, count, pos, k>>
    BY <1>2 DEF vars
  <2>2. Distinct' /\ HooksSoFar' /\ HooksDone'
    BY <2>1 DEF SetupInv, Distinct, HooksSoFar, HooksDone, Taken
  <2>3. RoundSoFar'
    BY <2>1 DEF SetupInv, RoundSoFar, Scanned, Pending
  <2>4. RuntimeSelfContained'
    BY <2>1, RuntimeKept DEF SetupInv
  <2> QED
    BY <1>1, <2>2, <2>3, <2>4 DEF SetupInv
<1> QED
  BY <1>1, <1>2, EntryStep, NameStep, NoNameStep, EndHooksStep, StartRoundsStep, ScanStep,
    EndRoundStep, LaterStep, StartStep DEF Next, Setup, Boot

\* The reservation ends with the rounds.
LEMMA ReservedStep ==
  NothingReserved /\ [Next]_vars => NothingReserved'
  BY DEF NothingReserved, Next, Setup, UseGS, Boot, vars, makeEntryFor, makeResolvedEntry,
    NameNotFound, EndHooks, StartRounds, makeRequiredEntriesFor, EndRound, Visit, convert,
    RefusePointer, RedirectPointer, Rewriting, InitGS, MakeStart

-----------------------------------------------------------------------------
\* What is entered or pending stays so, also when the next chunks are to be
\* entered.
LEMMA PendingGrows ==
  ASSUME SetupInv, [Next]_vars
  PROVE  /\ Pending \subseteq Pending'
         /\ Len(entries) <= Len(entries')
         /\ \A n \in 1..Len(entries) : entries'[n] = entries[n]
<1>0. TypeOK /\ entries \in Seq(Chunks) /\ todo \in Seq(Chunks) /\ Len(entries) \in Nat
  BY DEF SetupInv, TypeOK
<1>1. CASE makeEntryFor
  <2> DEFINE x == Head(todo)
  <2>1. todo # << >> /\ entries' = Entered(entries, x) /\ todo' = Tail(todo)
    BY <1>1 DEF makeEntryFor
  <2>2. x \in Chunks /\ Elements(todo) = {x} \cup Elements(todo')
    BY ONLY <1>0, <2>1, HeadAndTail
  <2> HIDE DEF x
  <2>3. /\ Len(entries) <= Len(entries')
        /\ \A n \in 1..Len(entries) : entries'[n] = entries[n]
        /\ Elements(entries') = Elements(entries) \cup {x}
    <3>1. entries \in Seq(Chunks) /\ x \in Chunks
      BY <1>0, <2>2
    <3>2. /\ Len(entries) <= Len(Entered(entries, x))
          /\ \A n \in 1..Len(entries) : Entered(entries, x)[n] = entries[n]
          /\ Elements(Entered(entries, x)) = Elements(entries) \cup {x}
      BY ONLY <3>1, EnteredFacts
    <3> QED
      BY <2>1, <3>2
  <2> QED
    BY <2>2, <2>3 DEF Pending
<1>2. CASE MakeStart
  <2> DEFINE x == Head(rest)
  <2>1. rest # << >> /\ rest \in Seq(Functions) /\ entries' = Entered(entries, x) /\ todo' = todo
    BY <1>0, <1>2 DEF MakeStart, TypeOK
  <2>2. x \in Functions
    BY ONLY <2>1, HeadAndTail
  <2>3. x \in Chunks
    BY <2>2 DEF Chunks
  <2> HIDE DEF x
  <2>4. /\ Len(entries) <= Len(entries')
        /\ \A n \in 1..Len(entries) : entries'[n] = entries[n]
        /\ Elements(entries') = Elements(entries) \cup {x}
    <3>1. entries \in Seq(Chunks) /\ x \in Chunks
      BY <1>0, <2>3
    <3>2. /\ Len(entries) <= Len(Entered(entries, x))
          /\ \A n \in 1..Len(entries) : Entered(entries, x)[n] = entries[n]
          /\ Elements(Entered(entries, x)) = Elements(entries) \cup {x}
      BY ONLY <3>1, EnteredFacts
    <3> QED
      BY <2>1, <3>2
  <2> QED
    BY <2>1, <2>4 DEF Pending
<1>3. CASE entries' = entries /\ (todo' = todo \/ todo = << >>)
  <2>1. todo = << >> => Elements(todo) = {}
    BY DEF Elements
  <2> QED
    BY <1>0, <1>3, <2>1 DEF Pending
<1> QED
  BY <1>1, <1>2, <1>3 DEF Next, Setup, UseGS, Boot, vars, makeResolvedEntry, NameNotFound,
    EndHooks, StartRounds, makeRequiredEntriesFor, EndRound, Visit, convert, RefusePointer,
    RedirectPointer, Rewriting, InitGS

\* An Instruction that enters its Function has it among the next to be entered.
LEMMA CallerNext ==
  ASSUME NEW x, NEW instr, EntersCaller(instr)
  PROVE  x \in Elements(EntriesFor(x, instr))
<1>1. EntriesFor(x, instr) = <<x>> \/ EntriesFor(x, instr) = <<instr.target, x>>
  BY DEF EntersCaller, EntriesFor
<1>2. x \in Elements(<<x>>)
  <2>1. Len(<<x>>) = 1 /\ <<x>>[1] = x /\ 1 \in 1..1
    OBVIOUS
  <2> QED
    BY <2>1 DEF Elements
<1>3. x \in Elements(<<instr.target, x>>)
  <2>1. Len(<<instr.target, x>>) = 2 /\ <<instr.target, x>>[2] = x /\ 2 \in 1..2
    OBVIOUS
  <2> QED
    BY <2>1 DEF Elements
<1> QED
  BY <1>1, <1>2, <1>3

\* UseGSTablePass enters the Functions that make calls.
LEMMA CallersStep ==
  ASSUME SetupInv, NothingReserved, CallersEntered, [Next]_vars
  PROVE  CallersEntered'
<1>0. TypeOK /\ Pending \subseteq Pending'
  BY PendingGrows DEF SetupInv
<1>1. code' = code
  BY DEF Next, Setup, UseGS, Boot, vars, makeEntryFor, makeResolvedEntry, NameNotFound,
    EndHooks, StartRounds, makeRequiredEntriesFor, EndRound, Visit, convert, RefusePointer,
    RedirectPointer, InitGS, MakeStart
<1> SUFFICES ASSUME NEW x \in Functions, ~Skipped(x)
             PROVE  /\ x \notin Elements(left') /\ x # at' /\ Called(x, Len(code[x])) =>
                         x \in Pending'
                    /\ x = at' /\ Called(x, k' - 1) => x \in Pending'
  BY <1>1 DEF CallersEntered, Called, Skipped
<1>2. /\ x \notin Elements(left) /\ x # at /\ Called(x, Len(code[x])) => x \in Pending'
      /\ x = at /\ Called(x, k - 1) => x \in Pending'
  BY <1>0 DEF CallersEntered
<1>3. /\ x # NULL /\ k \in Nat \ {0} /\ Len(code[x]) \in Nat
      /\ left \in Seq(Functions \cup PLTs)
  BY <1>0, CodeFacts, GSTableAssumption DEF TypeOK, Chunks
<1>4. CASE Visit
  <2>1. left # << >> /\ left' = Tail(left) /\ k' = 1 /\ at = NULL
        /\ at' = IF Skipped(Head(left)) THEN NULL ELSE Head(left)
    BY <1>4 DEF Visit
  <2>2. Elements(left) = {Head(left)} \cup Elements(left')
    BY ONLY <1>3, <2>1, HeadAndTail
  <2>3. x \notin Elements(left') /\ x # at' => x \notin Elements(left) /\ x # at
    BY <1>3, <2>1, <2>2
  <2>4. ~Called(x, k' - 1)
    BY <2>1 DEF Called
  <2> QED
    BY <1>2, <2>3, <2>4
<1>5. CASE convert
  <2>1. CASE k <= Len(code[at])
    <3>1. at' = at /\ k' = k + 1 /\ left' = left /\ todo' = EntriesFor(at, code[at][k])
      BY <1>5, <2>1 DEF convert
    <3>2. ASSUME x = at, Called(x, k' - 1) PROVE x \in Pending'
      <4>1. PICK m \in 1..Len(code[x]) : m <= k' - 1 /\ EntersCaller(code[x][m])
        BY <3>2 DEF Called
      <4>2. CASE m = k
        <5>1. x \in Elements(todo')
          BY <3>1, <3>2, <4>1, <4>2, CallerNext
        <5> QED
          BY <5>1 DEF Pending
      <4>3. CASE m # k
        <5>1. m <= k - 1
          BY <1>3, <3>1, <4>1, <4>3
        <5>2. Called(x, k - 1)
          BY <4>1, <5>1 DEF Called
        <5> QED
          BY <1>2, <3>2, <5>2
      <4> QED
        BY <4>2, <4>3
    <3> QED
      BY <1>2, <3>1, <3>2
  <2>2. CASE ~(k <= Len(code[at]))
    <3>1. at' = NULL /\ left' = left
      BY <1>5, <2>2 DEF convert
    <3>2. ASSUME x = at, Called(x, Len(code[x])) PROVE x \in Pending'
      <4>1. \A m \in 1..Len(code[x]) : m <= k - 1
        BY <1>3, <2>2, <3>2
      <4>2. Called(x, k - 1)
        BY <3>2, <4>1 DEF Called
      <4> QED
        BY <1>2, <3>2, <4>2
    <3> QED
      BY <1>2, <1>3, <3>1, <3>2
  <2> QED
    BY <2>1, <2>2
<1>6. CASE UNCHANGED <<left, at, k>>
  BY <1>2, <1>6
<1>7. CASE at = NULL /\ UNCHANGED <<left, at>>
  BY <1>2, <1>3, <1>7
<1> QED
  <2>1. phase \in {"named", "required"} => at = NULL
    BY DEF NothingReserved
  <2> QED
    BY <1>4, <1>5, <1>6, <1>7, <2>1 DEF Next, Setup, UseGS, Boot, vars, makeEntryFor,
      makeResolvedEntry, NameNotFound, EndHooks, StartRounds, makeRequiredEntriesFor,
      EndRound, RefusePointer, RedirectPointer, InitGS, MakeStart

\* ManageGS::init fills the slots of all entries that there are.
LEMMA FilledStep ==
  ASSUME SetupInv, CallersEntered, CallersFilled, [Next]_vars
  PROVE  CallersFilled'
<1>0. /\ TypeOK /\ Len(entries) \in Nat
      /\ Len(entries) <= Len(entries')
      /\ \A n \in 1..Len(entries) : entries'[n] = entries[n]
      /\ entries' \in Seq(Chunks)
  <2>1. TypeOK /\ TypeOK'
    BY TypeStep DEF SetupInv
  <2>2. /\ Len(entries) <= Len(entries')
        /\ \A n \in 1..Len(entries) : entries'[n] = entries[n]
    BY PendingGrows
  <2>3. entries \in Seq(Chunks) /\ entries' \in Seq(Chunks)
    BY <2>1 DEF TypeOK
  <2> QED
    BY <2>1, <2>2, <2>3
<1>1. code' = code
  BY DEF Next, Setup, UseGS, Boot, vars, makeEntryFor, makeResolvedEntry, NameNotFound,
    EndHooks, StartRounds, makeRequiredEntriesFor, EndRound, Visit, convert, RefusePointer,
    RedirectPointer, InitGS, MakeStart
<1> SUFFICES ASSUME phase' = "start", NEW x \in Functions, ~Skipped(x), Called(x, Len(code[x]))
             PROVE  \E n \in 1..Len(entries') : entries'[n] = x /\ array'[n] # "zero"
  BY <1>1 DEF CallersFilled, Called, Skipped
<1>2. CASE phase = "start" /\ array' = array
  <2>1. PICK n \in 1..Len(entries) : entries[n] = x /\ array[n] # "zero"
    BY <1>2 DEF CallersFilled
  <2>2. n \in 1..Len(entries') /\ entries'[n] = x /\ array'[n] # "zero"
    BY <1>0, <1>2, <2>1
  <2> QED
    BY <2>2
<1>3. CASE InitGS
  <2>1. /\ Rewriting /\ at = NULL /\ left = << >> /\ todo = << >> /\ entries' = entries
        /\ Len(entries) < TableSize
        /\ array' = [n \in 1..TableSize |->
                       IF n <= reserved THEN "target"
                       ELSE IF n <= Len(entries) THEN "callback" ELSE "zero"]
    BY <1>3 DEF InitGS, Rewriting
  <2>2. Elements(left) = {} /\ Elements(todo) = {} /\ x # NULL
    <3>1. Elements(left) = {} /\ Elements(todo) = {}
      BY ONLY <2>1 DEF Elements
    <3>2. x # NULL
      BY GSTableAssumption DEF Chunks
    <3> QED
      BY ONLY <3>1, <3>2
  <2>3. x \in Elements(entries)
    BY <2>1, <2>2 DEF CallersEntered, Pending
  <2>4. PICK n \in 1..Len(entries) : entries[n] = x
    BY <2>3 DEF Elements
  <2>5. n \in 1..TableSize /\ n <= Len(entries)
    BY <1>0, <2>1, <2>4, GSTableAssumption
  <2>6. array'[n] # "zero"
    BY <2>1, <2>5
  <2> QED
    BY <2>1, <2>4, <2>6
<1> QED
  <2>1. phase = "start" \/ InitGS
    BY DEF Next, Setup, UseGS, Boot, vars, makeEntryFor, makeResolvedEntry, NameNotFound,
      EndHooks, StartRounds, makeRequiredEntriesFor, EndRound, Visit, convert, RefusePointer,
      RedirectPointer, Rewriting, MakeStart
  <2>2. InitGS \/ array' = array
    BY DEF Next, Setup, UseGS, Boot, vars, makeEntryFor, makeResolvedEntry, NameNotFound,
      EndHooks, StartRounds, makeRequiredEntriesFor, EndRound, Visit, convert, RefusePointer,
      RedirectPointer, MakeStart
  <2> QED
    BY <1>2, <1>3, <2>1, <2>2

\* The indices are those of the Functions, in their order.
LEMMA StartsStep ==
  ASSUME SetupInv, StartsSoFar, [Next]_vars
  PROVE  StartsSoFar'
<1>0. /\ TypeOK /\ entries \in Seq(Chunks) /\ Len(entries) \in Nat
      /\ starts \in Seq(1..Len(entries)) /\ Len(starts) \in Nat
      /\ rest \in Seq(Functions) /\ Len(rest) \in Nat
      /\ Len(entries) <= Len(entries')
      /\ \A n \in 1..Len(entries) : entries'[n] = entries[n]
      /\ Starts \in Seq(Functions) /\ Len(Starts) \in Nat
  <2>1. TypeOK
    BY DEF SetupInv
  <2>2. /\ Len(entries) <= Len(entries')
        /\ \A n \in 1..Len(entries) : entries'[n] = entries[n]
    BY PendingGrows
  <2>3. /\ entries \in Seq(Chunks) /\ starts \in Seq(1..Len(entries))
        /\ rest \in Seq(Functions) /\ Starts \in Seq(Functions)
    BY <2>1, GSTableAssumption DEF TypeOK
  <2>4. Len(entries) \in Nat
    BY ONLY <2>3
  <2>5. Len(starts) \in Nat
    BY ONLY <2>3
  <2>6. Len(rest) \in Nat
    BY ONLY <2>3
  <2>7. Len(Starts) \in Nat
    BY ONLY <2>3
  <2> QED
    BY ONLY <2>1, <2>2, <2>3, <2>4, <2>5, <2>6, <2>7, Zenon
<1>1. CASE MakeStart
  <2> DEFINE x == Head(rest)
  <2>1. /\ phase = "start" /\ phase' = "start" /\ rest # << >> /\ rest' = Tail(rest)
        /\ entries' = Entered(entries, x)
        /\ starts' = Append(starts, IndexOf(entries', x))
    BY <1>1 DEF MakeStart
  <2>2. /\ x \in Functions /\ x = rest[1] /\ Len(rest') = Len(rest) - 1 /\ Len(rest) > 0
        /\ \A n \in 1..Len(rest') : rest'[n] = rest[n + 1]
    BY ONLY <1>0, <2>1, HeadAndTail
  <2>3. x \in Chunks
    BY <2>2 DEF Chunks
  <2> HIDE DEF x
  <2>4. Elements(entries') = Elements(entries) \cup {x} /\ entries' \in Seq(Chunks)
    <3>1. entries \in Seq(Chunks) /\ x \in Chunks
      BY <1>0, <2>3
    <3>2. /\ Entered(entries, x) \in Seq(Chunks)
          /\ Elements(Entered(entries, x)) = Elements(entries) \cup {x}
      BY ONLY <3>1, EnteredFacts
    <3> QED
      BY <2>1, <3>2
  <2> DEFINE i == IndexOf(entries', x)
  <2>5. i \in 1..Len(entries') /\ entries'[i] = x
    BY <2>4 DEF Elements, IndexOf
  <2> HIDE DEF i
  <2>6. starts' = Append(starts, i)
    BY <2>1 DEF i
  <2>7. /\ Len(starts') = Len(starts) + 1 /\ starts'[Len(starts) + 1] = i
        /\ \A n \in 1..Len(starts) : starts'[n] = starts[n] /\ starts[n] \in 1..Len(entries)
    <3>1. Len(entries') \in Nat
      BY <2>4
    <3>2. starts \in Seq(1..Len(entries'))
      <4>1. 1..Len(entries) \subseteq 1..Len(entries')
        BY <1>0, <3>1
      <4> QED
        BY <1>0, <4>1, SeqWidens
    <3>3. /\ Len(Append(starts, i)) = Len(starts) + 1
          /\ Append(starts, i)[Len(starts) + 1] = i
          /\ \A n \in 1..Len(starts) : Append(starts, i)[n] = starts[n]
      BY <2>5, <3>2
    <3> QED
      BY <1>0, <2>6, <3>3
  <2>8. /\ Len(starts) + Len(rest) = Len(Starts)
        /\ \A n \in 1..Len(rest) : rest[n] = Starts[Len(starts) + n]
        /\ \A n \in 1..Len(starts) : entries[starts[n]] = Starts[n]
    BY <2>1 DEF StartsSoFar
  <2>9. x = Starts[Len(starts) + 1]
    BY <1>0, <2>2, <2>8
  <2>10. \A n \in 1..Len(starts') : entries'[starts'[n]] = Starts[n]
    <3> SUFFICES ASSUME NEW n \in 1..Len(starts') PROVE entries'[starts'[n]] = Starts[n]
      OBVIOUS
    <3>1. CASE n = Len(starts) + 1
      BY <2>5, <2>7, <2>9, <3>1
    <3>2. CASE n # Len(starts) + 1
      <4>1. n \in 1..Len(starts)
        BY <1>0, <2>7, <3>2
      <4> QED
        BY <1>0, <2>7, <2>8, <4>1
    <3> QED
      BY <3>1, <3>2
  <2>11. \A n \in 1..Len(rest') : rest'[n] = Starts[Len(starts') + n]
    <3> SUFFICES ASSUME NEW n \in 1..Len(rest') PROVE rest'[n] = Starts[Len(starts') + n]
      OBVIOUS
    <3>1. n + 1 \in 1..Len(rest) /\ Len(starts) + (n + 1) = Len(starts') + n
      BY <1>0, <2>2, <2>7
    <3> QED
      BY <2>2, <2>8, <3>1
  <2>12. Len(starts') + Len(rest') = Len(Starts)
    <3>1. /\ Len(starts') = Len(starts) + 1 /\ Len(rest') = Len(rest) - 1
          /\ Len(starts) + Len(rest) = Len(Starts)
          /\ Len(starts) \in Nat /\ Len(rest) \in Nat /\ Len(Starts) \in Nat
      BY <1>0, <2>2, <2>7, <2>8
    <3> QED
      BY ONLY <3>1
  <2> QED
    BY <2>1, <2>10, <2>11, <2>12 DEF StartsSoFar
<1>2. CASE InitGS
  <2>1. phase = "rewrite" /\ starts' = starts /\ starts = << >>
    BY <1>2 DEF InitGS, Rewriting, StartsSoFar
  <2>2. Len(starts) = 0
    BY <2>1
  <2>3. CASE phase' = "start"
    <3>1. rest' = Starts
      BY <1>2, <2>3 DEF InitGS
    <3>2. \A n \in 1..Len(rest') : 0 + n = n
      BY <1>0, <3>1
    <3> QED
      BY <1>0, <2>1, <2>2, <2>3, <3>1, <3>2 DEF StartsSoFar
  <2>4. CASE phase' # "start"
    BY <2>1, <2>4 DEF StartsSoFar
  <2> QED
    BY <2>3, <2>4
<1>3. CASE phase # "start" /\ phase' # "start" /\ starts' = starts
  BY <1>3 DEF StartsSoFar
<1>4. CASE phase = "start" /\ phase' = "start" /\ UNCHANGED <<starts, rest>>
  <2>1. \A n \in 1..Len(starts) : starts[n] \in 1..Len(entries)
    BY <1>0
  <2> QED
    BY <1>0, <1>4, <2>1 DEF StartsSoFar
<1> QED
  BY <1>1, <1>2, <1>3, <1>4 DEF Next, Setup, UseGS, Boot, vars, makeEntryFor,
    makeResolvedEntry, NameNotFound, EndHooks, StartRounds, makeRequiredEntriesFor,
    EndRound, Visit, convert, RefusePointer, RedirectPointer, Rewriting

\* At first nothing has been converted or started.
LEMMA InitStart ==
  Init => StartInv
<1> SUFFICES ASSUME Init PROVE StartInv
  OBVIOUS
<1>1. left = Order /\ at = NULL /\ phase = "hooks" /\ starts = << >>
  BY DEF Init
<1>2. \A x \in Functions : x \in Elements(left) /\ x # at
  BY <1>1, GSTableAssumption DEF Chunks
<1> QED
  BY <1>1, <1>2 DEF StartInv, CallersEntered, CallersFilled, StartsSoFar

-----------------------------------------------------------------------------
\* The invariant holds throughout.
LEMMA Invariant ==
  Spec => []SetupInv
<1>1. Init => NothingReserved
  BY DEF Init, NothingReserved
<1> QED
  BY InitInv, InvStep, ReservedStep, <1>1, PTL DEF Spec

\* The state of the loader is always well typed.
THEOREM TypeCorrect ==
  Spec => []TypeOK
<1>1. SetupInv => TypeOK
  BY DEF SetupInv
<1> QED
  BY Invariant, <1>1, PTL

\* Whatever the program, every hook has the index that is written into hook
\* code, and no chunk has two entries.
THEOREM HooksHaveTheirIndices ==
  Spec => []HooksInPlace
<1>1. SetupInv => HooksInPlace
  BY DEF SetupInv, HooksDone, Distinct, HooksInPlace
<1> QED
  BY Invariant, <1>1, PTL

\* Whatever the program, the reserved entries are closed under references.
THEOREM ReservationIsClosed ==
  Spec => []RuntimeSelfContained
<1>1. SetupInv => RuntimeSelfContained
  BY DEF SetupInv
<1> QED
  BY Invariant, <1>1, PTL

\* Whatever the program, the indices for the constructors are theirs, and lead
\* to filled slots of the table for every constructor that makes a call.
THEOREM ConstructorsAreReached ==
  Spec => []StartsLead
<1>1. SetupInv /\ StartInv => StartsLead
  <2> SUFFICES ASSUME SetupInv, StartInv, phase = "start", NEW n \in 1..Len(starts)
               PROVE  /\ entries[starts[n]] = Starts[n]
                      /\ (\E m \in 1..Len(code[Starts[n]]) : EntersCaller(code[Starts[n]][m]))
                           /\ ~Skipped(Starts[n]) => array[starts[n]] # "zero"
    BY DEF StartsLead
  <2>1. /\ entries[starts[n]] = Starts[n] /\ starts[n] \in 1..Len(entries)
        /\ Len(starts) \in Nat /\ Len(rest) \in Nat /\ Len(starts) + Len(rest) = Len(Starts)
        /\ TypeOK
    BY DEF SetupInv, StartInv, StartsSoFar, TypeOK
  <2>2. Starts[n] \in Functions
    <3>1. n \in 1..Len(Starts) /\ Starts \in Seq(Functions)
      BY <2>1, GSTableAssumption
    <3> QED
      BY <3>1
  <2> DEFINE x == Starts[n]
  <2>3. x \in Functions /\ entries[starts[n]] = x
    BY <2>1, <2>2
  <2>4. SUFFICES ASSUME \E m \in 1..Len(code[x]) : EntersCaller(code[x][m]), ~Skipped(x)
                 PROVE  array[starts[n]] # "zero"
    BY <2>1
  <2> HIDE DEF x
  <2>5. Called(x, Len(code[x]))
    <3>1. Len(code[x]) \in Nat
      BY <2>1, <2>3, CodeFacts
    <3> QED
      BY <2>4, <3>1 DEF Called
  <2>6. PICK m \in 1..Len(entries) : entries[m] = x /\ array[m] # "zero"
    BY <2>3, <2>4, <2>5 DEF StartInv, CallersFilled
  <2>7. starts[n] = m
    BY <2>1, <2>3, <2>6 DEF SetupInv, Distinct
  <2> QED
    BY <2>6, <2>7
<1>2. Init => NothingReserved
  BY DEF Init, NothingReserved
<1>3. SetupInv /\ NothingReserved /\ StartInv /\ [Next]_vars => StartInv'
  BY CallersStep, FilledStep, StartsStep DEF StartInv
<1> QED
  BY InitInv, InvStep, ReservedStep, InitStart, <1>1, <1>2, <1>3, PTL DEF Spec
=============================================================================
