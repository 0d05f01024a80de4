------------------------------- MODULE InputProofs -------------------------------
(***************************************************************************)
(* Theorems about what a run is given.  The options: on a command line of  *)
(* any length parse_args (Options) takes the last value of each flag and   *)
(* stops at the first problem.  And the workload: whatever the seed, the   *)
(* profiles and the width of a tick, what WorkloadGenerator draws is a     *)
(* workload the simulator assumes, and estimates shift no other draw.      *)
(***************************************************************************)
EXTENDS WorkloadGenerator, OperatorProofs, Options

--------------------------------------------------------------------------------
(* Where a command line has its flags *)

\* The value flags that stand right before k, back to the last argument that is
\* none, and whether k is in a flag's place.
RunBefore(k) == {h \in 1 .. k - 1 : \A m \in h .. k - 1 : argv[m] \in ValueFlags}
FlagPlace(k) == Cardinality(RunBefore(k)) % 2 = 0

LEMMA FlagPositionsAre == FlagPositions = {k \in DOMAIN argv : FlagPlace(k)}
  BY DEF FlagPositions, FlagPlace, RunBefore

\* The run before the next argument: one longer behind a value flag, and empty
\* behind anything else.
LEMMA RunsGrow ==
    ASSUME NEW k \in Nat \ {0}
    PROVE  /\ IsFiniteSet(RunBefore(k)) /\ Cardinality(RunBefore(k)) \in Nat
           /\ RunBefore(1) = {}
           /\ argv[k] \in ValueFlags =>
                Cardinality(RunBefore(k + 1)) = Cardinality(RunBefore(k)) + 1
           /\ argv[k] \notin ValueFlags => RunBefore(k + 1) = {}
<1>1. IsFiniteSet(RunBefore(k)) /\ Cardinality(RunBefore(k)) \in Nat
  <2>1. IsFiniteSet(1 .. k - 1) /\ RunBefore(k) \subseteq 1 .. k - 1
    BY FS_Interval DEF RunBefore
  <2>. QED  BY <2>1, FS_Subset, FS_CardinalityType
<1>2. RunBefore(1) = {}
  BY DEF RunBefore
<1>3. ASSUME argv[k] \in ValueFlags
      PROVE  Cardinality(RunBefore(k + 1)) = Cardinality(RunBefore(k)) + 1
  <2>1. k \notin RunBefore(k)
    BY DEF RunBefore
  <2>2. RunBefore(k + 1) = RunBefore(k) \cup {k}
    <3>1. ASSUME NEW h \in 1 .. k PROVE h .. (k + 1) - 1 = (h .. k - 1) \cup {k}
      OBVIOUS
    <3>2. ASSUME NEW h \in RunBefore(k + 1) PROVE h \in RunBefore(k) \cup {k}
      BY <3>2 DEF RunBefore
    <3>3. ASSUME NEW h \in RunBefore(k) PROVE h \in RunBefore(k + 1)
      <4>1. h \in 1 .. k /\ h \in 1 .. (k + 1) - 1
        BY DEF RunBefore
      <4>2. \A m \in (h .. k - 1) \cup {k} : argv[m] \in ValueFlags
        BY <1>3 DEF RunBefore
      <4>. QED  BY <3>1, <4>1, <4>2 DEF RunBefore
    <3>4. k \in RunBefore(k + 1)
      <4>1. k .. (k + 1) - 1 = {k} /\ k \in 1 .. (k + 1) - 1
        OBVIOUS
      <4>. QED  BY <1>3, <4>1 DEF RunBefore
    <3>. QED  BY <3>2, <3>3, <3>4
  <2>. QED  BY <1>1, <2>1, <2>2, FS_AddElement
<1>4. ASSUME argv[k] \notin ValueFlags, NEW h \in RunBefore(k + 1) PROVE FALSE
  <2>1. h \in 1 .. k /\ k \in h .. (k + 1) - 1
    BY DEF RunBefore
  <2>. QED  BY <1>4, <2>1 DEF RunBefore
<1>. QED  BY <1>1, <1>2, <1>3, <1>4

\* From a flag's place the loop goes to the next one: over the value if the
\* flag has one, which is in no flag's place, and to the next argument if not.
LEMMA NextPlace ==
    ASSUME NEW k \in Nat \ {0}, FlagPlace(k)
    PROVE  /\ argv[k] \in ValueFlags => ~ FlagPlace(k + 1) /\ FlagPlace(k + 2)
           /\ argv[k] \notin ValueFlags => FlagPlace(k + 1)
<1>. DEFINE c == Cardinality(RunBefore(k))
<1>1. c \in Nat /\ c % 2 = 0
  BY RunsGrow DEF FlagPlace
<1>2. CASE argv[k] \notin ValueFlags
  <2>1. Cardinality(RunBefore(k + 1)) = 0
    BY <1>2, RunsGrow, FS_EmptySet
  <2>. QED  BY <1>2, <2>1 DEF FlagPlace
<1>3. CASE argv[k] \in ValueFlags
  <2>1. Cardinality(RunBefore(k + 1)) = c + 1
    BY <1>3, RunsGrow
  <2>2. (c + 1) % 2 # 0
    <3>. HIDE DEF c
    <3>. QED  BY <1>1
  <2>3. ~ FlagPlace(k + 1)
    BY <2>1, <2>2 DEF FlagPlace
  <2>4. k + 1 \in Nat \ {0} /\ (k + 1) + 1 = k + 2
    OBVIOUS
  <2>5. CASE argv[k + 1] \in ValueFlags
    <3>1. Cardinality(RunBefore(k + 2)) = Cardinality(RunBefore(k + 1)) + 1
      BY <2>4, <2>5, RunsGrow
    <3>2. Cardinality(RunBefore(k + 2)) = c + 2
      <4>. HIDE DEF c
      <4>. QED  BY <1>1, <2>1, <3>1
    <3>3. (c + 2) % 2 = 0
      <4>. HIDE DEF c
      <4>. QED  BY <1>1
    <3>4. FlagPlace(k + 2)
      BY <3>2, <3>3 DEF FlagPlace
    <3>. QED  BY <1>3, <2>3, <3>4
  <2>6. CASE argv[k + 1] \notin ValueFlags
    <3>1. Cardinality(RunBefore(k + 2)) = 0
      BY <2>4, <2>6, RunsGrow, FS_EmptySet
    <3>2. FlagPlace(k + 2)
      BY <3>1 DEF FlagPlace
    <3>. QED  BY <1>3, <2>3, <3>2
  <2>. QED  BY <2>5, <2>6
<1>. QED  BY <1>2, <1>3

LEMMA FirstPlace == FlagPlace(1)
<1>1. Cardinality(RunBefore(1)) = 0
  BY RunsGrow, FS_EmptySet
<1>. QED  BY <1>1 DEF FlagPlace

--------------------------------------------------------------------------------
(* The walk over the arguments *)

\* What the flag at k sets its option to.
GivenAt(k) == IF argv[k] = "--compare" THEN "true" ELSE ValueOf(argv[k], argv[k + 1])

\* The positions of flag f that the loop has passed.
Passed(f) == {k \in FlagPositions : k < i /\ argv[k] = f}

\* Every flag the loop has passed had what it needs, and each option is what
\* the last of its flags says.
WalkInv ==
    /\ argv \in Seq(Arguments)
    /\ i \in 1 .. Len(argv) + 1
    /\ FlagPlace(i)
    /\ DOMAIN opts = ValueFlags \cup {"--compare"}
    /\ \A k \in FlagPositions : k < i => argv[k] = "--compare" \/ HasValue(k)
    /\ \A f \in DOMAIN opts :
          \/ Passed(f) = {} /\ opts[f] = Defaults[f]
          \/ \E k \in Passed(f) : opts[f] = GivenAt(k) /\ \A m \in Passed(f) : m <= k

\* Where the loop is when parse_args has returned.
OutcomeInv ==
    /\ status \in {"parsing", "Run", "Error", "HelpRequested"}
    /\ status = "Run" => i > Len(argv)
    /\ status = "HelpRequested" => i <= Len(argv) /\ argv[i] \in HelpFlags
    /\ status = "Error" =>
          \/ i > Len(argv)
          \/ /\ argv[i] \notin HelpFlags \cup {"--compare"}
             /\ ~ HasValue(i)

ParseInv == WalkInv /\ OutcomeInv

LEMMA ParseStarts == ParseInit => ParseInv
<1>. SUFFICES ASSUME ParseInit PROVE ParseInv
  OBVIOUS
<1>1. PICK n \in 0 .. MaxArguments : argv \in [1 .. n -> Arguments]
  BY DEF ParseInit
<1>2. n \in Nat
  BY OptionsAssumption
<1>3. argv \in Seq(Arguments) /\ Len(argv) \in Nat
  BY <1>1, <1>2
<1>4. i = 1 /\ opts = Defaults /\ status = "parsing"
  BY DEF ParseInit
<1>5. i \in 1 .. Len(argv) + 1 /\ FlagPlace(i)
  BY <1>3, <1>4, FirstPlace
<1>6. \A k \in FlagPositions : ~ (k < i)
  <2>1. FlagPositions \subseteq 1 .. Len(argv)
    BY <1>3, FlagPositionsAre
  <2>. QED  BY <1>3, <1>4, <2>1
<1>7. \A f \in DOMAIN opts : Passed(f) = {} /\ opts[f] = Defaults[f]
  BY <1>4, <1>6 DEF Passed
<1>8. DOMAIN opts = ValueFlags \cup {"--compare"}
  BY <1>4 DEF Defaults
<1>9. OutcomeInv
  BY <1>4 DEF OutcomeInv
<1>. QED  BY <1>3, <1>5, <1>6, <1>7, <1>8, <1>9 DEF ParseInv, WalkInv

\* The loop goes from a flag's place to the next, having set the one option.
LEMMA WalkStep ==
    ASSUME WalkInv, i <= Len(argv), argv' = argv,
           argv[i] = "--compare" \/ HasValue(i),
           opts' = [opts EXCEPT ![argv[i]] = GivenAt(i)],
           i' = IF argv[i] = "--compare" THEN i + 1 ELSE i + 2
    PROVE  WalkInv'
<1>1. /\ argv \in Seq(Arguments) /\ Len(argv) \in Nat
      /\ i \in Nat \ {0} /\ i \in DOMAIN argv
      /\ DOMAIN argv = 1 .. Len(argv)
  BY DEF WalkInv
<1>2. "--compare" \notin ValueFlags
  BY DEF ValueFlags, UnsignedFlags, RealFlags, TextFlags
<1>3. /\ i' \in 1 .. Len(argv) + 1
      /\ FlagPlace(i')
      /\ \A k \in FlagPositions : k < i' <=> k < i \/ k = i
  <2>1. FlagPositions \subseteq 1 .. Len(argv)
    BY <1>1, FlagPositionsAre
  <2>2. CASE argv[i] = "--compare"
    <3>1. i' = i + 1
      BY <2>2
    <3>2. FlagPlace(i + 1)
      BY <1>1, <1>2, <2>2, NextPlace DEF WalkInv
    <3>. QED  BY <1>1, <2>1, <3>1, <3>2
  <2>3. CASE argv[i] # "--compare"
    <3>1. i' = i + 2 /\ argv[i] \in ValueFlags /\ i + 1 <= Len(argv)
      BY <2>3 DEF HasValue
    <3>2. FlagPlace(i + 2) /\ ~ FlagPlace(i + 1)
      BY <1>1, <3>1, NextPlace DEF WalkInv
    <3>3. i + 1 \notin FlagPositions
      BY <3>2, FlagPositionsAre
    <3>4. ASSUME NEW k \in FlagPositions PROVE k < i' <=> k < i \/ k = i
      <4>1. k \in Nat /\ k # i + 1
        BY <2>1, <3>3
      <4>. QED  BY <1>1, <3>1, <4>1
    <3>. QED  BY <1>1, <3>1, <3>2, <3>4
  <2>. QED  BY <2>2, <2>3
<1>4. i \in FlagPositions
  BY <1>1, FlagPositionsAre DEF WalkInv
<1>5. FlagPositions' = FlagPositions
  BY DEF FlagPositions
<1>6. argv[i] \in DOMAIN opts
  BY DEF WalkInv, HasValue
<1>7. \A k \in FlagPositions : k < i' => argv[k] = "--compare" \/ HasValue(k)
  BY <1>3 DEF WalkInv
<1>8. ASSUME NEW f \in DOMAIN opts
      PROVE  \/ Passed(f)' = {} /\ opts'[f] = Defaults[f]
             \/ \E k \in Passed(f)' : opts'[f] = GivenAt(k) /\ \A m \in Passed(f)' : m <= k
  <2>1. CASE f = argv[i]
    <3>1. Passed(f)' = Passed(f) \cup {i}
      BY <1>3, <1>4, <1>5, <2>1 DEF Passed
    <3>2. opts'[f] = GivenAt(i)
      BY <1>6, <2>1
    <3>3. \A m \in Passed(f)' : m <= i
      <4>1. FlagPositions \subseteq Nat
        BY <1>1, FlagPositionsAre
      <4>2. \A m \in Passed(f) : m \in Nat /\ m < i
        BY <4>1 DEF Passed
      <4>. QED  BY <1>1, <3>1, <4>2
    <3>. QED  BY <3>1, <3>2, <3>3
  <2>2. CASE f # argv[i]
    <3>1. Passed(f)' = Passed(f)
      BY <1>3, <1>5, <2>2 DEF Passed
    <3>2. opts'[f] = opts[f]
      BY <2>2
    <3>. QED  BY <3>1, <3>2 DEF WalkInv
  <2>. QED  BY <2>1, <2>2
<1>9. DOMAIN opts' = DOMAIN opts
  OBVIOUS
<1>10. \A k : GivenAt(k)' = GivenAt(k) /\ HasValue(k)' = HasValue(k)
  BY DEF GivenAt, HasValue
<1>11. FlagPlace(i)'
  BY <1>3 DEF FlagPlace, RunBefore
<1>12. Defaults' = Defaults
  BY DEF Defaults
<1>. QED  BY <1>1, <1>3, <1>5, <1>7, <1>8, <1>9, <1>10, <1>11, <1>12 DEF WalkInv


\* parse_args returns where it is, with what it has.
LEMMA ReturnKeepsWalk ==
    ASSUME WalkInv, UNCHANGED <<argv, i, opts>>
    PROVE  WalkInv'
<1>1. argv' = argv /\ i' = i /\ opts' = opts
  OBVIOUS
<1>2. /\ FlagPositions' = FlagPositions
      /\ FlagPlace(i)' = FlagPlace(i)
      /\ Defaults' = Defaults
      /\ \A k : GivenAt(k)' = GivenAt(k) /\ HasValue(k)' = HasValue(k)
  BY <1>1 DEF FlagPositions, FlagPlace, RunBefore, GivenAt, HasValue, Defaults
<1>3. \A f : Passed(f)' = Passed(f)
  BY <1>1, <1>2 DEF Passed
<1>. QED  BY <1>1, <1>2, <1>3 DEF WalkInv

LEMMA ParseKeeps == ParseInv /\ [ParseNext]_parseVars => ParseInv'
<1>. SUFFICES ASSUME ParseInv, [ParseNext]_parseVars PROVE ParseInv'
  OBVIOUS
<1>. USE DEF ParseInv
<1>1. "--compare" \notin ValueFlags \cup HelpFlags /\ HelpFlags \cap ValueFlags = {}
  BY DEF ValueFlags, UnsignedFlags, RealFlags, TextFlags, HelpFlags
<1>2. i \in Nat /\ Len(argv) \in Nat
  BY DEF WalkInv
<1>3. CASE UNCHANGED parseVars
  <2>1. argv' = argv /\ i' = i /\ opts' = opts /\ status' = status
    BY <1>3 DEF parseVars
  <2>2. OutcomeInv'
    BY <2>1 DEF OutcomeInv, HasValue
  <2>. QED  BY <2>1, <2>2, ReturnKeepsWalk
<1>4. CASE Help
  <2>1. argv' = argv /\ i' = i /\ opts' = opts /\ status' = "HelpRequested"
    BY <1>4 DEF Help, Return
  <2>2. OutcomeInv'
    BY <1>4, <2>1 DEF OutcomeInv, Help, AtFlag
  <2>. QED  BY <2>1, <2>2, ReturnKeepsWalk
<1>5. CASE Compare
  <2>1. /\ status = "parsing" /\ i <= Len(argv) /\ argv[i] = "--compare" /\ status' = status
        /\ argv' = argv /\ opts' = [opts EXCEPT !["--compare"] = "true"] /\ i' = i + 1
    BY <1>5 DEF Compare, AtFlag
  <2>2. opts' = [opts EXCEPT ![argv[i]] = GivenAt(i)]
    BY <2>1 DEF GivenAt
  <2>3. WalkInv'
    BY <2>1, <2>2, WalkStep
  <2>4. OutcomeInv'
    BY <2>1 DEF OutcomeInv
  <2>. QED  BY <2>3, <2>4
<1>6. CASE Reject
  <2>1. argv' = argv /\ i' = i /\ opts' = opts /\ status' = "Error"
    BY <1>6 DEF Reject, Return
  <2>2. argv[i] \notin HelpFlags \cup {"--compare"} /\ ~ HasValue(i)
    BY <1>6 DEF Reject, AtFlag
  <2>3. OutcomeInv'
    BY <2>1, <2>2 DEF OutcomeInv, HasValue
  <2>. QED  BY <2>1, <2>3, ReturnKeepsWalk
<1>7. CASE TakeValue
  <2>1. /\ status = "parsing" /\ i <= Len(argv) /\ argv[i] \in ValueFlags /\ HasValue(i)
        /\ opts' = [opts EXCEPT ![argv[i]] = ValueOf(argv[i], argv[i + 1])]
        /\ argv' = argv /\ i' = i + 2 /\ status' = status
    BY <1>7 DEF TakeValue, AtFlag
  <2>2. argv[i] # "--compare" /\ opts' = [opts EXCEPT ![argv[i]] = GivenAt(i)]
    BY <1>1, <2>1 DEF GivenAt
  <2>3. WalkInv'
    BY <2>1, <2>2, WalkStep
  <2>4. OutcomeInv'
    BY <2>1 DEF OutcomeInv
  <2>. QED  BY <2>3, <2>4
<1>8. CASE Finish
  <2>1. argv' = argv /\ i' = i /\ opts' = opts /\ status' \in {"Run", "Error"} /\ i > Len(argv)
    BY <1>8 DEF Finish, Return
  <2>2. OutcomeInv'
    BY <2>1 DEF OutcomeInv
  <2>. QED  BY <2>1, <2>2, ReturnKeepsWalk
<1>. QED  BY <1>3, <1>4, <1>5, <1>6, <1>7, <1>8 DEF ParseNext

LEMMA ParseAlways == ParseSpec => []ParseInv
  BY ParseStarts, ParseKeeps, PTL DEF ParseSpec

\* What an option gets from a flag is never the token for no value.
LEMMA GivenIsSome ==
    ASSUME WalkInv, NEW k \in DOMAIN argv, argv[k] = "--compare" \/ HasValue(k)
    PROVE  GivenAt(k) # None
<1>1. CASE argv[k] = "--compare"
  BY <1>1 DEF GivenAt, None
<1>2. CASE argv[k] # "--compare"
  <2>1. argv[k] \in ValueFlags /\ k + 1 \in DOMAIN argv /\ ValueOf(argv[k], argv[k + 1]) # Bad
    BY <1>2 DEF HasValue, WalkInv
  <2>2. argv[k + 1] \in Arguments
    BY <2>1 DEF WalkInv
  <2>3. argv[k + 1] # None
    BY <2>2, OptionsAssumption
  <2>4. ValueOf(argv[k], argv[k + 1]) # None
    <3>1. UnsignedFlags \cap RealFlags = {} /\ UnsignedFlags \cap TextFlags = {}
          /\ RealFlags \cap TextFlags = {}
      BY DEF UnsignedFlags, RealFlags, TextFlags
    <3>2. CASE argv[k] \in UnsignedFlags
      <4>1. ValueOf(argv[k], argv[k + 1]) = ParseUnsigned(argv[k + 1])
        BY <3>1, <3>2 DEF ValueOf
      <4>2. ParseUnsigned(argv[k + 1]) \in {"0", "2", "bad"}
        BY DEF ParseUnsigned, Bad
      <4>. QED  BY <4>1, <4>2 DEF None
    <3>3. CASE argv[k] \in RealFlags
      <4>1. ValueOf(argv[k], argv[k + 1]) = ParseReal(argv[k + 1])
        BY <3>1, <3>3 DEF ValueOf
      <4>2. ParseReal(argv[k + 1]) \in {"zero", "positive", "negative", "infinite", "nan", "bad"}
        BY DEF ParseReal, Bad
      <4>. QED  BY <4>1, <4>2 DEF None
    <3>4. CASE argv[k] \in TextFlags
      <4>1. ValueOf(argv[k], argv[k + 1]) = argv[k + 1]
        BY <3>1, <3>4 DEF ValueOf
      <4>. QED  BY <2>3, <4>1
    <3>. QED  BY <2>1, <3>2, <3>3, <3>4 DEF ValueFlags
  <2>. QED  BY <1>2, <2>4 DEF GivenAt
<1>. QED  BY <1>1, <1>2

\* An accepted command line has every option at what its last flag says,
\* however many flags there are and wherever a value looks like a flag.
THEOREM LastFlagWins == ParseSpec => []LastOccurrenceWins
<1>1. ASSUME ParseInv, status = "Run", NEW f \in DOMAIN opts
      PROVE  opts[f] = IF LastGiven(f) = None THEN Defaults[f] ELSE LastGiven(f)
  <2>. DEFINE Given == {k \in FlagPositions : argv[k] = f}
  <2>1. /\ FlagPositions \subseteq DOMAIN argv /\ DOMAIN argv = 1 .. Len(argv)
        /\ Len(argv) \in Nat /\ i \in Nat
    BY <1>1, FlagPositionsAre DEF ParseInv, WalkInv
  <2>2. \A k \in FlagPositions : k < i /\ k \in Nat
    <3>1. i > Len(argv)
      BY <1>1 DEF ParseInv, OutcomeInv
    <3>. QED  BY <2>1, <3>1
  <2>3. Passed(f) = Given
    BY <2>2 DEF Passed
  <2>4. LastGiven(f) =
          IF Given = {} THEN None
          ELSE LET last == CHOOSE k \in Given : \A m \in Given : m <= k
               IN  IF f = "--compare" THEN "true" ELSE ValueOf(f, argv[last + 1])
    BY DEF LastGiven
  <2>5. CASE Given = {}
    <3>1. opts[f] = Defaults[f]
      BY <1>1, <2>3, <2>5 DEF ParseInv, WalkInv
    <3>. QED  BY <2>4, <2>5, <3>1
  <2>6. CASE Given # {}
    <3>1. PICK k \in Given : opts[f] = GivenAt(k) /\ \A m \in Given : m <= k
      BY <1>1, <2>3, <2>6 DEF ParseInv, WalkInv
    <3>. DEFINE last == CHOOSE h \in Given : \A m \in Given : m <= h
    <3>2. last \in Given /\ \A m \in Given : m <= last
      <4>. HIDE DEF Given
      <4>. QED  BY <3>1
    <3>3. last = k
      <4>1. last <= k /\ k <= last /\ last \in Nat /\ k \in Nat
        BY <2>2, <3>1, <3>2
      <4>. HIDE DEF last
      <4>. QED  BY <4>1
    <3>4. argv[k] = f
      OBVIOUS
    <3>5. LastGiven(f) = GivenAt(k)
      BY <2>4, <2>6, <3>3, <3>4 DEF GivenAt
    <3>6. GivenAt(k) # None
      <4>1. k \in DOMAIN argv /\ (argv[k] = "--compare" \/ HasValue(k)) /\ WalkInv
        BY <1>1, <2>1, <2>2 DEF ParseInv, WalkInv
      <4>. QED  BY <4>1, GivenIsSome
    <3>. QED  BY <3>1, <3>5, <3>6
  <2>. QED  BY <2>5, <2>6
<1>2. ParseInv => LastOccurrenceWins
  BY <1>1 DEF LastOccurrenceWins
<1>. QED  BY <1>2, ParseAlways, PTL

\* Help asked for before anything is wrong is given, and anything wrong before
\* help is asked for is reported, on every command line.
THEOREM FirstStopDecides == ParseSpec => []FirstProblemDecides
<1>1. ASSUME ParseInv PROVE FirstProblemDecides
  <2>. DEFINE Stops == {k \in FlagPositions : argv[k] # "--compare" /\ ~ HasValue(k)}
              first == CHOOSE k \in Stops : \A m \in Stops : k <= m
  <2>. SUFFICES ASSUME status # "parsing"
                PROVE  IF Stops = {} THEN status \in {"Run", "Error"}
                       ELSE status = IF argv[first] \in HelpFlags THEN "HelpRequested" ELSE "Error"
    BY DEF FirstProblemDecides
  <2>1. /\ FlagPositions \subseteq DOMAIN argv /\ DOMAIN argv = 1 .. Len(argv)
        /\ Len(argv) \in Nat /\ i \in Nat \ {0}
    BY <1>1, FlagPositionsAre DEF ParseInv, WalkInv
  <2>2. \A k \in Stops : k \in Nat /\ k <= Len(argv) /\ ~ (k < i)
    BY <1>1, <2>1 DEF ParseInv, WalkInv
  <2>3. "--compare" \notin ValueFlags \cup HelpFlags /\ HelpFlags \cap ValueFlags = {}
    BY DEF ValueFlags, UnsignedFlags, RealFlags, TextFlags, HelpFlags
  <2>4. CASE i > Len(argv)
    <3>1. Stops = {}
      <4>. HIDE DEF Stops
      <4>. QED  BY <2>1, <2>2, <2>4
    <3>2. status \in {"Run", "Error"}
      BY <1>1, <2>1, <2>4 DEF ParseInv, OutcomeInv
    <3>. QED  BY <3>1, <3>2
  <2>5. CASE i <= Len(argv)
    <3>1. status \in {"HelpRequested", "Error"}
      BY <1>1, <2>1, <2>5 DEF ParseInv, OutcomeInv
    <3>2. /\ status = "HelpRequested" => argv[i] \in HelpFlags
          /\ status = "Error" => argv[i] \notin HelpFlags
          /\ argv[i] # "--compare" /\ ~ HasValue(i)
      <4>1. argv[i] \in HelpFlags => argv[i] # "--compare" /\ ~ HasValue(i)
        BY <2>3 DEF HasValue
      <4>2. ~ (i > Len(argv))
        BY <2>1, <2>5
      <4>. QED  BY <1>1, <3>1, <4>1, <4>2 DEF ParseInv, OutcomeInv
    <3>3. i \in Stops
      <4>1. i \in FlagPositions
        BY <1>1, <2>1, <2>5, FlagPositionsAre DEF ParseInv, WalkInv
      <4>. QED  BY <3>2, <4>1
    <3>4. first = i
      <4>1. \A m \in Stops : i <= m
        BY <2>1, <2>2
      <4>. HIDE DEF Stops
      <4>2. first \in Stops /\ \A m \in Stops : first <= m
        BY <3>3, <4>1
      <4>3. first <= i /\ i <= first /\ first \in Nat /\ i \in Nat
        BY <2>1, <2>2, <3>3, <4>1, <4>2
      <4>. HIDE DEF first
      <4>. QED  BY <4>3
    <3>5. Stops # {}
      BY <3>3
    <3>. HIDE DEF Stops
    <3>6. argv[first] \in HelpFlags <=> status = "HelpRequested"
      BY <3>1, <3>2, <3>4
    <3>. QED  BY <3>1, <3>5, <3>6
  <2>. QED  BY <2>1, <2>4, <2>5
<1>. QED  BY <1>1, ParseAlways, PTL

--------------------------------------------------------------------------------
(* The generator *)

LOCAL INSTANCE FiniteSetsExt

JobDrawn == [request : Resources, duration : Nat, estimated_duration : Nat, submit_time : Nat]

--------------------------------------------------------------------------------
(* Draws *)

\* Dividing what is at least k times b, and at most k times c, by k.
LEMMA QuotientBetween ==
    ASSUME NEW a \in Nat, NEW k \in Nat \ {0}, NEW b \in Nat, NEW c \in Nat,
           k * b <= a, a <= k * c
    PROVE  b <= a \div k /\ a \div k <= c /\ a \div k \in Nat
<1>. DEFINE q == a \div k
            r == a % k
<1>1. a = k * q + r /\ q \in Int /\ r \in Int /\ 0 <= r /\ r < k
  OBVIOUS
<1>. HIDE DEF q, r
<1>2. b <= q
  <2>1. SUFFICES ASSUME q <= b - 1 PROVE FALSE
    BY <1>1
  <2>2. k * q <= k * (b - 1)
    BY <1>1, <2>1
  <2>3. k * (b - 1) = k * b - k
    OBVIOUS
  <2>. QED  BY <1>1, <2>2, <2>3
<1>3. q <= c
  <2>1. SUFFICES ASSUME c + 1 <= q PROVE FALSE
    BY <1>1
  <2>2. k * (c + 1) <= k * q
    BY <1>1, <2>1
  <2>3. k * (c + 1) = k * c + k
    OBVIOUS
  <2>. QED  BY <1>1, <2>2, <2>3
<1>. QED  BY <1>1, <1>2, <1>3 DEF q

\* A draw of ticks is one, and the tick itself if there is such a tick.
LEMMA TickOfDraw ==
    ASSUME NEW x \in Nat, NEW t \in ToTick(x)
    PROVE  t \in Nat /\ (x <= MaxTick => t = x)
  BY GeneratorAssumption DEF ToTick

\* No draw is longer than the longest.
LEMMA LongestDraw ==
    ASSUME NEW mean \in Nat
    PROVE  /\ Longest(mean) \in Nat
           /\ \A r \in Raw : /\ (MinusLn[r] * mean) \div 1000 \in Nat
                             /\ (MinusLn[r] * mean) \div 1000 <= Longest(mean)
<1>. DEFINE f == [r \in Raw |-> (MinusLn[r] * mean) \div 1000]
            S == {(MinusLn[r] * mean) \div 1000 : r \in Raw}
<1>1. \A r \in Raw : (MinusLn[r] * mean) \div 1000 \in Nat
  <2>1. ASSUME NEW r \in Raw
        PROVE  (MinusLn[r] * mean) \div 1000 \in Nat
    <3>1. MinusLn[r] \in Nat
      BY GeneratorAssumption DEF Raw
    <3>2. MinusLn[r] * mean \in Nat
      BY <3>1
    <3>. QED  BY <3>2
  <2>. QED  BY <2>1
<1>2. Raw = 0 .. Words - 1 /\ Words \in Nat \ {0}
  BY GeneratorAssumption DEF Raw
<1>3. PICK x \in S : \A y \in S : x >= y
  <2>1. \A r \in 0 .. Words - 1 : f[r] \in Nat
    BY <1>1, <1>2
  <2>2. S = {f[r] : r \in 0 .. Words - 1}
    BY <1>2
  <2>. HIDE DEF S, f
  <2>. QED  BY <1>2, <2>1, <2>2, GreatestListed
<1>4. Longest(mean) \in S /\ \A y \in S : Longest(mean) >= y
  <2>. HIDE DEF S
  <2>1. (CHOOSE z \in S : \A y \in S : z >= y) \in S
        /\ \A y \in S : (CHOOSE z \in S : \A y_1 \in S : z >= y_1) >= y
    BY <1>3
  <2>2. Longest(mean) = CHOOSE z \in S : \A y \in S : z >= y
    BY DEF Longest, Max, S
  <2>. QED  BY <2>1, <2>2
<1>. QED  BY <1>1, <1>4

\* The workload that arguments that fit lead to: durations no longer than the
\* longest of a profile, submit times in order and below what all gaps come to.
LEMMA GapsFit ==
    ASSUME ArgumentsFit, count \in Nat, mean_gap \in Nat, NEW n \in Nat, n + 1 <= count
    PROVE  n * Longest(mean_gap) + Longest(mean_gap) <= MaxTick /\ Longest(mean_gap) <= MaxTick
<1>. DEFINE l == Longest(mean_gap)
<1>1. l \in Nat /\ count * l <= MaxTick
  BY LongestDraw DEF ArgumentsFit
<1>. HIDE DEF l
<1>2. (n + 1) * l <= count * l
  BY <1>1
<1>3. (n + 1) * l = n * l + l /\ 0 <= n * l
  BY <1>1
<1>4. n * l \in Nat /\ count * l \in Nat /\ MaxTick \in Nat
  BY <1>1, GeneratorAssumption
<1>. QED  BY <1>1, <1>2, <1>3, <1>4 DEF l

\* An estimate of a duration that fits covers it and stays within the padding.
LEMMA EstimateCovers ==
    ASSUME padding \in Nat, NEW duration \in Nat, (1 + padding) * duration <= MaxTick,
           NEW u \in Raw, NEW estimate \in Estimate(duration, u)
    PROVE  duration <= estimate /\ estimate <= (1 + padding) * duration
<1>. DEFINE a == Words * duration + padding * duration * Uniform(u)
            c == (1 + padding) * duration
            v == Uniform(u)
            pd == padding * duration
<1>1. Words \in Nat \ {0} /\ v \in Nat /\ v <= Words /\ pd \in Nat /\ c = duration + pd
  BY GeneratorAssumption DEF Raw, Uniform
<1>2. a = Words * duration + pd * v
  OBVIOUS
<1>. HIDE DEF v, pd
<1>3. pd * v \in Nat /\ pd * v <= pd * Words
  BY <1>1
<1>4. Words * c = Words * duration + pd * Words /\ Words * duration \in Nat /\ pd * Words \in Nat
  BY <1>1
<1>. HIDE DEF c
<1>5. a \in Nat /\ Words * duration <= a /\ a <= Words * c /\ c \in Nat
  <2>1. c \in Nat
    BY <1>1
  <2>. HIDE DEF a
  <2>. QED  BY <1>2, <1>3, <1>4, <2>1
<1>6. duration <= a \div Words /\ a \div Words <= c /\ a \div Words \in Nat
  <2>. HIDE DEF a
  <2>. QED  BY <1>1, <1>5, QuotientBetween
<1>7. estimate \in ToTick(a \div Words)
  BY DEF Estimate, v, pd
<1>. HIDE DEF a
<1>8. c <= MaxTick /\ MaxTick \in Nat
  BY GeneratorAssumption DEF c
<1>9. estimate = a \div Words
  BY <1>5, <1>6, <1>7, <1>8, TickOfDraw
<1>. QED  BY <1>6, <1>9 DEF c

--------------------------------------------------------------------------------
(* The invariant *)

\* The two passes, and what they have drawn.
PassInv ==
    /\ count \in Nat /\ padding \in Nat /\ mean_gap \in Nat /\ estimated \in Nat
    /\ drawn \in Seq(Raw) /\ jobs \in Seq(JobDrawn) /\ cur_tick \in Nat
    /\ Len(jobs) <= count /\ estimated <= Len(jobs)
    /\ estimated > 0 => Len(jobs) = count
    /\ Len(drawn) = 3 * Len(jobs) + estimated
    /\ cur_tick = IF jobs = <<>> THEN 0 ELSE jobs[Len(jobs)].submit_time

\* What the jobs are like, as far as they are drawn.
JobsInv ==
    /\ \A j \in DOMAIN jobs : CanFit(Capacity, jobs[j].request)
    /\ ArgumentsFit =>
        /\ cur_tick <= Len(jobs) * Longest(mean_gap)
        /\ \A j \in DOMAIN jobs :
            /\ (1 + padding) * jobs[j].duration <= MaxTick
            /\ j < Len(jobs) => jobs[j].submit_time <= jobs[j + 1].submit_time
            /\ j <= estimated =>
                /\ jobs[j].duration <= jobs[j].estimated_duration
                /\ jobs[j].estimated_duration <= (1 + padding) * jobs[j].duration

GeneratorInv == PassInv /\ JobsInv /\ PaddingShiftsNothing

LEMMA GeneratorStarts == Init => GeneratorInv
<1>. SUFFICES ASSUME Init PROVE GeneratorInv
  OBVIOUS
<1>1. PassInv
  BY GeneratorAssumption DEF Init, PassInv
<1>2. Len(jobs) = 0 /\ DOMAIN jobs = {}
  BY DEF Init
<1>3. 0 <= 0 * Longest(mean_gap)
  <2>. DEFINE longest == Longest(mean_gap)
  <2>1. longest \in Nat
    <3>1. mean_gap \in Nat
      BY <1>1 DEF PassInv
    <3>. QED  BY <3>1, LongestDraw
  <2>. HIDE DEF longest
  <2>2. 0 <= 0 * longest
    BY <2>1
  <2>. QED  BY <2>2 DEF longest
<1>4. PaddingShiftsNothing
  BY <1>2 DEF PaddingShiftsNothing
<1>5. cur_tick <= Len(jobs) * Longest(mean_gap)
  <2>1. cur_tick = 0
    BY DEF Init
  <2>. QED  BY <1>2, <1>3, <2>1
<1>6. JobsInv
  BY <1>2, <1>5 DEF JobsInv
<1>. QED  BY <1>1, <1>4, <1>6 DEF GeneratorInv

\* What is added behind a sequence moves nothing in it.
LEMMA ThreeMore ==
    ASSUME NEW S, NEW s \in Seq(S), NEW a \in S, NEW b \in S, NEW c \in S,
           NEW t, t = s \o <<a, b, c>>
    PROVE  /\ t \in Seq(S) /\ Len(t) = Len(s) + 3
           /\ \A h \in 1 .. Len(s) : t[h] = s[h]
           /\ t[Len(s) + 1] = a /\ t[Len(s) + 2] = b /\ t[Len(s) + 3] = c
<1>1. <<a, b, c>> \in Seq(S) /\ Len(<<a, b, c>>) = 3
  OBVIOUS
<1>2. s \o <<a, b, c>> \in Seq(S) /\ Len(s \o <<a, b, c>>) = Len(s) + 3
  BY <1>1
<1>. QED  BY <1>1, <1>2

\* One job more.
LEMMA JobKeeps ==
    ASSUME GeneratorInv, DrawJob
    PROVE  GeneratorInv'
<1>. DEFINE l == Len(jobs)
<1>1. PICK p \in Raw, d \in Raw, g \in Raw :
        \E duration \in Exponential(ProfileOf(p).mean_duration, d), gap \in Interarrival(g) :
            /\ drawn' = drawn \o <<p, d, g>>
            /\ cur_tick' = (cur_tick + gap) % (MaxTick + 1)
            /\ jobs' = Append(jobs,
                    [request |-> ProfileOf(p).request,
                     duration |-> duration,
                     estimated_duration |-> 0,
                     submit_time |-> cur_tick'])
  BY DEF DrawJob
<1>2. PICK duration \in Exponential(ProfileOf(p).mean_duration, d), gap \in Interarrival(g) :
            /\ drawn' = drawn \o <<p, d, g>>
            /\ cur_tick' = (cur_tick + gap) % (MaxTick + 1)
            /\ jobs' = Append(jobs,
                    [request |-> ProfileOf(p).request,
                     duration |-> duration,
                     estimated_duration |-> 0,
                     submit_time |-> cur_tick'])
  BY <1>1
<1>3. /\ count' = count /\ padding' = padding /\ mean_gap' = mean_gap /\ estimated' = estimated
      /\ l < count /\ l \in Nat /\ estimated = 0 /\ count \in Nat /\ padding \in Nat
      /\ mean_gap \in Nat /\ cur_tick \in Nat /\ jobs \in Seq(JobDrawn) /\ drawn \in Seq(Raw)
      /\ Len(drawn) = 3 * l
  BY DEF DrawJob, GeneratorInv, PassInv
<1>4. \E q \in DOMAIN Profiles : ProfileOf(p) = Profiles[q]
  <2>1. p % Len(Profiles) \in 0 .. Len(Profiles) - 1
    BY GeneratorAssumption DEF Raw
  <2>2. (p % Len(Profiles)) + 1 \in 1 .. Len(Profiles)
    BY <2>1, GeneratorAssumption
  <2>. QED  BY <2>2, GeneratorAssumption DEF ProfileOf
<1>5. PICK q \in DOMAIN Profiles : ProfileOf(p) = Profiles[q]
  BY <1>4
<1>6. /\ ProfileOf(p).request \in Resources /\ CanFit(Capacity, ProfileOf(p).request)
      /\ ProfileOf(p).mean_duration \in Nat
  <2>. DEFINE Kind == [request : Resources, mean_duration : Nat]
  <2>1. Profiles \in Seq(Kind) /\ q \in 1 .. Len(Profiles)
    BY GeneratorAssumption
  <2>. HIDE DEF Kind
  <2>2. Profiles[q] \in Kind
    BY <2>1
  <2>3. Profiles[q].request \in Resources /\ Profiles[q].mean_duration \in Nat
    BY <2>2 DEF Kind
  <2>. QED  BY <1>5, <2>3, GeneratorAssumption
<1>. DEFINE mean == ProfileOf(p).mean_duration
            x == (MinusLn[d] * mean) \div 1000
            y == (MinusLn[g] * mean_gap) \div 1000
<1>7. /\ x \in Nat /\ x <= Longest(mean)
      /\ y \in Nat /\ y <= Longest(mean_gap)
      /\ Longest(mean) \in Nat /\ Longest(mean_gap) \in Nat
  <2>1. \A m \in Nat : \A r \in Raw :
            /\ Longest(m) \in Nat
            /\ (MinusLn[r] * m) \div 1000 \in Nat
            /\ (MinusLn[r] * m) \div 1000 <= Longest(m)
    BY LongestDraw
  <2>. HIDE DEF mean
  <2>2. Longest(mean) \in Nat /\ x \in Nat /\ x <= Longest(mean)
    BY <1>6, <2>1 DEF mean
  <2>3. Longest(mean_gap) \in Nat /\ y \in Nat /\ y <= Longest(mean_gap)
    <3>1. mean_gap \in Nat
      BY <1>3
    <3>. QED  BY <2>1, <3>1
  <2>. QED  BY <2>2, <2>3
<1>8. duration \in ToTick(x) /\ gap \in ToTick(y)
  BY <1>2 DEF Exponential, Interarrival
<1>. HIDE DEF x, y
<1>9. /\ duration \in Nat /\ (x <= MaxTick => duration = x)
      /\ gap \in Nat /\ (y <= MaxTick => gap = y)
  BY <1>7, <1>8, TickOfDraw
<1>10. cur_tick' \in Nat
  BY <1>2, <1>3, <1>9, GeneratorAssumption
<1>. DEFINE new == [request |-> ProfileOf(p).request, duration |-> duration,
                    estimated_duration |-> 0, submit_time |-> cur_tick']
<1>11. new \in JobDrawn
  BY <1>6, <1>9, <1>10 DEF JobDrawn
<1>12. /\ jobs' \in Seq(JobDrawn) /\ Len(jobs') = l + 1 /\ jobs'[l + 1] = new
       /\ \A j \in DOMAIN jobs : j \in Nat /\ 1 <= j /\ j <= l /\ jobs'[j] = jobs[j]
       /\ DOMAIN jobs' = DOMAIN jobs \cup {l + 1} /\ DOMAIN jobs = 1 .. l
  <2>. HIDE DEF new
  <2>1. jobs' = Append(jobs, new)
    BY <1>2 DEF new
  <2>. QED  BY <1>3, <1>11, <2>1
<1>13. /\ drawn' \in Seq(Raw) /\ Len(drawn') = 3 * (l + 1)
       /\ \A h \in 1 .. 3 * l : drawn'[h] = drawn[h]
       /\ drawn'[3 * l + 1] = p /\ drawn'[3 * l + 2] = d /\ drawn'[3 * l + 3] = g
  <2>1. drawn' = drawn \o <<p, d, g>> /\ drawn \in Seq(Raw) /\ Len(drawn) = 3 * l /\ l \in Nat
    BY <1>2, <1>3
  <2>. DEFINE more == drawn'
  <2>2. p \in Raw /\ d \in Raw /\ g \in Raw /\ more = drawn \o <<p, d, g>>
    BY <2>1
  <2>. HIDE DEF more
  <2>3. /\ more \in Seq(Raw) /\ Len(more) = Len(drawn) + 3
        /\ \A h \in 1 .. Len(drawn) : more[h] = drawn[h]
        /\ more[Len(drawn) + 1] = p /\ more[Len(drawn) + 2] = d /\ more[Len(drawn) + 3] = g
    <3>1. more \in Seq(Raw)
      BY <2>1, <2>2, ThreeMore
    <3>2. Len(more) = Len(drawn) + 3
      BY <2>1, <2>2, ThreeMore
    <3>3. \A h \in 1 .. Len(drawn) : more[h] = drawn[h]
      BY <2>1, <2>2, ThreeMore
    <3>4. more[Len(drawn) + 1] = p /\ more[Len(drawn) + 2] = d /\ more[Len(drawn) + 3] = g
      BY <2>1, <2>2, ThreeMore
    <3>. QED  BY <3>1, <3>2, <3>3, <3>4
  <2>4. 3 * (l + 1) = 3 * l + 3
    BY <2>1
  <2>. QED  BY <2>1, <2>3, <2>4 DEF more
<1>14. new.submit_time = cur_tick' /\ new.duration = duration /\ new.request = ProfileOf(p).request
  OBVIOUS
<1>. HIDE DEF new
<1>15. PassInv'
  <2>1. jobs' # <<>>
    BY <1>12
  <2>. QED  BY <1>3, <1>10, <1>12, <1>13, <1>14, <2>1 DEF PassInv, l
<1>16. PaddingShiftsNothing'
  <2>1. ASSUME NEW j \in DOMAIN jobs'
        PROVE  LET before == IF j = 1 THEN 0 ELSE jobs'[j - 1].submit_time
               IN  /\ jobs'[j].request = ProfileOf(drawn'[3 * j - 2]).request
                   /\ jobs'[j].duration \in
                        Exponential(ProfileOf(drawn'[3 * j - 2]).mean_duration, drawn'[3 * j - 1])
                   /\ \E z \in Interarrival(drawn'[3 * j]) :
                        jobs'[j].submit_time = (before + z) % (MaxTick + 1)
    <3>1. CASE j \in DOMAIN jobs
      <4>1. /\ drawn'[3 * j - 2] = drawn[3 * j - 2] /\ drawn'[3 * j - 1] = drawn[3 * j - 1]
            /\ drawn'[3 * j] = drawn[3 * j]
        BY <1>3, <1>12, <1>13, <3>1
      <4>2. jobs'[j] = jobs[j] /\ (j # 1 => jobs'[j - 1] = jobs[j - 1])
        BY <1>12, <3>1
      <4>. QED  BY <3>1, <4>1, <4>2 DEF GeneratorInv, PaddingShiftsNothing
    <3>2. CASE j = l + 1
      <4>1. drawn'[3 * j - 2] = p /\ drawn'[3 * j - 1] = d /\ drawn'[3 * j] = g
        <5>1. 3 * j - 2 = 3 * l + 1 /\ 3 * j - 1 = 3 * l + 2 /\ 3 * j = 3 * l + 3
          BY <1>3, <3>2
        <5>. QED  BY <1>13, <5>1
      <4>2. cur_tick = IF j = 1 THEN 0 ELSE jobs'[j - 1].submit_time
        <5>1. CASE l = 0
          BY <1>3, <3>2, <5>1 DEF GeneratorInv, PassInv
        <5>2. CASE l # 0
          <6>1. jobs # <<>> /\ j - 1 = l /\ l \in DOMAIN jobs /\ j # 1
            BY <1>3, <1>12, <3>2, <5>2
          <6>. QED  BY <1>12, <6>1 DEF GeneratorInv, PassInv
        <5>. QED  BY <5>1, <5>2
      <4>. QED  BY <1>2, <1>12, <1>14, <3>2, <4>1, <4>2
    <3>. QED  BY <1>12, <3>1, <3>2
  <2>. QED  BY <1>3, <2>1 DEF PaddingShiftsNothing, Interarrival
<1>17. JobsInv'
  <2>1. \A j \in DOMAIN jobs' : CanFit(Capacity, jobs'[j].request)
    BY <1>6, <1>12, <1>14 DEF GeneratorInv, JobsInv
  <2>2. ASSUME ArgumentsFit
        PROVE  /\ cur_tick' <= (l + 1) * Longest(mean_gap)
               /\ cur_tick <= cur_tick'
               /\ (1 + padding) * duration <= MaxTick
    <3>1. l * Longest(mean_gap) + Longest(mean_gap) <= MaxTick /\ Longest(mean_gap) <= MaxTick
      BY <1>3, <2>2, GapsFit
    <3>2. cur_tick <= l * Longest(mean_gap)
      BY <2>2 DEF GeneratorInv, JobsInv
    <3>3. MaxTick \in Nat /\ l * Longest(mean_gap) \in Nat
      BY <1>3, <1>7, GeneratorAssumption
    <3>4. gap = y
      BY <1>7, <1>9, <3>1, <3>3
    <3>5. cur_tick + gap <= l * Longest(mean_gap) + Longest(mean_gap) /\ cur_tick + gap <= MaxTick
      <4>. HIDE DEF l
      <4>. QED  BY <1>3, <1>7, <1>9, <3>1, <3>2, <3>3, <3>4
    <3>6. cur_tick' = cur_tick + gap
      <4>1. cur_tick + gap \in 0 .. MaxTick
        BY <1>3, <1>9, <3>5
      <4>2. \A k \in Nat : \A z \in 0 .. k : z % (k + 1) = z
        OBVIOUS
      <4>. QED  BY <1>2, <3>3, <4>1, <4>2
    <3>7. (l + 1) * Longest(mean_gap) = l * Longest(mean_gap) + Longest(mean_gap)
      BY <1>3, <1>7
    <3>8. (1 + padding) * duration <= MaxTick
      <4>. DEFINE m == Longest(mean)
                  most == (1 + padding) * m
      <4>1. most <= MaxTick
        BY <1>5, <2>2 DEF ArgumentsFit
      <4>2. m \in Nat /\ x <= m
        BY <1>7
      <4>. HIDE DEF m
      <4>3. m <= most /\ most \in Nat
        BY <1>3, <4>2
      <4>. HIDE DEF most
      <4>4. duration = x
        BY <1>7, <1>9, <3>3, <4>1, <4>2, <4>3
      <4>. USE DEF most
      <4>5. (1 + padding) * x <= (1 + padding) * m
        BY <1>3, <1>7, <4>2
      <4>. QED  BY <1>3, <1>7, <3>3, <4>1, <4>2, <4>4, <4>5
    <3>. QED  BY <1>3, <1>9, <3>5, <3>6, <3>7, <3>8
  <2>3. ASSUME ArgumentsFit, NEW j \in DOMAIN jobs'
        PROVE  /\ (1 + padding) * jobs'[j].duration <= MaxTick
               /\ j < l + 1 => jobs'[j].submit_time <= jobs'[j + 1].submit_time
               /\ ~ (j <= estimated)
    <3>1. CASE j = l + 1
      BY <1>3, <1>12, <1>14, <2>2, <2>3, <3>1
    <3>2. CASE j \in DOMAIN jobs
      <4>1. /\ (1 + padding) * jobs[j].duration <= MaxTick
            /\ j < l => jobs[j].submit_time <= jobs[j + 1].submit_time
        BY <2>3, <3>2 DEF GeneratorInv, JobsInv
      <4>2. CASE j < l
        <5>1. j + 1 \in DOMAIN jobs
          BY <1>3, <1>12, <3>2, <4>2
        <5>. QED  BY <1>3, <1>12, <3>2, <4>1, <4>2, <5>1
      <4>3. CASE j = l
        <5>0. jobs # <<>> /\ Len(jobs) = j
          <6>1. j \in DOMAIN jobs /\ j = Len(jobs)
            BY <3>2, <4>3
          <6>. QED  BY <6>1
        <5>1. cur_tick = jobs[j].submit_time
          BY <5>0 DEF GeneratorInv, PassInv
        <5>2. jobs'[j + 1].submit_time = cur_tick'
          BY <1>12, <1>14, <4>3
        <5>3. jobs'[j] = jobs[j] /\ j \in Nat /\ l \in Nat
          BY <1>3, <1>12, <3>2
        <5>4. jobs'[j].submit_time <= jobs'[j + 1].submit_time
          BY <2>2, <2>3, <5>1, <5>2, <5>3
        <5>5. (1 + padding) * jobs'[j].duration <= MaxTick
          BY <4>1, <5>3
        <5>6. ~ (j <= estimated)
          BY <1>3, <1>12, <3>2
        <5>. QED  BY <5>4, <5>5, <5>6
      <4>. QED  BY <1>12, <3>2, <4>2, <4>3
    <3>. QED  BY <1>12, <2>3, <3>1, <3>2
  <2>4. ArgumentsFit' <=> ArgumentsFit
    BY <1>3 DEF ArgumentsFit
  <2>5. Longest(mean_gap)' = Longest(mean_gap)
    BY <1>3
  <2>. QED  BY <1>3, <1>12, <2>1, <2>2, <2>3, <2>4, <2>5 DEF JobsInv
<1>. QED  BY <1>15, <1>16, <1>17 DEF GeneratorInv

\* One estimate more.
LEMMA EstimateKeeps ==
    ASSUME GeneratorInv, DrawEstimate
    PROVE  GeneratorInv'
<1>. DEFINE l == Len(jobs)
            e == estimated + 1
<1>1. PICK u \in Raw : \E estimate \in Estimate(jobs[e].duration, u) :
            /\ drawn' = Append(drawn, u)
            /\ jobs' = [jobs EXCEPT ![e].estimated_duration = estimate]
  BY DEF DrawEstimate
<1>2. PICK estimate \in Estimate(jobs[e].duration, u) :
            /\ drawn' = Append(drawn, u)
            /\ jobs' = [jobs EXCEPT ![e].estimated_duration = estimate]
  BY <1>1
<1>3. /\ count' = count /\ padding' = padding /\ mean_gap' = mean_gap
      /\ cur_tick' = cur_tick /\ estimated' = e
      /\ l = count /\ l \in Nat /\ estimated \in Nat /\ e \in 1 .. l /\ estimated < l
      /\ padding \in Nat /\ mean_gap \in Nat /\ cur_tick \in Nat
      /\ drawn \in Seq(Raw) /\ Len(drawn) = 3 * l + estimated
  BY DEF DrawEstimate, GeneratorInv, PassInv
<1>4. jobs \in Seq(JobDrawn) /\ DOMAIN jobs = 1 .. l /\ jobs[e] \in JobDrawn
  <2>1. jobs \in Seq(JobDrawn)
    BY DEF GeneratorInv, PassInv
  <2>. HIDE DEF e
  <2>. QED  BY <1>3, <2>1
<1>5. jobs[e].duration \in Nat
  BY <1>4 DEF JobDrawn
<1>6. estimate \in Nat
  <2>. DEFINE a == (Words * jobs[e].duration + padding * jobs[e].duration * Uniform(u)) \div Words
  <2>1. estimate \in ToTick(a)
    BY <1>2 DEF Estimate
  <2>2. a \in Nat
    <3>. DEFINE b == Words * jobs[e].duration
                v == padding * jobs[e].duration
                c == v * Uniform(u)
    <3>1. Uniform(u) \in Nat /\ Words \in Nat \ {0}
      BY GeneratorAssumption DEF Raw, Uniform
    <3>2. b \in Nat /\ v \in Nat
      BY <1>3, <1>5, <3>1
    <3>. HIDE DEF v
    <3>3. c \in Nat
      <4>. DEFINE w == Uniform(u)
      <4>1. v \in Nat /\ w \in Nat
        BY <3>1, <3>2
      <4>. HIDE DEF w
      <4>2. v * w \in Nat
        BY <4>1
      <4>. QED  BY <4>2 DEF w
    <3>. HIDE DEF b, c
    <3>4. (b + c) \div Words \in Nat
      BY <3>1, <3>2, <3>3
    <3>. QED  BY <3>4 DEF b, c, v
  <2>. HIDE DEF a
  <2>. QED  BY <2>1, <2>2, TickOfDraw
<1>7. /\ DOMAIN jobs' = 1 .. l /\ Len(jobs') = l /\ jobs' \in Seq(JobDrawn)
      /\ \A j \in 1 .. l :
            /\ jobs'[j].request = jobs[j].request
            /\ jobs'[j].duration = jobs[j].duration
            /\ jobs'[j].submit_time = jobs[j].submit_time
            /\ jobs'[j].estimated_duration = IF j = e THEN estimate ELSE jobs[j].estimated_duration
  <2>. DEFINE new == [jobs[e] EXCEPT !.estimated_duration = estimate]
  <2>1. jobs' = [jobs EXCEPT ![e] = new]
    BY <1>2
  <2>2. /\ new \in JobDrawn /\ new.request = jobs[e].request /\ new.duration = jobs[e].duration
        /\ new.submit_time = jobs[e].submit_time /\ new.estimated_duration = estimate
    BY <1>4, <1>6 DEF JobDrawn
  <2>. HIDE DEF new, e, l
  <2>3. jobs' \in Seq(JobDrawn) /\ Len(jobs') = Len(jobs) /\ DOMAIN jobs' = DOMAIN jobs
    BY <1>3, <1>4, <2>1, <2>2
  <2>4. \A j \in 1 .. l : jobs'[j] = IF j = e THEN new ELSE jobs[j]
    BY <1>4, <2>1
  <2>. QED  BY <1>4, <2>2, <2>3, <2>4 DEF l
<1>8. /\ drawn' \in Seq(Raw) /\ Len(drawn') = 3 * l + e
      /\ \A h \in 1 .. 3 * l : drawn'[h] = drawn[h]
  <2>1. drawn' = Append(drawn, u)
    BY <1>2
  <2>. QED  BY <1>3, <2>1
<1>9. PassInv'
  <2>1. /\ jobs # <<>> /\ jobs' # <<>> /\ cur_tick = jobs[l].submit_time
    BY <1>3, <1>4, <1>7 DEF GeneratorInv, PassInv
  <2>2. jobs'[l].submit_time = jobs[l].submit_time
    BY <1>3, <1>7
  <2>3. count \in Nat /\ e \in Nat /\ e <= l
    BY <1>3
  <2>. HIDE DEF e, l
  <2>. QED  BY <1>3, <1>7, <1>8, <2>1, <2>2, <2>3 DEF PassInv
<1>10. PaddingShiftsNothing'
  <2>1. ASSUME NEW j \in DOMAIN jobs'
        PROVE  LET before == IF j = 1 THEN 0 ELSE jobs'[j - 1].submit_time
               IN  /\ jobs'[j].request = ProfileOf(drawn'[3 * j - 2]).request
                   /\ jobs'[j].duration \in
                        Exponential(ProfileOf(drawn'[3 * j - 2]).mean_duration, drawn'[3 * j - 1])
                   /\ \E z \in Interarrival(drawn'[3 * j]) :
                        jobs'[j].submit_time = (before + z) % (MaxTick + 1)
    <3>1. j \in 1 .. l
      BY <1>7
    <3>2. /\ drawn'[3 * j - 2] = drawn[3 * j - 2] /\ drawn'[3 * j - 1] = drawn[3 * j - 1]
          /\ drawn'[3 * j] = drawn[3 * j]
      <4>1. 3 * j - 2 \in 1 .. 3 * l /\ 3 * j - 1 \in 1 .. 3 * l /\ 3 * j \in 1 .. 3 * l
        BY <1>3, <3>1
      <4>. HIDE DEF l
      <4>. QED  BY <1>8, <4>1
    <3>3. j # 1 => jobs'[j - 1].submit_time = jobs[j - 1].submit_time
      BY <1>3, <1>7, <3>1
    <3>4. /\ jobs'[j].request = jobs[j].request /\ jobs'[j].duration = jobs[j].duration
          /\ jobs'[j].submit_time = jobs[j].submit_time /\ j \in DOMAIN jobs
      BY <1>4, <1>7, <3>1
    <3>5. (IF j = 1 THEN 0 ELSE jobs'[j - 1].submit_time)
            = IF j = 1 THEN 0 ELSE jobs[j - 1].submit_time
      BY <3>3
    <3>6. /\ jobs[j].request = ProfileOf(drawn[3 * j - 2]).request
          /\ jobs[j].duration \in
                Exponential(ProfileOf(drawn[3 * j - 2]).mean_duration, drawn[3 * j - 1])
          /\ \E z \in Interarrival(drawn[3 * j]) :
                jobs[j].submit_time =
                    ((IF j = 1 THEN 0 ELSE jobs[j - 1].submit_time) + z) % (MaxTick + 1)
      BY <3>4 DEF GeneratorInv, PaddingShiftsNothing
    <3>. QED  BY <3>2, <3>4, <3>5, <3>6
  <2>. QED  BY <1>3, <2>1 DEF PaddingShiftsNothing, Interarrival
<1>11. JobsInv'
  <2>1. \A j \in DOMAIN jobs' : CanFit(Capacity, jobs'[j].request)
    BY <1>4, <1>7 DEF GeneratorInv, JobsInv
  <2>2. ASSUME ArgumentsFit, NEW j \in DOMAIN jobs'
        PROVE  /\ (1 + padding) * jobs'[j].duration <= MaxTick
               /\ j < l => jobs'[j].submit_time <= jobs'[j + 1].submit_time
               /\ j <= e => /\ jobs'[j].duration <= jobs'[j].estimated_duration
                            /\ jobs'[j].estimated_duration <= (1 + padding) * jobs'[j].duration
    <3>1. j \in 1 .. l /\ j \in DOMAIN jobs
      BY <1>4, <1>7
    <3>2. /\ (1 + padding) * jobs[j].duration <= MaxTick
          /\ j < l => jobs[j].submit_time <= jobs[j + 1].submit_time
          /\ j <= estimated =>
                /\ jobs[j].duration <= jobs[j].estimated_duration
                /\ jobs[j].estimated_duration <= (1 + padding) * jobs[j].duration
      BY <2>2, <3>1 DEF GeneratorInv, JobsInv
    <3>3. (1 + padding) * jobs'[j].duration <= MaxTick
      BY <1>7, <3>1, <3>2
    <3>4. j < l => jobs'[j].submit_time <= jobs'[j + 1].submit_time
      <4>1. SUFFICES ASSUME j < l PROVE jobs'[j].submit_time <= jobs'[j + 1].submit_time
        OBVIOUS
      <4>2. j + 1 \in 1 .. l
        BY <1>3, <3>1, <4>1
      <4>. QED  BY <1>7, <3>1, <3>2, <4>1, <4>2
    <3>5. ASSUME j <= e
          PROVE  /\ jobs'[j].duration <= jobs'[j].estimated_duration
                 /\ jobs'[j].estimated_duration <= (1 + padding) * jobs'[j].duration
      <4>1. CASE j = e
        <5>1. (1 + padding) * jobs[e].duration <= MaxTick
          BY <3>2, <4>1
        <5>2. /\ jobs[e].duration <= estimate
              /\ estimate <= (1 + padding) * jobs[e].duration
          <6>. DEFINE d == jobs[e].duration
          <6>1. d \in Nat /\ padding \in Nat /\ (1 + padding) * d <= MaxTick
                /\ estimate \in Estimate(d, u)
            BY <1>2, <1>3, <1>5, <5>1
          <6>. HIDE DEF d
          <6>2. d <= estimate /\ estimate <= (1 + padding) * d
            BY <6>1, EstimateCovers
          <6>. QED  BY <6>2 DEF d
        <5>. QED  BY <1>7, <3>1, <4>1, <5>2
      <4>2. CASE j # e
        <5>1. j <= estimated
          BY <1>3, <3>1, <3>5, <4>2
        <5>. HIDE DEF e
        <5>. QED  BY <1>7, <3>1, <3>2, <4>2, <5>1
      <4>. QED  BY <4>1, <4>2
    <3>. QED  BY <3>3, <3>4, <3>5
  <2>3. ArgumentsFit' <=> ArgumentsFit
    BY <1>3 DEF ArgumentsFit
  <2>4. ArgumentsFit => cur_tick <= l * Longest(mean_gap)
    BY DEF GeneratorInv, JobsInv
  <2>5. Longest(mean_gap)' = Longest(mean_gap)
    BY <1>3
  <2>. HIDE DEF e, l
  <2>. QED  BY <1>3, <1>7, <2>1, <2>2, <2>3, <2>4, <2>5 DEF JobsInv
<1>. QED  BY <1>9, <1>10, <1>11 DEF GeneratorInv

LEMMA GeneratorKeeps == GeneratorInv /\ [Next]_vars => GeneratorInv'
<1>. SUFFICES ASSUME GeneratorInv, [Next]_vars PROVE GeneratorInv'
  OBVIOUS
<1>1. CASE DrawJob
  BY <1>1, JobKeeps
<1>2. CASE DrawEstimate
  BY <1>2, EstimateKeeps
<1>3. CASE UNCHANGED vars
  BY <1>3 DEF vars, GeneratorInv, PassInv, JobsInv, ArgumentsFit, PaddingShiftsNothing,
              Interarrival
<1>. QED  BY <1>1, <1>2, <1>3 DEF Next

--------------------------------------------------------------------------------
(* The theorems *)

LEMMA GeneratorAlways == Spec => []GeneratorInv
<1>. QED  BY GeneratorStarts, GeneratorKeeps, PTL DEF Spec

\* Estimates are drawn after all else: neither the padding nor an estimate
\* shifts an arrival, a request or a true duration, whatever the seed.
THEOREM PaddingIsSilent == Spec => []PaddingShiftsNothing
<1>1. GeneratorInv => PaddingShiftsNothing
  BY DEF GeneratorInv
<1>. QED  BY <1>1, GeneratorAlways, PTL

\* What the generator hands over is a workload the simulator's own theorems
\* assume: every job fits an empty node and, for arguments that fit a Tick,
\* submit times are in id order and every estimate covers its duration.
THEOREM WorkloadsAreSound == Spec => []GeneratesWorkloads
<1>1. GeneratorInv => GeneratesWorkloads
  <2>1. SUFFICES ASSUME GeneratorInv, estimated = count PROVE GeneratesWorkloads
    BY DEF GeneratesWorkloads
  <2>2. Len(jobs) = count /\ DOMAIN jobs = 1 .. count
    BY <2>1 DEF GeneratorInv, PassInv
  <2>3. \A j \in 1 .. count : j <= estimated
    BY <2>1 DEF GeneratorInv, PassInv
  <2>. QED  BY <2>1, <2>2, <2>3 DEF GeneratorInv, JobsInv, GeneratesWorkloads
<1>. QED  BY <1>1, GeneratorAlways, PTL

================================================================================
