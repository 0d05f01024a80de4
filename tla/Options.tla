--------------------------------- MODULE Options ---------------------------------
(***************************************************************************)
(* parse_args (io/options.cpp): the walk over the arguments, the           *)
(* validation behind it and its three outcomes.                            *)
(*                                                                         *)
(* An argument is a string of a small set; what std::from_chars makes of   *)
(* one is a table, and a double is the class that the code and the         *)
(* generator can tell apart.  Arguments count from 1, the program's name   *)
(* not among them.                                                         *)
(***************************************************************************)
EXTENDS Naturals, Sequences, FiniteSets

CONSTANTS
    Arguments,       \* the strings a command line is made of
    MaxArguments,    \* bound on their number
    KnownSchedulers, \* what make_scheduler knows
    KnownQueues      \* what make_queue_policy knows

\* The flags that take a value, by the type the value is parsed to.
UnsignedFlags == {"--seed", "--nodes", "--jobs", "--seeds"}
RealFlags     == {"--rate", "--padding"}
TextFlags     == {"--scheduler", "--queue", "--trace"}
ValueFlags    == UnsignedFlags \cup RealFlags \cup TextFlags

HelpFlags == {"--help", "-h"}

\* nullptr, and the value of a string from_chars does not accept whole.
None == "none"
Bad  == "bad"

\* Neither is an argument.
ASSUME OptionsAssumption == MaxArguments \in Nat /\ {None, Bad} \cap Arguments = {}

\* parse_value to an unsigned integer: digits and nothing else.
ParseUnsigned(text) == IF text \in {"0", "2"} THEN text ELSE Bad

\* parse_value to a double, with the names it knows for the two that are no
\* number or no finite one.
ParseReal(text) ==
    CASE text = "0"   -> "zero"
      [] text = "2"   -> "positive"
      [] text = "-2"  -> "negative"
      [] text = "inf" -> "infinite"
      [] text = "nan" -> "nan"
      [] OTHER        -> Bad

\* What a flag makes of the argument behind it.
ValueOf(flag, text) ==
    CASE flag \in UnsignedFlags -> ParseUnsigned(text)
      [] flag \in RealFlags     -> ParseReal(text)
      [] flag \in TextFlags     -> text

\* x > 0.0 and x >= 0.0 are false of a nan.
AboveZero(x)   == x \in {"positive", "infinite"}
AtLeastZero(x) == x \in {"zero", "positive", "infinite"}

--------------------------------------------------------------------------------

VARIABLES
    argv,    \* the arguments
    i,       \* the one the loop is at
    opts,    \* the options so far, by flag
    status   \* "parsing", or the status parse_args returns

parseVars == <<argv, i, opts, status>>

\* struct Options, by the flag that sets each field.
Defaults ==
    [f \in ValueFlags \cup {"--compare"} |->
        CASE f = "--scheduler" -> "first_fit"
          [] f = "--queue"     -> "fifo"
          [] f = "--trace"     -> None
          [] f = "--compare"   -> "false"
          [] f \in RealFlags   -> "positive"
          [] OTHER             -> "2"]

ParseInit ==
    /\ \E n \in 0 .. MaxArguments : argv \in [1 .. n -> Arguments]
    /\ i = 1
    /\ opts = Defaults
    /\ status = "parsing"

\* The loop is at a flag of one of these.
AtFlag(flags) == status = "parsing" /\ i <= Len(argv) /\ argv[i] \in flags

Return(outcome) == status' = outcome /\ UNCHANGED <<argv, i, opts>>

\* A variant that looks for the help flag anywhere, a value's place included.
HelpAnywhere ==
    /\ status = "parsing"
    /\ \E k \in DOMAIN argv : argv[k] \in HelpFlags
    /\ Return("HelpRequested")

Help == AtFlag(HelpFlags) /\ Return("HelpRequested")

Compare ==
    /\ AtFlag({"--compare"})
    /\ opts' = [opts EXCEPT !["--compare"] = "true"]
    /\ i' = i + 1
    /\ UNCHANGED <<argv, status>>

\* The argument at k, if it is a flag that takes a value, has one behind it
\* that parses.
HasValue(k) ==
    /\ k + 1 <= Len(argv)
    /\ argv[k] \in ValueFlags
    /\ ValueOf(argv[k], argv[k + 1]) # Bad

\* A flag that is last, or unknown, or with a value that does not parse.
Reject ==
    /\ AtFlag(Arguments \ (HelpFlags \cup {"--compare"}))
    /\ ~ HasValue(i)
    /\ Return("Error")

\* A variant in which the first occurrence of a flag is the one that counts.
TakeFirstValue ==
    /\ AtFlag(ValueFlags)
    /\ HasValue(i)
    /\ opts' = IF opts[argv[i]] = Defaults[argv[i]]
               THEN [opts EXCEPT ![argv[i]] = ValueOf(argv[i], argv[i + 1])]
               ELSE opts
    /\ i' = i + 2
    /\ UNCHANGED <<argv, status>>

TakeValue ==
    /\ AtFlag(ValueFlags)
    /\ HasValue(i)
    /\ opts' = [opts EXCEPT ![argv[i]] = ValueOf(argv[i], argv[i + 1])]
    /\ i' = i + 2
    /\ UNCHANGED <<argv, status>>

\* The validation behind the loop.
Runnable ==
    /\ opts["--scheduler"] \in KnownSchedulers
    /\ opts["--queue"] \in KnownQueues
    /\ \A f \in {"--nodes", "--jobs", "--seeds"} : opts[f] # "0"
    /\ AboveZero(opts["--rate"])
    /\ AtLeastZero(opts["--padding"])
    /\ ~ (opts["--compare"] = "true" /\ opts["--trace"] # None)

Finish ==
    /\ status = "parsing"
    /\ i > Len(argv)
    /\ Return(IF Runnable THEN "Run" ELSE "Error")

ParseNext == Help \/ Compare \/ Reject \/ TakeValue \/ Finish

ParseSpec == ParseInit /\ [][ParseNext]_parseVars

--------------------------------------------------------------------------------

\* The positions at which a command line has a flag and not a value: a flag
\* with a value hides what stands behind it, a further flag included.
FlagPositions ==
    LET Hides(k) == argv[k] \in ValueFlags
    IN  {k \in DOMAIN argv :
            \* k is a value if an odd number of value flags stand right before it.
            LET Run == {h \in 1 .. k - 1 : \A m \in h .. k - 1 : Hides(m)}
            IN  Cardinality(Run) % 2 = 0}

\* What a flag was last given, and None if it was not.
LastGiven(flag) ==
    LET Given == {k \in FlagPositions : argv[k] = flag}
    IN  IF Given = {} THEN None
        ELSE LET last == CHOOSE k \in Given : \A m \in Given : m <= k
             IN  IF flag = "--compare" THEN "true" ELSE ValueOf(flag, argv[last + 1])

\* When a command line is accepted, every option has the value it was last
\* given, or its default; no flag was skipped and no value taken for a flag.
LastOccurrenceWins ==
    status = "Run" =>
        \A f \in DOMAIN opts :
            opts[f] = IF LastGiven(f) = None THEN Defaults[f] ELSE LastGiven(f)

\* The first argument in a flag's place that is not a flag with what it needs
\* decides: help if it asks for help, whatever is wrong behind it, an error if
\* not, whatever help is asked for behind it.  Only where there is none does
\* the validation have a say.
FirstProblemDecides ==
    LET Stops == {k \in FlagPositions : argv[k] # "--compare" /\ ~ HasValue(k)}
        first == CHOOSE k \in Stops : \A m \in Stops : k <= m
    IN  status # "parsing" =>
            IF Stops = {} THEN status \in {"Run", "Error"}
            ELSE status = IF argv[first] \in HelpFlags THEN "HelpRequested" ELSE "Error"

\* The mean gap next_interarrival hands to next_exponential: 1 / rate, in ticks.
MeanTicks(rate) == IF rate = "infinite" THEN "zero" ELSE rate

\* The precondition of next_exponential, mean_ticks > 0 (random.hpp), which the
\* validation of the rate is there to protect.
MeanGapIsPositive == status = "Run" => AboveZero(MeanTicks(opts["--rate"]))

================================================================================
