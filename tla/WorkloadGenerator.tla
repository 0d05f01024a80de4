--------------------------- MODULE WorkloadGenerator ---------------------------
(***************************************************************************)
(* class WorkloadGenerator (model/workload.hpp) over RandomSource          *)
(* (model/random.hpp): the jobs of a run, drawn in two passes before the   *)
(* clock starts.                                                           *)
(*                                                                         *)
(* The engine is external: a draw is one of the raw words 0 .. Words - 1,  *)
(* and a seed is the sequence of words it yields.  The low bits that       *)
(* next_uniform drops are not there to begin with.  MinusLn is -ln of the  *)
(* uniform that it makes of a word, in thousandths.                        *)
(*                                                                         *)
(* A Tick has 64 bits: sums of ticks wrap, and a double that no Tick holds *)
(* may become any, since that conversion is undefined in C++; the least    *)
(* and the largest stand for all of them.                                  *)
(***************************************************************************)
EXTENDS Nodes, Sequences
LOCAL INSTANCE FiniteSetsExt

CONSTANTS
    Words,      \* how many raw words there are, 2^64 in the code
    MinusLn,    \* 1000 * -ln(uniform), by raw word
    Profiles,   \* kJobProfiles, a sequence of [request, mean_duration]
    MeanGaps,   \* the mean times between two arrivals, kSecond / rate
    Paddings,   \* the estimate paddings a run may be given
    MaxTick,    \* the largest Tick, 2^64 - 1 in the code
    MaxJobs     \* bound on the jobs to generate

\* The logarithm is defined everywhere and never positive, the mean gap is
\* positive (random.hpp, preconditions), and an empty node can hold a job of
\* any profile (kJobProfiles and kDefaultResources of model/profiles.hpp).
ASSUME GeneratorAssumption ==
    /\ Words \in Nat \ {0}
    /\ MinusLn \in [0 .. Words - 1 -> Nat]
    /\ Profiles \in Seq([request : Resources, mean_duration : Nat])
    /\ Len(Profiles) \in Nat \ {0}
    /\ \A p \in DOMAIN Profiles : CanFit(Capacity, Profiles[p].request)
    /\ MeanGaps \subseteq Nat \ {0}
    /\ Paddings \subseteq Nat
    /\ MaxTick \in Nat

VARIABLES
    count, padding, mean_gap,  \* the arguments
    drawn,           \* the words drawn so far; the engine's state
    cur_tick,        \* the submit time of the last job
    jobs,            \* the jobs so far
    estimated        \* how many of them have their estimate

vars == <<count, padding, mean_gap, drawn, cur_tick, jobs, estimated>>

Raw == 0 .. Words - 1

--------------------------------------------------------------------------------
(* RandomSource.  A draw of ticks is the set of what it may become. *)

\* next_uniform, in units of 1 / Words: never zero.
Uniform(r) == r + 1

\* static_cast<Tick> of a double that has been cut down to x.
ToTick(x) == IF x <= MaxTick THEN {x} ELSE {0, MaxTick}

\* next_exponential: a gap in ticks, cut down to a whole one and possibly 0.
Exponential(mean, r) == ToTick((MinusLn[r] * mean) \div 1000)

\* next_interarrival.
Interarrival(r) == Exponential(mean_gap, r)

\* next_below, to choose a profile.
ProfileOf(r) == Profiles[(r % Len(Profiles)) + 1]

\* A variant that pads the mean and not the true duration.
EstimateOfMean(duration, r) ==
    ToTick((Words * mean_gap + padding * mean_gap * Uniform(r)) \div Words)

\* What the second pass makes of a duration: duration * (1 + padding * u),
\* cut down to a whole tick.
Estimate(duration, r) ==
    ToTick((Words * duration + padding * duration * Uniform(r)) \div Words)

--------------------------------------------------------------------------------

Init ==
    /\ count \in 0 .. MaxJobs
    /\ padding \in Paddings
    /\ mean_gap \in MeanGaps
    /\ drawn = <<>>
    /\ cur_tick = 0
    /\ jobs = <<>>
    /\ estimated = 0

\* First pass: one job, three draws.
DrawJob ==
    /\ Len(jobs) < count
    /\ \E p, d, g \in Raw :
        \E duration \in Exponential(ProfileOf(p).mean_duration, d), gap \in Interarrival(g) :
            /\ drawn' = drawn \o <<p, d, g>>
            /\ cur_tick' = (cur_tick + gap) % (MaxTick + 1)
            /\ jobs' = Append(jobs,
                    [request |-> ProfileOf(p).request,
                     duration |-> duration,
                     estimated_duration |-> 0,
                     submit_time |-> cur_tick'])
    /\ UNCHANGED <<count, padding, mean_gap, estimated>>

\* A variant that draws estimates as soon as there is a job to draw one for.
DrawEstimateEarly ==
    /\ estimated < Len(jobs)
    /\ \E u \in Raw : \E estimate \in Estimate(jobs[estimated + 1].duration, u) :
        /\ drawn' = Append(drawn, u)
        /\ jobs' = [jobs EXCEPT ![estimated + 1].estimated_duration = estimate]
    /\ estimated' = estimated + 1
    /\ UNCHANGED <<count, padding, mean_gap, cur_tick>>

\* Second pass: one estimate, one draw.
DrawEstimate ==
    /\ Len(jobs) = count
    /\ estimated < count
    /\ \E u \in Raw : \E estimate \in Estimate(jobs[estimated + 1].duration, u) :
        /\ drawn' = Append(drawn, u)
        /\ jobs' = [jobs EXCEPT ![estimated + 1].estimated_duration = estimate]
    /\ estimated' = estimated + 1
    /\ UNCHANGED <<count, padding, mean_gap, cur_tick>>

Next == DrawJob \/ DrawEstimate

Spec == Init /\ [][Next]_vars

--------------------------------------------------------------------------------

\* The longest draw of a mean, before it is made a Tick.
Longest(mean) == Max({(MinusLn[r] * mean) \div 1000 : r \in Raw})

\* No draw and no sum can be too large for a Tick, whatever the seed.  The
\* validation of the options does not ask for it.
ArgumentsFit ==
    /\ count * Longest(mean_gap) <= MaxTick
    /\ \A p \in DOMAIN Profiles :
           (1 + padding) * Longest(Profiles[p].mean_duration) <= MaxTick

\* Every generated workload is one the simulator assumes: estimates cover the
\* durations and stay within the padding, jobs are submitted in id order, and
\* an empty node can hold each of them, so no generated run can wedge.  The
\* first two hold for arguments that fit only.
GeneratesWorkloads ==
    estimated = count =>
        /\ Len(jobs) = count
        /\ \A j \in 1 .. count : CanFit(Capacity, jobs[j].request)
        /\ ArgumentsFit =>
            \A j \in 1 .. count :
                /\ jobs[j].duration <= jobs[j].estimated_duration
                /\ jobs[j].estimated_duration <= (1 + padding) * jobs[j].duration
                /\ j < count => jobs[j].submit_time <= jobs[j + 1].submit_time

\* Arrivals, requests and true durations are a function of the first draws of
\* the seed alone, as they were before there were estimates (workload.hpp):
\* no padding, and no estimate drawn, shifts them.
PaddingShiftsNothing ==
    \A j \in DOMAIN jobs :
        LET before == IF j = 1 THEN 0 ELSE jobs[j - 1].submit_time
        IN  /\ jobs[j].request = ProfileOf(drawn[3 * j - 2]).request
            /\ jobs[j].duration \in
                 Exponential(ProfileOf(drawn[3 * j - 2]).mean_duration, drawn[3 * j - 1])
            /\ \E gap \in Interarrival(drawn[3 * j]) :
                 jobs[j].submit_time = (before + gap) % (MaxTick + 1)

================================================================================
