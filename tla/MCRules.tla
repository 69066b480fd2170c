-------------------------------- MODULE MCRules --------------------------------
(* The functions of the program that have no state of their own, each held   *)
(* against a second definition over bounded inputs: one state per input of   *)
(* one of them.                                                              *)
EXTENDS Integers

CONSTANTS Unset, Uninspected, None

VARIABLE input

P == INSTANCE MCProbes WITH Day <- 10, Now <- 100

C == INSTANCE MCConfigRules WITH MaxSecs <- 121

D == INSTANCE MCDays WITH DayLen <- 12, SlotLen <- 3

\* The clock goes back in the night between the strip's second and third day.
S == INSTANCE MCStatus WITH DayLen <- 12, SlotLen <- 3, StripDays <- 3, PastLen <- 2, Now <- 41,
                            Zone <- <<[at |-> 0, offset |-> 3], [at |-> 24, offset |-> 0]>>

ASSUME RulesAssumption == D!DaysAssumption /\ S!StatusAssumption

RulesInit == P!Init \/ C!Init \/ D!Init \/ S!Init

\* A verdict of a probe (prober.rs) has its causes and no others, in whatever
\* order they are tested; a higher reading is never judged better; and under
\* an accepted config (validate_check) a check is judged by what it saw alone.
ProbesJudge == P!HttpByCauses /\ P!ResourceBands /\ C!JudgedByReading

\* What the program takes for granted of an accepted config holds: its
\* references lead somewhere and mirrored checks do not share incidents
\* (validate); a duration is the sum of its parts (parse_duration).
ConfigHolds == C!ReferencesHold /\ C!DurationBySum

\* Every instant falls in exactly one day, and every time of the clock names
\* the first instant at which the clock has come that far (days.rs), through
\* changes of the clock around and over midnight and a date that never was.
CalendarHolds == D!DaysTile /\ D!FirstOccurrence

\* The status page hides no trouble: the state of a component, the bars of
\* its days and the rows below agree with its results, incidents and windows
\* (component_now, build_bars, past_days), as far as they were read: to the
\* code a read that fails is one that found nothing.
PageTrue == S!WorstShown /\ S!BarsCountProbes /\ S!BarsShowTrouble /\ S!ListedOnItsDay

\* What the page says in figures and words is what it shows: the rounded
\* uptime and its colour (format_pct, uptime_color), the sentence about the
\* components (status_say) and how long it was quiet (quiet_since).
WordsAgree == S!ShownHonest /\ S!SayCovers /\ S!QuietAgrees
================================================================================
