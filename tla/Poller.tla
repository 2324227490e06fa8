------------------------------- MODULE Poller -------------------------------
(***************************************************************************)
(* run_poll, the loop that keeps a node's view of the mesh (head/graph.rs; *)
(* fetch/graph.rs is the same loop, planning before it replaces its        *)
(* routes), and the health watch that judges the view by its age.          *)
(*                                                                         *)
(* What is in the view is left out but for how long ago Crawl drew it up.  *)
(* Time is relative.  Timers fire on time; exchanges take as long as they  *)
(* like, and Latency says from where on one is called slow.                *)
(***************************************************************************)
EXTENDS Naturals

CONSTANTS
    Interval,   \* poll_interval_ms.max(1)
    Latency     \* an exchange that takes longer is a slow one

\* A cycle with an exchange that is not slow fits twice into three intervals.
ASSUME LatencyIsShort ==
    /\ Interval \in Nat \ {0} /\ Latency \in Nat
    /\ 2 * Latency <= Interval

VARIABLES
    up,         \* whether Crawl runs and can be dialed
    poll,       \* where the loop is: "sleeping", "dialing" or "reading"
    nap,        \* time left of its sleep
    link,       \* the connection: "none", "open", "closed" or "silent"
    answered,   \* whether Crawl's answer is on its way
    spent,      \* how long this exchange has taken
    refreshed,  \* whether last_refresh is set
    since,      \* time since last_refresh
    drawn,      \* time since Crawl drew up the view in use
    carried,    \* time since it drew up the answer on its way
    misses,     \* history: failed polls since last_refresh
    slow        \* history: whether an exchange since, or the last that
                \* succeeded, was slow

loop == <<poll, nap, spent>>
wire == <<link, answered, carried>>
held == <<refreshed, since, drawn>>
history == <<misses, slow>>
vars == <<up, loop, wire, held, history>>

StaleAfterIntervals == 3
MaxAge == StaleAfterIntervals * Interval

-----------------------------------------------------------------------------
Init ==
    /\ up \in BOOLEAN
    /\ poll = "dialing" /\ nap = 0 /\ spent = 0
    /\ link = "none" /\ answered = FALSE /\ carried = 0
    /\ refreshed = FALSE /\ since = 0 /\ drawn = 0
    /\ misses = 0 /\ slow = FALSE

-----------------------------------------------------------------------------
\* Crawl and the network.

\* A connection is forgotten on the way, an answer in flight with it.
GoesSilent ==
    /\ link = "open" /\ link' = "silent"
    /\ answered' = FALSE /\ carried' = 0

\* It is closed or reset; an answer that came before may be read still.
IsClosed ==
    /\ link' = IF link = "open" THEN "closed" ELSE link
    /\ UNCHANGED <<answered, carried>>

\* Crawl's end of a connection goes with it, and says so or not.
CrawlDies ==
    /\ up /\ up' = FALSE
    /\ GoesSilent \/ IsClosed
    /\ UNCHANGED <<loop, held, history>>

CrawlReturns ==
    /\ ~up /\ up' = TRUE
    /\ UNCHANGED <<loop, wire, held, history>>

LinkIsCut ==
    /\ link = "open" /\ (GoesSilent \/ IsClosed)
    /\ UNCHANGED <<up, loop, held, history>>

\* This end finds out, if what it sent is still being retransmitted.
SilenceIsNoticed ==
    /\ link = "silent" /\ link' = "closed"
    /\ UNCHANGED <<up, loop, answered, carried, held, history>>

\* Crawl reads its tables under its lock and writes the snapshot.
CrawlAnswers ==
    /\ up /\ poll = "reading" /\ link = "open" /\ ~answered
    /\ answered' = TRUE /\ carried' = 0
    /\ UNCHANGED <<up, loop, link, held, history>>

-----------------------------------------------------------------------------
\* The loop.

Sleep ==
    /\ poll' = "sleeping" /\ nap' = Interval /\ spent' = 0
    /\ link' = "none" /\ answered' = FALSE /\ carried' = 0

\* tls::dial, and the query behind it.
DialSucceeds ==
    /\ poll = "dialing" /\ up
    /\ poll' = "reading" /\ link' = "open"
    /\ UNCHANGED <<up, nap, spent, answered, carried, held, history>>

\* Mutation: a failed poll counts as a refresh.
MissRefreshes ==
    /\ \/ poll = "dialing" /\ ~up
       \/ poll = "reading" /\ link = "closed"
    /\ Sleep
    /\ refreshed' = TRUE /\ since' = 0
    /\ misses' = IF misses < 3 THEN misses + 1 ELSE misses
    /\ UNCHANGED <<up, drawn, slow>>

\* Mutation: a failed poll leaves the loop.
MissEndsLoop ==
    /\ \/ poll = "dialing" /\ ~up
       \/ poll = "reading" /\ link = "closed"
    /\ poll' = "ended" /\ nap' = 0 /\ spent' = 0
    /\ link' = "none" /\ answered' = FALSE /\ carried' = 0
    /\ misses' = IF misses < 3 THEN misses + 1 ELSE misses
    /\ UNCHANGED <<up, held, slow>>

\* The query fails: logged, the view left as it is, tried again later.
Miss ==
    /\ \/ poll = "dialing" /\ ~up
       \/ poll = "reading" /\ link = "closed"
    /\ Sleep
    /\ misses' = IF misses < 3 THEN misses + 1 ELSE misses
    /\ UNCHANGED <<up, held, slow>>

\* The snapshot has come: view, addresses and time are replaced under one
\* write guard.
Land ==
    /\ poll = "reading" /\ answered
    /\ Sleep
    /\ refreshed' = TRUE /\ since' = 0 /\ drawn' = carried
    /\ misses' = 0 /\ slow' = ~(spent <= Latency)
    /\ UNCHANGED up

Wake ==
    /\ poll = "sleeping" /\ nap = 0
    /\ poll' = "dialing"
    /\ UNCHANGED <<up, nap, spent, wire, held, history>>

\* Past what any check looks at, no more is counted.
Horizon == MaxAge + Latency + 1
Later(age) == IF age < Horizon THEN age + 1 ELSE age

Pass ==
    /\ poll = "sleeping" => nap > 0
    /\ IF poll = "sleeping"
          THEN nap' = nap - 1 /\ UNCHANGED <<spent, slow>>
          ELSE /\ spent' = IF spent <= Latency THEN spent + 1 ELSE spent
               /\ slow' = (slow \/ spent' > Latency)
               /\ UNCHANGED nap
    /\ since' = IF refreshed THEN Later(since) ELSE since
    /\ drawn' = IF refreshed THEN Later(drawn) ELSE drawn
    /\ carried' = IF answered THEN Later(carried) ELSE carried
    /\ UNCHANGED <<up, poll, link, answered, refreshed, misses>>

LoopStep == DialSucceeds \/ Miss \/ Land \/ Wake
NetworkStep == LinkIsCut \/ SilenceIsNoticed \/ CrawlAnswers

Next == CrawlDies \/ CrawlReturns \/ NetworkStep \/ LoopStep \/ Pass

Spec == Init /\ [][Next]_vars

\* The task is polled, time passes and a Crawl that runs answers.  Nothing
\* makes a dead one return, or a silence noticed.
Fairness == WF_vars(LoopStep) /\ WF_vars(Pass) /\ WF_vars(CrawlAnswers)

FairSpec == Spec /\ Fairness

-----------------------------------------------------------------------------
\* Mutation: twice the interval.
EvaluateImpatient ==
    IF ~refreshed THEN "never_refreshed"
    ELSE IF since > 2 * Interval THEN "stale" ELSE "fresh"

\* HealthWatch::evaluate, what /health answers.
Evaluate ==
    IF ~refreshed THEN "never_refreshed"
    ELSE IF since > MaxAge THEN "stale" ELSE "fresh"

TypeOK ==
    /\ up \in BOOLEAN /\ answered \in BOOLEAN
    /\ refreshed \in BOOLEAN /\ slow \in BOOLEAN
    /\ poll \in {"sleeping", "dialing", "reading"}
    /\ link \in {"none", "open", "closed", "silent"}
    /\ link = "none" <=> poll # "reading"
    /\ answered => poll = "reading"
    /\ nap \in 0..Interval /\ spent \in 0..(Latency + 1)
    /\ since \in 0..Horizon /\ drawn \in 0..Horizon /\ carried \in 0..Horizon
    /\ misses \in 0..3

\* /health says "fresh" only of a view that Crawl drew up within the last three
\* intervals and the time of one exchange, unless that exchange was slow: a
\* poller cut off from Crawl cannot go on looking healthy.
FreshIsRecent ==
    Evaluate = "fresh" => drawn <= MaxAge + Latency \/ slow

\* One failed poll never turns /health to 503: whenever a view has gone stale
\* two polls in a row have failed, or an exchange has been slow.
OneMissIsForgiven ==
    Evaluate = "stale" => misses >= 2 \/ slow

\* "transient query failures are logged and retried": once Crawl stays up the
\* loop comes round to its next poll, whatever happened to the last one.
OutagesAreRetried == <>[]up => []<>(poll = "sleeping")
=============================================================================
