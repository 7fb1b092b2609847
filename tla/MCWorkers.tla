----------------------------- MODULE MCWorkers ------------------------------
(***************************************************************************)
(* The background workers on small instances.  They share no state; a      *)
(* behaviour runs one part while the others rest:                          *)
(*   lease     the sharded scheduler, two workers and one monitor          *)
(*   punctual  the local scheduler and a pusher that keeps its interval    *)
(*   silent    the local scheduler and a pusher that may fall silent       *)
(*   ladder    escalation: one alert, two workers, with and without the    *)
(*             outbox; a long poll interval lets a round outlive its       *)
(*             lease, which only the outbox is expected to survive         *)
(***************************************************************************)
EXTENDS WorkerLease, Escalation

CONSTANTS Parts, PushInterval, PushGrace, MaxChanges, MaxPushes

VARIABLES
    part,
    up, enabled, window, rev, lastRun, armed, latest, pushAge, refused, check, ticked,
    changes, pushes

pushVars == <<up, enabled, window, rev, lastRun, armed, latest, pushAge, refused, check,
              ticked, changes, pushes>>
all == <<part, vars, pushVars, ladderVars>>

Punctual == INSTANCE PushDeadline WITH
    Checks <- Runners, Interval <- PushInterval, Grace <- PushGrace, Jitter <- 0,
    OnTime <- TRUE, active <- enabled, lastCheck <- lastRun
Silent == INSTANCE PushDeadline WITH
    Checks <- Runners, Interval <- PushInterval, Grace <- PushGrace, Jitter <- 0,
    OnTime <- FALSE, active <- enabled, lastCheck <- lastRun

BothModes == {[outbox |-> TRUE,  timeout |-> 4],
              [outbox |-> TRUE,  timeout |-> 2],
              [outbox |-> FALSE, timeout |-> 2]}

Leases(A) == part = "lease" /\ A /\ UNCHANGED <<part, pushVars, ladderVars>>
Pushes(A) == part = "silent" /\ A /\ UNCHANGED <<part, vars, ladderVars>>
Ladders(A) == part = "ladder" /\ A /\ UNCHANGED <<part, vars, pushVars>>

\* What rests has one initial state.
MCInit ==
    /\ part \in Parts
    /\ Init /\ Silent!Init /\ LadderInit
    /\ part = "ladder" \/ server = [outbox |-> TRUE, timeout |-> 2]

MCNext ==
    \/ Leases(Next)
    \/ part = "punctual" /\ Punctual!Next /\ UNCHANGED <<part, vars, ladderVars>>
    \/ Pushes(Silent!Next)
    \/ Ladders(LadderNext)

\* Only one part runs, so that fairness of a disjunction of steps of different
\* parts is fairness of each: the clocks, the tickers, and the goroutines.
MCSpec ==
    /\ MCInit /\ [][MCNext]_all
    /\ \A w \in Workers : /\ WF_all(Leases(Tick(w)))
                          /\ WF_all(Leases(RefreshLease(w) \/ RefreshFails(w)))
                          /\ WF_all(Leases(ClaimAdmit(w)))
                          /\ SF_all(Leases(ClaimBatch(w)))
    /\ WF_all(Pushes(Silent!Tick) \/ Ladders(Elapse))
    /\ WF_all(Pushes(Silent!Scheduler) \/ Ladders(\E w \in Runners : ClaimDue(w)))
    /\ WF_all(Ladders(StartForAlert))
    /\ \A w \in Runners :
         WF_all(\/ Pushes(Silent!RunCheck(w) \/ Silent!RecordMissed(w))
                \/ Ladders(RunOne(w) \/ (work[w] # Idle /\ ~InTime(w) /\ CutOff(w))))

-----------------------------------------------------------------------------

\* The push deadline tells silence from delay.  A pusher that keeps its interval
\* is reported missing only when the push endpoint refused one of its pushes
\* since the monitor was armed (EvaluatePushDeadline, observe,
\* CommitLocalHeartbeat's refusal of superseded results); once pushes end and
\* the monitor stays enabled, watched and outside maintenance, the latest
\* heartbeat comes to be the scheduler's own DOWN.
DeadlineTellsSilence ==
    /\ [][part = "punctual" /\ latest' = Punctual!Row("missed") => refused \/ latest' = latest]_all
    /\ <>[](part = "silent" /\ up /\ enabled /\ ~window) => <>[](latest.kind = "missed")

\* "a restart or a pause never becomes a DOWN on its own: the pusher always gets
\* one interval after the scheduler is watching again" (push_deadline.go:38), of
\* a pusher that keeps its interval.  The code does not keep it: a pause and a
\* resume between two ticks leave the old arming, and the push the pause refused
\* counts as missing.
PauseNeverDown == part = "punctual" => latest.kind # "missed"
=============================================================================
