------------------------------ MODULE Detectors ------------------------------
(* The consumer goroutine hands each event to the composite rules, then to the kill-chain *)
(* detector, before it takes the next one: for the model that is one step.                *)
EXTENDS Composite, Chain

detectorsVars == <<stream, compositeSteps, fired, chainSteps, emitted, root, spans>>

DetectorsInit == StreamInit /\ CompositeInit /\ ChainInit

Event(pid, type, supervisor) ==
    Arrive(pid, type) /\ ObserveComposite(pid, type) /\ ObserveChain(pid, type, supervisor)

Tick == TimePasses /\ CompositePass /\ ChainPass

DetectorsNext ==
    \/ \E pid \in Pids, type \in EventTypes, supervisor \in BOOLEAN :
        Event(pid, type, supervisor)
    \/ Tick

DetectorsSpec == DetectorsInit /\ [][DetectorsNext]_detectorsVars

-----------------------------------------------------------------------------
(* Properties that speak of both detectors; SpansApart and StaleSpansFollowSilence are *)
(* the kill-chain detector's own.                                                      *)

\* After an event the kill-chain detector keeps nothing older than its window, of any pid.
DetectorsOK == StreamOK /\ CompositeOK /\ ChainOK /\ MemoryBounded

\* What is reported happened: the steps of a composite alert are events of the one pid, in
\* the order of the rule and within its window, and a span tells of an exec and a later
\* connect of its pid.
AlertsAreReal == MatchIsOccurrence /\ SpanIsChain

\* What happens is reported: a sequence that the newest event completes within its window,
\* unless an older start of it is still kept and hides it; and a connect that follows an exec
\* within the chain's window and cap, unless the pid is called a supervisor.
SequencesReported == FreshSequencesFire /\ CloseChainsReported
=============================================================================
