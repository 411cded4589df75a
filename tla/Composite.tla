----------------------------- MODULE Composite -------------------------------
(***************************************************************************)
(* The composite rules: ordered steps of one pid within a time window,     *)
(* matched greedily over the steps that the engine still keeps.            *)
(*                                                                         *)
(* Abstractions.  The binary of an exec is recorded and never looked at,   *)
(* so it is left out.  The type names that parseStep does not know are not *)
(* in a rule's sequence any more: the constant Rules is what New makes of  *)
(* the configuration.  Severities and texts are left out.                  *)
(***************************************************************************)
EXTENDS EventStream

CONSTANTS
    Rules,       \* records of a sequence of event types and a window
    Keep         \* how long a step is kept (60 s)

ASSUME CompositeAssumption ==
    /\ Keep \in Nat
    /\ \A rule \in Rules :
        /\ rule.sequence \in Seq({"exec", "connect", "setuid"}) /\ Len(rule.sequence) >= 2
        /\ rule.window \in Nat

VARIABLES
    compositeSteps, \* Engine.steps: the kept steps of every pid
    fired           \* what the last Observe returned: rules with the steps they matched

CompositeInit ==
    /\ compositeSteps = [p \in Pids |-> <<>>]
    /\ fired = {}

-----------------------------------------------------------------------------

Recorded == {"exec", "connect", "setuid", "setgid"}

KeptBelow(seq) == Since(seq, Keep - 1)     \* mutant: off by one

Kept(seq) == Since(seq, Keep)

AdvanceUntimed(rule, matched, s) ==       \* mutant: the window is not looked at
    IF Len(matched) = Len(rule.sequence) \/ s.type # rule.sequence[Len(matched) + 1]
    THEN matched
    ELSE Append(matched, s)

\* One round of matchRule's loop: what is matched so far, and whether that is all.
Advance(rule, matched, s) ==
    IF Len(matched) = Len(rule.sequence) \/ s.type # rule.sequence[Len(matched) + 1]
    THEN matched
    ELSE IF matched # <<>> /\ s.at - matched[1].at > rule.window
         THEN IF s.type = rule.sequence[1] THEN <<s>> ELSE <<>>
         ELSE Append(matched, s)

MatchRule(rule, seq) ==
    LET matched[i \in 0..Len(seq)] ==
            IF i = 0 THEN <<>> ELSE Advance(rule, matched[i - 1], seq[i])
    IN matched[Len(seq)]

\* Engine.Observe.
ObserveComposite(pid, type) ==
    \/ /\ type \in Recorded
       /\ LET kept == Kept(Append(compositeSteps[pid], Step(pid, type))) IN
          /\ compositeSteps' = [compositeSteps EXCEPT ![pid] = kept]
          /\ fired' = {[rule |-> rule, matched |-> MatchRule(rule, kept)] :
                        rule \in {r \in Rules : Len(MatchRule(r, kept)) = Len(r.sequence)}}
    \/ /\ type \notin Recorded
       /\ fired' = {}
       /\ UNCHANGED compositeSteps

CompositePass == fired' = {} /\ UNCHANGED compositeSteps

-----------------------------------------------------------------------------
(* Properties. *)

\* What the rules could see of the pid at best.
Recent(pid) == {s \in ToSet(hist[pid]) : s.type \in Recorded /\ now - s.at <= Keep}

\* A pid keeps all of its steps that are recent when it was last heard of, in order.
CompositeOK ==
    /\ \A p \in Pids :
        /\ compositeSteps[p] \in Seq(Steps)
        /\ \A i, j \in DOMAIN compositeSteps[p] :
            i < j => compositeSteps[p][i].nr < compositeSteps[p][j].nr
    /\ newest # NoPid /\ Last(hist[newest]).type \in Recorded =>
        ToSet(compositeSteps[newest]) = Recent(newest)
    /\ \A f \in fired : f.rule \in Rules /\ f.matched \in Seq(Steps)

\* A composite alert tells what happened: its steps are steps of the one pid, in the order
\* of the rule, each within the window after the first, and none older than the limit.
MatchIsOccurrence ==
    \A f \in fired :
        LET m == f.matched IN
        /\ Len(m) = Len(f.rule.sequence)
        /\ \A i \in DOMAIN m :
            /\ m[i].type = f.rule.sequence[i]
            /\ m[i] = hist[newest][m[i].nr]
            /\ m[i].at - m[1].at <= f.rule.window
            /\ now - m[i].at <= Keep
            /\ i > 1 => m[i - 1].nr < m[i].nr

\* The newest event completes rule: the rule's steps are found in order in the history of
\* its pid, within the window and the limit, and the newest event is the last of them.
Completed(rule) ==
    LET h == hist[newest]
        k == Len(rule.sequence)
    IN \E at \in [1..k -> DOMAIN h] :
        /\ at[k] = Len(h)
        /\ \A i \in 1..k : h[at[i]].type = rule.sequence[i]
        /\ \A i \in 1..k - 1 : at[i] < at[i + 1]
        /\ now - h[at[1]].at <= rule.window /\ now - h[at[1]].at <= Keep

HasFired(rule) == \E f \in fired : f.rule = rule

\* A completed sequence is reported, provided no earlier start of it is still kept whose
\* window has run out; such a start hides the later ones from the greedy matcher.
FreshSequencesFire ==
    newest # NoPid =>
        \A rule \in Rules :
            /\ Completed(rule)
            /\ \A s \in Recent(newest) :
                s.type = rule.sequence[1] => now - s.at <= rule.window
            => HasFired(rule)
=============================================================================
