--------------------------- MODULE MCIncidentWriter ---------------------------
(***************************************************************************)
(* Instances of IncidentWriter for TLC.  A behaviour is one of two parts,   *)
(* chosen at the start: all targets with one request or one fault, or only  *)
(* one target with an operator's edit as well as a fault.                   *)
(***************************************************************************)
EXTENDS IncidentWriter

CONSTANTS Parts,    \* the parts of a run
          Sole      \* the target of the part that has one
VARIABLE part

mcVars == <<part, vars>>

\* What an idle evaluator last looked at tells nothing.
MCInit ==
    /\ part \in Parts
    /\ Init
    /\ tgt = [e \in Evaluators |-> Sole]

\* Nothing happens to the others.
SoleOnly ==
    /\ \A e \in Evaluators : tgt'[e] = Sole
    /\ \A i \in DOMAIN incidents' : incidents'[i].target = Sole
    /\ maintenance' \subseteq {Sole} /\ Targets \ {Sole} \subseteq enabled'

\* The targets are alike: the first probe may as well be Sole's.
FirstProbe == clock = 1 /\ clock' = 2 => tgt'[Scheduler] = Sole

MCNext ==
    /\ UNCHANGED part
    /\ Next
    /\ \/ part = "targets" /\ ops' + faults' <= 1 /\ editor' = Idle /\ FirstProbe
       \/ part = "target" /\ SoleOnly

MCSpec == MCInit /\ [][MCNext]_mcVars /\ Fairness
=============================================================================
