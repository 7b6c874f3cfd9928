--------------------------------- MODULE Adapt ---------------------------------
(***************************************************************************)
(* Source adaptation (TR-06-4 Part 1): the receiver's Link Quality         *)
(* Messages, built from the deltas of the flow's counters (rist/adapt.rs), *)
(* and the sender's controller of the encoder rate (rist-codec/adapt.rs),  *)
(* with a network between them that loses, repeats and re-orders.          *)
(* The counters are kept as what they have grown by since the last report; *)
(* fractions are those of the code, in thousandths.                        *)
(***************************************************************************)
EXTENDS Integers, Sequences, SequencesExt

CONSTANTS
  MinRate,      \* min_kbps
  MaxRateKbps,  \* max_kbps, the initial target
  TargetLoss,   \* target_loss, in thousandths
  Gain,         \* decrease_gain
  MaxPeriod,    \* packets accounted for in a period
  MaxLosses,    \* packets lost on the way
  MaxSpoils,    \* reports lost or repeated on the way
  MaxReports    \* reports under way at a time

MaxCut == 900

ASSUME AdaptAssumption ==
  /\ MinRate \in Nat \ {0} /\ MaxRateKbps \in Nat /\ MinRate <= MaxRateKbps
  /\ TargetLoss \in 0 .. 1000 /\ Gain \in Nat \ {0}
  /\ MaxPeriod \in Nat \ {0} /\ MaxLosses \in Nat /\ MaxSpoils \in Nat
  /\ MaxReports \in Nat \ {0}

VARIABLES
  stats,     \* since the last report: received, missing, lost, and the FEC stage's fec
  holes,     \* missing packets that are not given up
  reports,   \* Link Quality Messages under way
  target,    \* the controller's rate
  unrepaired,  \* history: whether packets were given up in the period heard of last
  losses,    \* packets lost so far
  spoils     \* reports lost or repeated so far

adaptVars == <<stats, holes, reports, target, unrepaired, losses, spoils>>

NewPeriod == [received |-> 0, missing |-> 0, lost |-> 0, fec |-> 0]

AdaptInit ==
  /\ stats = NewPeriod /\ holes = 0 /\ reports = <<>>
  /\ target = MaxRateKbps /\ unrepaired = FALSE /\ losses = 0 /\ spoils = 0

----------------------------------------------------------------------------
(* The receiving flow, as its counters see it *)

Room == stats.received + stats.missing + stats.lost + stats.fec < MaxPeriod

Counts(fields) == stats' = [f \in DOMAIN stats |-> stats[f] + (IF f \in fields THEN 1 ELSE 0)]

SourceArrives ==
  /\ Room /\ Counts({"received"})
  /\ UNCHANGED <<holes, reports, target, unrepaired, losses, spoils>>

SourceLost ==
  /\ Room /\ losses < MaxLosses /\ losses' = losses + 1
  /\ holes' = holes + 1 /\ Counts({"missing"})
  /\ UNCHANGED <<reports, target, unrepaired, spoils>>

\* A retransmission, or a packet the FEC stage recovered, is received like any
\* other.
HoleFilled ==
  /\ Room /\ holes > 0 /\ holes' = holes - 1
  /\ \E fields \in {{"received"}, {"received", "fec"}} : Counts(fields)
  /\ UNCHANGED <<reports, target, unrepaired, losses, spoils>>

\* The FEC stage recovers what has come meanwhile: the flow drops it.
FecTooLate ==
  /\ Room /\ losses < MaxLosses /\ losses' = losses + 1
  /\ Counts({"fec"})
  /\ UNCHANGED <<holes, reports, target, unrepaired, spoils>>

HoleGivenUp ==
  /\ Room /\ holes > 0 /\ holes' = holes - 1
  /\ Counts({"lost"})
  /\ UNCHANGED <<reports, target, unrepaired, losses, spoils>>

----------------------------------------------------------------------------
(* LqmEmitter *)

Moved == IF stats.fec < stats.received THEN stats.fec ELSE stats.received

Lqm == [source_received |-> stats.received - Moved, original_lost |-> stats.missing,
        unrecovered |-> stats.lost]

Report ==
  /\ Len(reports) < MaxReports
  /\ stats' = NewPeriod
  /\ reports' = Append(reports, Lqm)
  /\ UNCHANGED <<holes, target, unrepaired, losses, spoils>>

ReportSpoilt ==
  /\ spoils < MaxSpoils /\ spoils' = spoils + 1
  /\ \E i \in DOMAIN reports : reports' = RemoveAt(reports, i)
  /\ UNCHANGED <<stats, holes, target, unrepaired, losses>>

----------------------------------------------------------------------------
(* RateControl and Controller *)

Clamp(rate) == IF rate < MinRate THEN MinRate ELSE IF rate > MaxRateKbps THEN MaxRateKbps ELSE rate

\* Slip: the step is a hundredth of the ceiling, whatever that comes to.
IncreaseHundredth == MaxRateKbps \div 100

\* RateControl::from_config.
Increase == IF MaxRateKbps < 100 THEN 1 ELSE MaxRateKbps \div 100

Accounted(m) == m.source_received + m.original_lost

\* loss_fraction and residual_loss_fraction, times 1000 * Accounted(m).
LossFraction(m) == 1000 * m.original_lost
Residual(m)     == 1000 * m.unrecovered

WithinTarget(m) == LossFraction(m) <= TargetLoss * Accounted(m)

Cut(m) ==
  LET worse == {Residual(m), LossFraction(m) - TargetLoss * Accounted(m)}
  IN Min({Gain * Max(worse), MaxCut * Accounted(m)})

\* Nothing accounted for leaves both fractions, and the cut, zero.
Decreased(m) ==
  IF Accounted(m) = 0 THEN target
  ELSE (target * (1000 * Accounted(m) - Cut(m))) \div (1000 * Accounted(m))

Probes(m) == m.unrecovered = 0 /\ WithinTarget(m)

NoInformation(m) == Accounted(m) = 0 /\ m.unrecovered = 0

ObserveLqm(m) ==
  IF NoInformation(m) THEN target
  ELSE IF Probes(m) THEN Clamp(target + Increase)
  ELSE Clamp(Decreased(m))

\* A repeated report is applied again: nobody looks at its number.
Observe(i) ==
  /\ i \in DOMAIN reports
  /\ target' = ObserveLqm(reports[i])
  /\ unrepaired' = (reports[i].unrecovered > 0)
  /\ \/ reports' = RemoveAt(reports, i) /\ UNCHANGED spoils
     \/ spoils < MaxSpoils /\ spoils' = spoils + 1 /\ UNCHANGED reports
  /\ UNCHANGED <<stats, holes, losses>>

AdaptNext ==
  \/ SourceArrives \/ SourceLost \/ HoleFilled \/ FecTooLate \/ HoleGivenUp
  \/ Report \/ ReportSpoilt \/ \E i \in 1 .. MaxReports : Observe(i)

\* Media keeps coming, the reporting period keeps ending, and the oldest
\* report arrives.
AdaptFairness ==
  /\ WF_adaptVars(SourceArrives) /\ WF_adaptVars(Report) /\ WF_adaptVars(Observe(1))

AdaptSpec == AdaptInit /\ [][AdaptNext]_adaptVars /\ AdaptFairness

----------------------------------------------------------------------------
(* Properties *)

\* The encoder is asked for more only by a period in which the window repaired
\* everything: observe_lqm probes up "only when no packets went unrecovered",
\* whatever of the period's accounting FEC has moved, and the target stays
\* between its bounds.
ProbesWhenRepaired ==
  [][ /\ target' \in MinRate .. MaxRateKbps
      /\ target' > target => ~unrepaired' ]_adaptVars

\* After the losses have ended the target climbs back to the ceiling from
\* wherever the cuts, a repeated bad report included, have left it.
RateReturns == <>[](target = MaxRateKbps)
===============================================================================
