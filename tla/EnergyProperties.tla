-------------------------- MODULE EnergyProperties --------------------------
(***************************************************************************)
(* What the energy sensor and the recorder must add up to.                 *)
(***************************************************************************)
EXTENDS EnergySensor

\* What the recorder shows in all.
Recorded == (total + shown) - cycleStart

\* The recorder's total is what the polls have seen of every session: no session's
\* energy is lost or counted twice, although sessions end between polls and a new one
\* may have delivered again (sensor.py:304: "records each session's contribution
\* correctly").
RecordsEachSession == Recorded = sessions + shown
=============================================================================
