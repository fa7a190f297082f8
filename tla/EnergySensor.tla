---------------------------- MODULE EnergySensor ----------------------------
(***************************************************************************)
(* The session energy sensor (AbbTerraAcEnergyDeliveredSensor of           *)
(* sensor.py), the register it shows, which starts from 0 Wh in every      *)
(* session, and Home Assistant's recorder, which adds the shown values up  *)
(* to one total.  Energies are in Wh.                                      *)
(***************************************************************************)
EXTENDS Naturals

CONSTANTS
    Steps,          \* what one poll interval may deliver
    MinSession,     \* no session ends before it has delivered this much
    ReloadValues,   \* the register's values at which the entry may be reloaded
    MaxDelivered    \* bound: what is delivered in all

ASSUME EnergyAssumption ==
    /\ Steps \subseteq Nat
    /\ MinSession \in Nat /\ MaxDelivered \in Nat
    /\ ReloadValues \subseteq Nat

VARIABLES
    energy,           \* register 401Eh: delivered in this session
    charged,          \* energy was delivered since the last poll
    fresh,            \* a session was started since the last poll
    shown,            \* data["energy_delivered"], the sensor's value
    lastEnergyValue,  \* _last_energy_value
    lastReset,        \* last_reset, 0 or 1: a new time is not the one before
    total,            \* the recorder's running sum, up to where the cycle started
    cycleStart,       \* the value its cycle starts from
    cycleReset,       \* the last_reset of its cycle
    delivered,        \* what was delivered in all, for the bound
    sessions          \* history: last values polled of the sessions before this one

sensor == <<shown, lastEnergyValue, lastReset>>
recorder == <<total, cycleStart, cycleReset>>
energyVars == <<energy, charged, fresh, sensor, recorder, delivered, sessions>>

RESET_THRESHOLD == 100

-------------------------------------------------------------------------------
\* The charger.

Deliver ==
    /\ ~charged
    /\ \E amount \in Steps :
         /\ delivered + amount <= MaxDelivered
         /\ energy' = energy + amount
         /\ delivered' = delivered + amount
    /\ charged' = TRUE
    /\ UNCHANGED <<fresh, sensor, recorder, sessions>>

StartSession ==
    /\ energy >= MinSession /\ energy > 0
    /\ energy' = 0
    /\ fresh' = TRUE
    /\ UNCHANGED <<charged, sensor, recorder, delivered, sessions>>

-------------------------------------------------------------------------------
\* The sensor and the recorder.

NewTime == 1 - lastReset

\* The recorder goes on with a cycle, or with another last_reset starts one at 0.
Record(reset) ==
    IF reset = cycleReset
    THEN UNCHANGED recorder
    ELSE /\ total' = (total + shown) - cycleStart
         /\ cycleStart' = 0
         /\ cycleReset' = reset

\* A poll reads the register.
Reads ==
    /\ shown' = energy
    /\ sessions' = IF fresh THEN sessions + shown ELSE sessions
    /\ charged' = FALSE /\ fresh' = FALSE
    /\ UNCHANGED <<energy, delivered>>

\* Mutants: the new value is shown before last_reset is set; half the value is a reset.
HandleUpdate_ShowsFirst ==
    /\ Reads
    /\ Record(lastReset)
    /\ lastReset' = IF lastEnergyValue > energy + RESET_THRESHOLD THEN NewTime ELSE lastReset
    /\ lastEnergyValue' = energy
HandleUpdate_FirstOnly ==
    /\ Reads
    /\ IF lastEnergyValue > energy + RESET_THRESHOLD
       THEN lastReset' = NewTime /\ lastEnergyValue' = energy
       ELSE UNCHANGED <<lastReset, lastEnergyValue>>
    /\ Record(lastReset')

\* _handle_coordinator_update, after every poll.  One that failed shows the same data
\* again, which changes nothing.
HandleUpdate ==
    /\ Reads
    /\ lastReset' = IF lastEnergyValue > energy + RESET_THRESHOLD
                    THEN NewTime ELSE lastReset
    /\ lastEnergyValue' = energy
    /\ Record(lastReset')

\* A reload, or a restart of Home Assistant: a new sensor shows the first poll's value.
Reload ==
    /\ energy \in ReloadValues
    /\ Reads
    /\ lastReset' = NewTime
    /\ lastEnergyValue' = 0
    /\ Record(lastReset')

-------------------------------------------------------------------------------
EnergyInit ==
    /\ energy = 0 /\ charged = FALSE /\ fresh = FALSE
    /\ shown = 0 /\ lastEnergyValue = 0 /\ lastReset = 0
    /\ total = 0 /\ cycleStart = 0 /\ cycleReset = 0
    /\ delivered = 0 /\ sessions = 0

EnergyNext == Deliver \/ StartSession \/ HandleUpdate \/ Reload

EnergySpec == EnergyInit /\ [][EnergyNext]_energyVars
=============================================================================
