---------------------- MODULE ConfigEntriesProperties ----------------------
(***************************************************************************)
(* What the flows and the migration must keep true of the config entries.  *)
(***************************************************************************)
EXTENDS ConfigEntries

\* An entry of this version lacks nothing; a flow that reconfigures has its entry, and a
\* flow waits for a probe with a charger to configure.
EntriesTypeOK ==
    /\ entries \in [Entries -> Entry \cup {None}]
    /\ \A e \in Entries : Exists(e) /\ entries[e].version = 4 =>
         entries[e].charger \in Chargers /\ entries[e].scan \in Intervals
    /\ flows \in [Flows -> Flow \cup {None}]
    /\ \A f \in Flows : flows[f] # None =>
         /\ flows[f].kind = "reconfigure" => flows[f].entry \in Entries /\ Exists(flows[f].entry)
         /\ flows[f].at = "probing" => flows[f].charger \in Chargers

\* One entry per charger (const.py:94, README:149): however flows overlap while their
\* probes are under way, and whenever an entry of an earlier version is enabled and
\* migrated, no two migrated entries talk to the same unit at the same address.
OneEntryPerCharger ==
    \A e, g \in Entries :
        /\ Exists(e) /\ entries[e].version = 4
        /\ Exists(g) /\ entries[g].version = 4
        /\ entries[e].charger = entries[g].charger
        => e = g

\* The unique ID of a migrated entry is that of the charger it talks to, also after it
\* was reconfigured: it is what later flows are checked against.
UniqueIdNamesCharger ==
    \A e \in Entries : Exists(e) /\ entries[e].version = 4 =>
        entries[e].uniqueId = build_unique_id(entries[e].charger)
=============================================================================
