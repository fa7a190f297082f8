--------------------------- MODULE ConfigEntries ---------------------------
(***************************************************************************)
(* The config entries of the integration: the flows that create,           *)
(* reconfigure and remove them (config_flow.py), their options             *)
(* (options_flow.py) and the migration of those that earlier versions left *)
(* (async_migrate_entry).  Several flows may be open at once, and each     *)
(* waits for its probe of the charger.  An entry that was disabled under   *)
(* an earlier version is migrated when it is enabled, at any time.  A host *)
(* and port are one address.                                               *)
(***************************************************************************)
EXTENDS Naturals

CONSTANTS
    Entries,    \* entry ids
    Flows,      \* flows that may be open at the same time
    Addresses,
    Units,      \* Modbus unit ids
    DEFAULT_UNIT_ID,
    Intervals,  \* the scan intervals chosen
    DEFAULT_SCAN_INTERVAL,
    None

ASSUME EntriesAssumption ==
    /\ DEFAULT_UNIT_ID \in Units
    /\ DEFAULT_SCAN_INTERVAL \in Intervals
    /\ None \notin Units \cup Intervals \cup Entries

VARIABLES
    entries,  \* per id: None, or the entry
    flows     \* per flow: None, or its kind, entry, step and submitted charger

entriesVars == <<entries, flows>>

Chargers == [address : Addresses, unit : Units]

\* const.py
build_unique_id(c) == <<c.address, c.unit>>

\* Entries of every version: the unique ID of earlier ones is host:port, the first two
\* kept no unit ID, the first no scan interval until the options were opened.
UniqueIds == {<<a>> : a \in Addresses} \cup {build_unique_id(c) : c \in Chargers}

Entry == [version : 1..4,
          charger : [address : Addresses, unit : Units \cup {None}],
          uniqueId : UniqueIds,
          scan : Intervals \cup {None}]

Legacy == {r \in Entry : /\ r.version < 4 /\ r.uniqueId = <<r.charger.address>>
                         /\ r.version < 3 <=> r.charger.unit = None
                         /\ r.version > 1 => r.scan # None}

Flow == [kind : {"user", "reconfigure"}, entry : Entries \cup {None},
         at : {"form", "probing"}, charger : Chargers \cup {None}]

ASSUME NoneAssumption == None \notin Entry \cup Flow

Exists(e) == entries[e] # None

\* async_entry_for_domain_unique_id
Holds(e, uniqueId) == Exists(e) /\ entries[e].uniqueId = uniqueId

-------------------------------------------------------------------------------
\* Mutant: the options are left as they are.
Filled_KeepsOptions(r) ==
    [r EXCEPT !.version = 3, !.charger.unit = IF @ = None THEN DEFAULT_UNIT_ID ELSE @]

\* What the first two versions lacked.
Filled(r) ==
    [r EXCEPT !.version = 3, !.charger.unit = IF @ = None THEN DEFAULT_UNIT_ID ELSE @,
              !.scan = IF @ = None THEN DEFAULT_SCAN_INTERVAL ELSE @]

\* async_migrate_entry, its three updates in one.  Home Assistant refuses the last one,
\* and the entry stays as the others have made it, when another entry has the unique ID.
Migrate(e) ==
    LET filled == Filled(entries[e])
        uniqueId == build_unique_id(filled.charger)
    IN  /\ Exists(e) /\ entries[e].version < 4
        /\ entries' = [entries EXCEPT ![e] =
             IF \E other \in Entries \ {e} : Holds(other, uniqueId)
             THEN filled
             ELSE [filled EXCEPT !.version = 4, !.uniqueId = uniqueId]]
        /\ UNCHANGED flows

Open(f, kind, e) ==
    /\ flows[f] = None
    /\ flows' = [flows EXCEPT ![f] =
         [kind |-> kind, entry |-> e, at |-> "form", charger |-> None]]
    /\ UNCHANGED entries

OpenUser(f) == Open(f, "user", None)

\* Only an entry that was enabled since, and so has no older version, is reconfigured.
Enabled(e) == Exists(e) /\ entries[e].version >= 3

OpenReconfigure(f, e) == Enabled(e) /\ Open(f, "reconfigure", e)

\* The form is submitted; the step waits for the probe.
Submit(f, c) ==
    /\ flows[f] # None /\ flows[f].at = "form"
    /\ flows' = [flows EXCEPT ![f].at = "probing", ![f].charger = c]
    /\ UNCHANGED entries

\* Any of the errors: the form is shown again.
ProbeFails(f) ==
    /\ flows[f] # None /\ flows[f].at = "probing"
    /\ flows' = [flows EXCEPT ![f].at = "form", ![f].charger = None]
    /\ UNCHANGED entries

ProbeSucceeds(f, kind) ==
    /\ flows[f] # None /\ flows[f].at = "probing" /\ flows[f].kind = kind
    /\ flows' = [flows EXCEPT ![f] = None]

\* async_step_user: abort when the charger is configured, or create its entry.
FinishUser(f) ==
    LET c == flows[f].charger
    IN  /\ ProbeSucceeds(f, "user")
        /\ IF \E e \in Entries : Holds(e, build_unique_id(c))
           THEN UNCHANGED entries
           ELSE \E e \in Entries :
                  /\ ~Exists(e)
                  /\ entries' = [entries EXCEPT ![e] =
                       [version |-> 4, charger |-> c, uniqueId |-> build_unique_id(c),
                        scan |-> DEFAULT_SCAN_INTERVAL]]

\* Mutants: only the data is updated; an entry that is not this one goes unnoticed.
FinishReconfigure_KeepsUniqueId(f) ==
    LET c == flows[f].charger
        e == flows[f].entry
    IN  /\ ProbeSucceeds(f, "reconfigure")
        /\ IF \E other \in Entries \ {e} : Holds(other, build_unique_id(c))
           THEN UNCHANGED entries
           ELSE entries' = [entries EXCEPT ![e].charger = c]
FinishReconfigure_Unchecked(f) ==
    LET c == flows[f].charger
    IN  /\ ProbeSucceeds(f, "reconfigure")
        /\ entries' = [entries EXCEPT ![flows[f].entry].charger = c,
                                      ![flows[f].entry].uniqueId = build_unique_id(c)]

\* async_step_reconfigure: abort when another entry has the charger, or move this one.
FinishReconfigure(f) ==
    LET c == flows[f].charger
        e == flows[f].entry
    IN  /\ ProbeSucceeds(f, "reconfigure")
        /\ IF \E other \in Entries \ {e} : Holds(other, build_unique_id(c))
           THEN UNCHANGED entries
           ELSE entries' = [entries EXCEPT ![e].charger = c,
                                           ![e].uniqueId = build_unique_id(c)]

Cancel(f) ==
    /\ flows[f] # None /\ flows[f].at = "form"
    /\ flows' = [flows EXCEPT ![f] = None]
    /\ UNCHANGED entries

\* The options flow.
SetOptions(e, interval) ==
    /\ Enabled(e)
    /\ entries' = [entries EXCEPT ![e].scan = interval]
    /\ UNCHANGED flows

\* Removing an entry ends the flows that reconfigure it; one whose probe is answered
\* later finds no entry.
Remove(e) ==
    /\ Exists(e)
    /\ entries' = [entries EXCEPT ![e] = None]
    /\ flows' = [f \in Flows |-> IF flows[f] # None /\ flows[f].entry = e
                                 THEN None ELSE flows[f]]

-------------------------------------------------------------------------------
\* No two entries left by an earlier version have the same unique ID.
EntriesInit ==
    /\ entries \in [Entries -> Legacy \cup {None}]
    /\ \A e, g \in Entries :
         e # g /\ Exists(e) /\ Exists(g) => entries[e].uniqueId # entries[g].uniqueId
    /\ flows = [f \in Flows |-> None]

EntriesNext ==
    \/ \E e \in Entries : Migrate(e) \/ Remove(e)
    \/ \E f \in Flows : OpenUser(f) \/ ProbeFails(f) \/ Cancel(f)
    \/ \E f \in Flows : FinishUser(f) \/ FinishReconfigure(f)
    \/ \E f \in Flows, e \in Entries : OpenReconfigure(f, e)
    \/ \E f \in Flows, c \in Chargers : Submit(f, c)
    \/ \E e \in Entries, interval \in Intervals : SetOptions(e, interval)

EntriesSpec == EntriesInit /\ [][EntriesNext]_entriesVars
=============================================================================
