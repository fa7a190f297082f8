------------------------ MODULE ConfigEntriesProofs ------------------------
(***************************************************************************)
(* One entry per charger, for any number of entries, flows and chargers.   *)
(***************************************************************************)
EXTENDS ConfigEntriesProperties, TLAPS

\* Unique IDs are unique, in entries of all versions.
Apart ==
    \A e, g \in Entries :
        Exists(e) /\ Exists(g) /\ e # g => entries[e].uniqueId # entries[g].uniqueId

\* What this version relies on in an entry.
EntryOK(r) ==
    r # None /\ r.version = 4 =>
        r.charger \in Chargers /\ r.scan \in Intervals /\ r.uniqueId = build_unique_id(r.charger)

EntriesOK ==
    /\ entries \in [Entries -> Entry \cup {None}]
    /\ \A e \in Entries : EntryOK(entries[e])

FlowOK(fl) ==
    fl # None =>
        /\ fl.kind = "reconfigure" => fl.entry \in Entries /\ Exists(fl.entry)
        /\ fl.at = "probing" => fl.charger \in Chargers

FlowsOK ==
    /\ flows \in [Flows -> Flow \cup {None}]
    /\ \A f \in Flows : FlowOK(flows[f])

EntriesInv == EntriesOK /\ Apart /\ FlowsOK

LEMMA NoneIsNoEntry == \A r \in Entry : r # None
BY NoneAssumption

\* What keeps the entries in order when one of them is created, moved or migrated.
LEMMA EntryPlaced ==
    ASSUME NEW e \in Entries, NEW n \in Entry, EntryOK(n), EntriesOK, Apart,
           entries' = [entries EXCEPT ![e] = n],
           \A g \in Entries \ {e} : Exists(g) => entries[g].uniqueId # n.uniqueId
    PROVE  EntriesOK' /\ Apart' /\ (\A g \in Entries : Exists(g) => Exists(g)')
<1>1. entries'[e] = n /\ \A g \in Entries \ {e} : entries'[g] = entries[g]
    BY DEF EntriesOK
<1>2. entries' \in [Entries -> Entry \cup {None}]
    BY DEF EntriesOK
<1>3. \A g \in Entries : EntryOK(entries'[g])
    BY <1>1 DEF EntriesOK
<1>4. Apart'
    BY <1>1 DEF Apart, Exists
<1>5. \A g \in Entries : Exists(g) => Exists(g)'
    BY <1>1, NoneIsNoEntry DEF Exists
<1> QED BY <1>2, <1>3, <1>4, <1>5 DEF EntriesOK, EntryOK

LEMMA EntriesUnchanged ==
    ASSUME EntriesOK, Apart, UNCHANGED entries
    PROVE  EntriesOK' /\ Apart' /\ (\A g \in Entries : Exists(g) => Exists(g)')
BY DEF EntriesOK, EntryOK, Apart, Exists

\* What keeps the flows in order when one of them moves on or ends, and no entry goes.
LEMMA FlowPlaced ==
    ASSUME NEW f \in Flows, NEW fl \in Flow \cup {None}, FlowsOK, FlowOK(fl),
           \A e \in Entries : Exists(e) => Exists(e)',
           flows' = [flows EXCEPT ![f] = fl]
    PROVE  FlowsOK'
<1>1. flows' \in [Flows -> Flow \cup {None}]
    BY DEF FlowsOK
<1>2. flows'[f] = fl /\ \A h \in Flows \ {f} : flows'[h] = flows[h]
    BY DEF FlowsOK
<1>3. \A h \in Flows : FlowOK(flows'[h])
    BY <1>2 DEF FlowsOK
<1> QED BY <1>1, <1>3 DEF FlowsOK, FlowOK

LEMMA FlowsUnchanged ==
    ASSUME FlowsOK, \A e \in Entries : Exists(e) => Exists(e)', UNCHANGED flows
    PROVE  FlowsOK'
BY DEF FlowsOK, FlowOK

LEMMA FlowEnds ==
    ASSUME NEW f \in Flows, FlowsOK, \A e \in Entries : Exists(e) => Exists(e)',
           flows' = [flows EXCEPT ![f] = None]
    PROVE  FlowsOK'
BY FlowPlaced DEF FlowOK

LEMMA FilledIsEntry ==
    ASSUME NEW r \in Entry
    PROVE  /\ Filled(r) \in Entry /\ Filled(r).version = 3
           /\ Filled(r).charger \in Chargers /\ Filled(r).scan \in Intervals
           /\ Filled(r).uniqueId = r.uniqueId
<1> DEFINE unit == IF r.charger.unit = None THEN DEFAULT_UNIT_ID ELSE r.charger.unit
           scan == IF r.scan = None THEN DEFAULT_SCAN_INTERVAL ELSE r.scan
           charger == [r.charger EXCEPT !.unit = unit]
<1>1. r.charger \in [address : Addresses, unit : Units \cup {None}]
    BY DEF Entry
<1>2. unit \in Units /\ scan \in Intervals
    BY <1>1, EntriesAssumption DEF Entry
<1>3. charger \in Chargers /\ charger \in [address : Addresses, unit : Units \cup {None}]
    BY <1>1, <1>2 DEF Chargers
<1>4. Filled(r) = [r EXCEPT !.version = 3, !.charger = charger, !.scan = scan]
    BY DEF Filled
<1> HIDE DEF charger, scan, unit
<1>5. Filled(r) = [version |-> 3, charger |-> charger, uniqueId |-> r.uniqueId, scan |-> scan]
    BY <1>4 DEF Entry
<1>6. 3 \in 1..4 /\ r.uniqueId \in UniqueIds /\ scan \in Intervals \cup {None}
    BY <1>2 DEF Entry
<1>7. Filled(r) \in Entry
    BY <1>3, <1>5, <1>6 DEF Entry
<1> QED BY <1>2, <1>3, <1>5, <1>7

LEMMA MigrateStep ==
    ASSUME NEW e \in Entries, EntriesInv, Migrate(e)
    PROVE  EntriesInv'
<1> DEFINE filled == Filled(entries[e])
           uniqueId == build_unique_id(filled.charger)
<1>1. Exists(e) /\ entries[e] \in Entry
    BY DEF Migrate, Exists, EntriesInv, EntriesOK
<1>2. /\ filled \in Entry /\ filled.version = 3
      /\ filled.charger \in Chargers /\ filled.scan \in Intervals
      /\ filled.uniqueId = entries[e].uniqueId
    BY <1>1, FilledIsEntry
<1>3. PICK n \in {filled, [filled EXCEPT !.version = 4, !.uniqueId = uniqueId]} :
        /\ entries' = [entries EXCEPT ![e] = n]
        /\ n # filled => ~\E other \in Entries \ {e} : Holds(other, uniqueId)
    BY DEF Migrate
<1>4. CASE n = filled
    <2>1. EntryOK(n)
        BY <1>2, <1>4 DEF EntryOK
    <2>2. \A g \in Entries \ {e} : Exists(g) => entries[g].uniqueId # n.uniqueId
        BY <1>1, <1>2, <1>4 DEF EntriesInv, Apart
    <2>3. EntriesOK' /\ Apart' /\ (\A g \in Entries : Exists(g) => Exists(g)')
        <3> HIDE DEF filled
        <3> QED BY <1>2, <1>3, <1>4, <2>1, <2>2, EntryPlaced DEF EntriesInv
    <2> QED BY <2>3, FlowsUnchanged DEF EntriesInv, Migrate
<1>5. CASE n # filled
    <2>1. n = [filled EXCEPT !.version = 4, !.uniqueId = uniqueId]
        BY <1>3, <1>5
    <2> HIDE DEF filled, uniqueId
    <2>2. /\ n.version = 4 /\ n.uniqueId = uniqueId
          /\ n.charger = filled.charger /\ n.scan = filled.scan
        BY <1>2, <2>1 DEF Entry
    <2>3. uniqueId \in UniqueIds
        BY <1>2 DEF uniqueId, UniqueIds
    <2>4. n \in Entry
        <3>1. n = [version |-> 4, charger |-> filled.charger, uniqueId |-> uniqueId,
                   scan |-> filled.scan]
            BY <1>2, <2>1 DEF Entry
        <3>2. 4 \in 1..4 /\ filled.scan \in Intervals \cup {None}
              /\ filled.charger \in [address : Addresses, unit : Units \cup {None}]
            BY <1>2 DEF Entry
        <3> QED BY <2>3, <3>1, <3>2 DEF Entry
    <2>5. EntryOK(n)
        BY <1>2, <2>2 DEF EntryOK, uniqueId
    <2>6. \A g \in Entries \ {e} : Exists(g) => entries[g].uniqueId # n.uniqueId
        BY <1>3, <1>5, <2>2 DEF Holds
    <2>7. EntriesOK' /\ Apart' /\ (\A g \in Entries : Exists(g) => Exists(g)')
        BY <1>3, <2>4, <2>5, <2>6, EntryPlaced DEF EntriesInv
    <2> QED BY <2>7, FlowsUnchanged DEF EntriesInv, Migrate
<1> QED BY <1>4, <1>5

LEMMA RemoveStep ==
    ASSUME NEW e \in Entries, EntriesInv, Remove(e)
    PROVE  EntriesInv'
<1>1. /\ entries' = [entries EXCEPT ![e] = None]
      /\ flows' = [f \in Flows |-> IF flows[f] # None /\ flows[f].entry = e
                                   THEN None ELSE flows[f]]
    BY DEF Remove
<1>2. entries'[e] = None /\ \A g \in Entries \ {e} : entries'[g] = entries[g]
    BY <1>1 DEF EntriesInv, EntriesOK
<1>3. EntriesOK'
    BY <1>1, <1>2 DEF EntriesInv, EntriesOK, EntryOK
<1>4. Apart'
    BY <1>2 DEF EntriesInv, Apart, Exists
<1>5. FlowsOK'
    BY <1>1, <1>2 DEF EntriesInv, FlowsOK, FlowOK, Exists
<1> QED BY <1>3, <1>4, <1>5 DEF EntriesInv

\* A step of one flow that leaves the entries alone.
LEMMA FlowStep ==
    ASSUME NEW f \in Flows, EntriesInv,
           \/ OpenUser(f) \/ ProbeFails(f) \/ Cancel(f)
           \/ \E e \in Entries : OpenReconfigure(f, e)
           \/ \E c \in Chargers : Submit(f, c)
    PROVE  EntriesInv'
<1>1. UNCHANGED entries
    BY DEF OpenUser, OpenReconfigure, Open, ProbeFails, Cancel, Submit
<1>2. ASSUME NEW fl \in Flow \cup {None}, FlowOK(fl), flows' = [flows EXCEPT ![f] = fl]
      PROVE  EntriesInv'
    BY <1>1, <1>2, EntriesUnchanged, FlowPlaced DEF EntriesInv
<1>3. CASE OpenUser(f)
    <2> DEFINE fl == [kind |-> "user", entry |-> None, at |-> "form", charger |-> None]
    <2>1. fl \in Flow /\ FlowOK(fl) /\ flows' = [flows EXCEPT ![f] = fl]
        BY <1>3 DEF OpenUser, Open, Flow, FlowOK
    <2> HIDE DEF fl
    <2> QED BY <1>2, <2>1 DEF FlowOK
<1>4. CASE \E e \in Entries : OpenReconfigure(f, e)
    <2>1. PICK e \in Entries : OpenReconfigure(f, e)
        BY <1>4
    <2> DEFINE fl == [kind |-> "reconfigure", entry |-> e, at |-> "form", charger |-> None]
    <2>2. fl \in Flow /\ FlowOK(fl) /\ flows' = [flows EXCEPT ![f] = fl]
        BY <2>1 DEF OpenReconfigure, Enabled, Open, Flow, FlowOK
    <2> HIDE DEF fl
    <2> QED BY <1>2, <2>2 DEF FlowOK
<1>5. CASE Cancel(f)
    <2>1. None \in Flow \cup {None} /\ FlowOK(None) /\ flows' = [flows EXCEPT ![f] = None]
        BY <1>5 DEF Cancel, FlowOK
    <2> QED BY <1>2, <2>1 DEF FlowOK
<1>6. CASE ProbeFails(f)
    <2> DEFINE fl == [flows[f] EXCEPT !.at = "form", !.charger = None]
    <2>1. flows[f] \in Flow /\ FlowOK(flows[f]) /\ flows[f] # None
        BY <1>6 DEF ProbeFails, EntriesInv, FlowsOK
    <2>2. flows' = [flows EXCEPT ![f] = fl]
        BY <1>6 DEF ProbeFails
    <2>3. fl \in Flow /\ FlowOK(fl)
        BY <2>1 DEF Flow, FlowOK
    <2> HIDE DEF fl
    <2> QED BY <1>2, <2>2, <2>3 DEF FlowOK
<1>7. CASE \E c \in Chargers : Submit(f, c)
    <2>1. PICK c \in Chargers : Submit(f, c)
        BY <1>7
    <2> DEFINE fl == [flows[f] EXCEPT !.at = "probing", !.charger = c]
    <2>2. flows[f] \in Flow /\ FlowOK(flows[f]) /\ flows[f] # None
        BY <2>1 DEF Submit, EntriesInv, FlowsOK
    <2>3. flows' = [flows EXCEPT ![f] = fl]
        BY <2>1 DEF Submit
    <2>4. fl \in Flow /\ FlowOK(fl)
        BY <2>2 DEF Flow, FlowOK
    <2> HIDE DEF fl
    <2> QED BY <1>2, <2>3, <2>4 DEF FlowOK
<1> QED BY <1>3, <1>4, <1>5, <1>6, <1>7

LEMMA FinishUserStep ==
    ASSUME NEW f \in Flows, EntriesInv, FinishUser(f)
    PROVE  EntriesInv'
<1> DEFINE c == flows[f].charger
<1>1. flows[f] # None /\ flows[f].at = "probing" /\ flows' = [flows EXCEPT ![f] = None]
    BY DEF FinishUser, ProbeSucceeds
<1>2. c \in Chargers
    BY <1>1 DEF EntriesInv, FlowsOK, FlowOK
<1>3. CASE \E e \in Entries : Holds(e, build_unique_id(c))
    <2>1. UNCHANGED entries
        BY <1>3 DEF FinishUser
    <2> QED BY <1>1, <2>1, EntriesUnchanged, FlowEnds DEF EntriesInv
<1>4. CASE ~\E e \in Entries : Holds(e, build_unique_id(c))
    <2> DEFINE n == [version |-> 4, charger |-> c, uniqueId |-> build_unique_id(c),
                     scan |-> DEFAULT_SCAN_INTERVAL]
    <2>1. PICK e \in Entries : entries' = [entries EXCEPT ![e] = n]
        BY <1>4 DEF FinishUser
    <2>2. n \in Entry /\ EntryOK(n)
        BY <1>2, EntriesAssumption DEF Entry, EntryOK, Chargers, UniqueIds
    <2>3. \A g \in Entries \ {e} : Exists(g) => entries[g].uniqueId # n.uniqueId
        BY <1>4 DEF Holds
    <2> HIDE DEF n
    <2>4. EntriesOK' /\ Apart' /\ (\A g \in Entries : Exists(g) => Exists(g)')
        BY <2>1, <2>2, <2>3, EntryPlaced DEF EntriesInv
    <2> QED BY <1>1, <2>4, FlowEnds DEF EntriesInv
<1> QED BY <1>3, <1>4

LEMMA FinishReconfigureStep ==
    ASSUME NEW f \in Flows, EntriesInv, FinishReconfigure(f)
    PROVE  EntriesInv'
<1> DEFINE c == flows[f].charger
           e == flows[f].entry
<1>1. /\ flows[f] # None /\ flows[f].at = "probing" /\ flows[f].kind = "reconfigure"
      /\ flows' = [flows EXCEPT ![f] = None]
    BY DEF FinishReconfigure, ProbeSucceeds
<1>2. c \in Chargers /\ e \in Entries /\ Exists(e)
    BY <1>1 DEF EntriesInv, FlowsOK, FlowOK
<1>3. CASE \E other \in Entries \ {e} : Holds(other, build_unique_id(c))
    <2>1. UNCHANGED entries
        BY <1>3 DEF FinishReconfigure
    <2> QED BY <1>1, <2>1, EntriesUnchanged, FlowEnds DEF EntriesInv
<1>4. CASE ~\E other \in Entries \ {e} : Holds(other, build_unique_id(c))
    <2> DEFINE n == [entries[e] EXCEPT !.charger = c, !.uniqueId = build_unique_id(c)]
    <2>1. entries' = [entries EXCEPT ![e] = n]
        BY <1>4 DEF FinishReconfigure
    <2>2. entries[e] \in Entry /\ EntryOK(entries[e]) /\ entries[e] # None
        BY <1>2 DEF EntriesInv, EntriesOK, Exists
    <2>3. n \in Entry
        BY <1>2, <2>2 DEF Entry, Chargers, UniqueIds
    <2>4. /\ n.uniqueId = build_unique_id(c) /\ n.charger = c
          /\ n.version = entries[e].version /\ n.scan = entries[e].scan
        BY <2>2 DEF Entry
    <2>5. EntryOK(n)
        <3> HIDE DEF n, c
        <3> QED BY <1>2, <2>2, <2>4 DEF EntryOK
    <2>6. \A g \in Entries \ {e} : Exists(g) => entries[g].uniqueId # n.uniqueId
        BY <1>4, <2>4 DEF Holds
    <2> HIDE DEF n
    <2>7. EntriesOK' /\ Apart' /\ (\A g \in Entries : Exists(g) => Exists(g)')
        BY <1>2, <2>1, <2>3, <2>5, <2>6, EntryPlaced DEF EntriesInv
    <2> QED BY <1>1, <2>7, FlowEnds DEF EntriesInv
<1> QED BY <1>3, <1>4

LEMMA SetOptionsStep ==
    ASSUME NEW e \in Entries, NEW i \in Intervals, EntriesInv, SetOptions(e, i)
    PROVE  EntriesInv'
<1> DEFINE n == [entries[e] EXCEPT !.scan = i]
<1>1. Exists(e) /\ flows' = flows /\ entries' = [entries EXCEPT ![e] = n]
    BY DEF SetOptions, Enabled
<1>2. entries[e] \in Entry /\ EntryOK(entries[e]) /\ entries[e] # None
    BY <1>1 DEF EntriesInv, EntriesOK, Exists
<1>3. n \in Entry
    BY <1>2 DEF Entry
<1>4. /\ n.charger = entries[e].charger /\ n.uniqueId = entries[e].uniqueId
      /\ n.version = entries[e].version /\ n.scan = i
    BY <1>2 DEF Entry
<1>5. EntryOK(n)
    <2> HIDE DEF n
    <2> QED BY <1>2, <1>4 DEF EntryOK
<1>6. \A g \in Entries \ {e} : Exists(g) => entries[g].uniqueId # n.uniqueId
    BY <1>1, <1>4 DEF EntriesInv, Apart
<1> HIDE DEF n
<1>7. EntriesOK' /\ Apart' /\ (\A g \in Entries : Exists(g) => Exists(g)')
    BY <1>1, <1>3, <1>5, <1>6, EntryPlaced DEF EntriesInv
<1> QED BY <1>1, <1>7, FlowsUnchanged DEF EntriesInv

LEMMA EntriesStep == EntriesInv /\ [EntriesNext]_entriesVars => EntriesInv'
<1> SUFFICES ASSUME EntriesInv, [EntriesNext]_entriesVars PROVE EntriesInv'
    OBVIOUS
<1>1. CASE UNCHANGED entriesVars
    <2>1. UNCHANGED entries /\ UNCHANGED flows
        BY <1>1 DEF entriesVars
    <2> QED BY <2>1, EntriesUnchanged, FlowsUnchanged DEF EntriesInv
<1>2. CASE EntriesNext
    <2>1. \/ \E e \in Entries : Migrate(e)
          \/ \E e \in Entries : Remove(e)
          \/ \E f \in Flows :
               \/ OpenUser(f) \/ ProbeFails(f) \/ Cancel(f)
               \/ \E e \in Entries : OpenReconfigure(f, e)
               \/ \E c \in Chargers : Submit(f, c)
          \/ \E f \in Flows : FinishUser(f)
          \/ \E f \in Flows : FinishReconfigure(f)
          \/ \E e \in Entries, i \in Intervals : SetOptions(e, i)
        BY <1>2 DEF EntriesNext
    <2> QED BY <2>1, MigrateStep, RemoveStep, FlowStep, FinishUserStep,
               FinishReconfigureStep, SetOptionsStep
<1> QED BY <1>1, <1>2

LEMMA EntriesStart == EntriesInit => EntriesInv
<1> SUFFICES ASSUME EntriesInit PROVE EntriesInv
    OBVIOUS
<1>1. entries \in [Entries -> Legacy \cup {None}]
    BY DEF EntriesInit
<1>2. EntriesOK
    BY <1>1 DEF EntriesOK, EntryOK, Legacy
<1>3. Apart
    BY DEF EntriesInit, Apart
<1>4. FlowsOK
    BY DEF EntriesInit, FlowsOK, FlowOK
<1> QED BY <1>2, <1>3, <1>4 DEF EntriesInv

LEMMA EntriesInvHolds == EntriesSpec => []EntriesInv
BY EntriesStart, EntriesStep, PTL DEF EntriesSpec

\* Entries and flows keep their types; an entry of this version lacks nothing.
THEOREM EntriesTypeOKHolds == EntriesSpec => []EntriesTypeOK
<1>1. EntriesInv => EntriesTypeOK
    BY DEF EntriesInv, EntriesOK, EntryOK, FlowsOK, FlowOK, EntriesTypeOK, Exists
<1> QED BY <1>1, EntriesInvHolds, PTL

\* The unique ID of every migrated entry is that of its charger, whatever the flows do.
THEOREM UniqueIdNamesChargerHolds == EntriesSpec => []UniqueIdNamesCharger
<1>1. EntriesInv => UniqueIdNamesCharger
    BY DEF EntriesInv, EntriesOK, EntryOK, UniqueIdNamesCharger, Exists
<1> QED BY <1>1, EntriesInvHolds, PTL

\* No two entries of this version have the same charger, however the flows overlap and
\* whenever an entry of an earlier version is enabled.
THEOREM OneEntryPerChargerHolds == EntriesSpec => []OneEntryPerCharger
<1>1. ASSUME EntriesInv PROVE OneEntryPerCharger
    <2>1. UniqueIdNamesCharger
        BY <1>1 DEF EntriesInv, EntriesOK, EntryOK, UniqueIdNamesCharger, Exists
    <2> QED BY <1>1, <2>1 DEF OneEntryPerCharger, UniqueIdNamesCharger, EntriesInv, Apart
<1> QED BY <1>1, EntriesInvHolds, PTL
=============================================================================
