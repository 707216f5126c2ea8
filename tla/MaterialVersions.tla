-------------------------- MODULE MaterialVersions --------------------------
(***************************************************************************)
(* Versions of customer materials.  Content is stored once; a material is  *)
(* replaced by appending another to its series.  The series row is locked  *)
(* or inserted first, but the three questions whether the new material has *)
(* a history of its own are plain reads, and other requests commit between *)
(* them and the commit.                                                    *)
(***************************************************************************)
EXTENDS Naturals

CONSTANTS
    Materials,      \* contents a customer may submit, with one mapping each
    Requests,       \* append requests that may be under way at once
    MaxVersions,    \* 50 in the code
    None

\* Of the constants; assumed where an instance gives them values.
VersionsAssumption ==
    /\ MaxVersions \in Nat \ {0}
    /\ None \notin Materials

VARIABLES
    stored,         \* customer_materials, by their digest
    series,         \* [Materials -> material_series row of that root, or None]
    revisions,      \* [Materials -> material_revisions row, or None]
    appends         \* [Requests -> what the request has read, or None]

versionVars == <<stored, series, revisions, appends>>

-----------------------------------------------------------------------------
Series == [latest : Materials, version : 1 .. MaxVersions]
Revision == [root : Materials, parent : Materials, version : 2 .. MaxVersions]
Append == [root : Materials, latest : Materials, version : 1 .. MaxVersions, new : Materials]

\* NULL is no row.
NoneIsNoVersion == None \notin Series \cup Revision

VersionsInit ==
    /\ stored = {}
    /\ series = [m \in Materials |-> None]
    /\ revisions = [m \in Materials |-> None]
    /\ appends = [r \in Requests |-> None]

(* version_state *)
Root(m) == IF revisions[m] = None THEN m ELSE revisions[m].root
Head(root) ==
    IF series[root] = None THEN [latest |-> root, version |-> 1] ELSE series[root]
VersionState(m) ==
    [root |-> Root(m), version |-> IF revisions[m] = None THEN 1 ELSE revisions[m].version,
     head |-> Head(Root(m))]
IsLatest(m) == Head(Root(m)).latest = m

Open == {r \in Requests : appends[r] # None}

-----------------------------------------------------------------------------
\* store_material: the same content under the same mapping is the same row.
Store(m) ==
    /\ stored' = stored \cup {m}
    /\ UNCHANGED <<series, revisions, appends>>

\* append_revision up to its writes: the series row is held, or a second insert of
\* the same root waits and is refused.
AppendReads(r, m, new) ==
    LET root == Root(m) IN
    /\ appends[r] = None
    /\ m \in stored
    /\ \A q \in Open : appends[q].root # root
    /\ Head(root).latest = m
    /\ Head(root).version < MaxVersions
    /\ new # root /\ revisions[new] = None /\ series[new] = None
    /\ appends' = [appends EXCEPT ![r] =
           [root |-> root, latest |-> m, version |-> Head(root).version, new |-> new]]
    /\ UNCHANGED <<stored, series, revisions>>

\* The WHERE of the UPDATE and the unique keys of material_revisions.
Appends(a) ==
    /\ Head(a.root) = [latest |-> a.latest, version |-> a.version]
    /\ revisions[a.new] = None

Advanced(a) == [latest |-> a.new, version |-> a.version + 1]

AppendCommits(r) ==
    LET a == appends[r] IN
    /\ a # None
    /\ IF Appends(a)
       THEN /\ stored' = stored \cup {a.new}
            /\ series' = [series EXCEPT ![a.root] = Advanced(a)]
            /\ revisions' = [revisions EXCEPT ![a.new] =
                   [root |-> a.root, parent |-> a.latest, version |-> a.version + 1]]
       ELSE UNCHANGED <<stored, series, revisions>>
    /\ appends' = [appends EXCEPT ![r] = None]

VersionsNext ==
    \/ \E m \in Materials : Store(m)
    \/ \E r \in Requests : AppendCommits(r) \/ \E m, n \in Materials : AppendReads(r, m, n)

Spec == VersionsInit /\ [][VersionsNext]_versionVars

-----------------------------------------------------------------------------
(* Properties *)

VersionsTypeOK ==
    /\ stored \subseteq Materials
    /\ series \in [Materials -> Series \cup {None}]
    /\ revisions \in [Materials -> Revision \cup {None}]
    /\ appends \in [Requests -> Append \cup {None}]

\* However many people append at once, every history is a chain: one material per
\* version, each replacing the one before it, up to the one the series calls latest.
HistoriesAreChains ==
    \A root \in Materials : series[root] # None =>
        LET member(v) == IF v = 1 THEN {root}
                         ELSE {m \in Materials : revisions[m] # None
                                  /\ revisions[m].root = root /\ revisions[m].version = v}
        IN /\ \A v \in 2 .. series[root].version :
                 \E m \in member(v) : member(v) = {m} /\ revisions[m].parent \in member(v - 1)
           /\ \A m \in Materials : m \in member(series[root].version)
                 <=> m = series[root].latest
           /\ \A m \in Materials : revisions[m] # None /\ revisions[m].root = root =>
                 revisions[m].version <= series[root].version
=============================================================================
