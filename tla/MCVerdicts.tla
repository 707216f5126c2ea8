----------------------------- MODULE MCVerdicts -----------------------------
\* Verdicts that others rely on while what they were about may change, each on its own: the
\* acceptance of the materials of a case, the histories of materials that several people
\* replace at once, and the benchmarks of voice combinations.
EXTENDS Naturals, TLC

CONSTANTS
    \* of CustomerEvidence
    Materials, Replacers, MaxVersions, Linked, Actors, Creator, Facts, Matched, Acceptances,
    Deciders, MaxChanges,
    \* of MaterialVersions
    Contents, Appenders, MaxHistory,
    \* of VoiceCombinations
    Combinations, VoiceAdmins, Operators, MaxSaves, MaxReports, MaxChecks, MaxRevisions,
    Null, m1, m2, a1, a2, a3, f1, f2

VARIABLES
    subject,
    stored, series, revisions, appends, facts, links, acceptances, deciding, changes,
    contents, histories, replacements, appending,
    combinations, reports, runs, checks, revision, revoked, choice, asked

\* The first material comes from somebody who has no other part, the second from one of the
\* two reviewers; only the first state of the facts agrees.
MCCreator == m1 :> a3 @@ m2 :> a1
MCMatched == {m1, m2} \X {f1}

Evidence == INSTANCE CustomerEvidence WITH
    Requests <- Replacers, Clerks <- Deciders, clerks <- deciding, None <- Null

Versions == INSTANCE MaterialVersions WITH
    Materials <- Contents, Requests <- Appenders, MaxVersions <- MaxHistory, None <- Null,
    stored <- contents, series <- histories, revisions <- replacements, appends <- appending

Voices == INSTANCE VoiceCombinations WITH
    Admins <- VoiceAdmins, MaxVersions <- MaxSaves, None <- Null

ASSUME VerdictsAssumption ==
    /\ Evidence!VersionsAssumption /\ Evidence!EvidenceAssumption /\ Evidence!NoneIsNoRow
    /\ Versions!VersionsAssumption /\ Versions!NoneIsNoVersion
    /\ Voices!CombinationsAssumption

-----------------------------------------------------------------------------
evidenceVars == <<stored, series, revisions, appends, facts, links, acceptances, deciding, changes>>
historyVars == <<contents, histories, replacements, appending>>
voiceVars == <<combinations, reports, runs, checks, revision, revoked, choice, asked>>

VerdictsInit ==
    /\ subject \in {"evidence", "versions", "voices"}
    /\ Evidence!Init /\ Versions!VersionsInit /\ Voices!Init
    /\ subject # "evidence" => facts = f1

VerdictsNext ==
    /\ \/ subject = "evidence" /\ Evidence!Next /\ UNCHANGED <<historyVars, voiceVars>>
       \/ subject = "versions" /\ Versions!VersionsNext /\ UNCHANGED <<evidenceVars, voiceVars>>
       \/ subject = "voices" /\ Voices!Next /\ UNCHANGED <<evidenceVars, historyVars>>
    /\ UNCHANGED subject

VerdictsSpec ==
    VerdictsInit /\ [][VerdictsNext]_<<evidenceVars, historyVars, voiceVars, subject>>

\* What is shown as accepted stands, and the histories it rests on do not fork
\* (CustomerEvidence, MaterialVersions).
AcceptanceIsOfHistory ==
    /\ Evidence!AcceptanceStands /\ Evidence!HistoriesAreChains
    /\ Versions!HistoriesAreChains

\* A combination is enabled on the last verdict about it, and tested by one at a time
\* (VoiceCombinations).
VerdictsHold == Voices!NoVerdictAgainst /\ Voices!TestsAreExclusive

VoiceSymmetry == Permutations(Combinations)
=============================================================================
