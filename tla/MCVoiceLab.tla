----------------------------- MODULE MCVoiceLab -----------------------------
\* The two halves of a call of the voice laboratory, each on its own: the dialogue, whose
\* connection to the phone is abstract, and the bridge, whose dialogue is.
EXTENDS Naturals

CONSTANTS
    MaxTurns, Frames, QueueSize, Words, \* of VoiceTurns
    Phones, DailyLimit,                 \* of MediaBridge
    Nobody

VARIABLES half, client, up, down, host, worker, engine, heard,
          asterisk, events, journal, program

Talk == INSTANCE VoiceTurns WITH None <- Nobody
Bridge == INSTANCE MediaBridge WITH None <- Nobody

ASSUME LabAssumption ==
    Talk!VoiceAssumption /\ Talk!NoneIsNoRecord /\ Bridge!BridgeAssumption

-----------------------------------------------------------------------------
talkVars == <<client, up, down, host, worker, engine, heard>>
bridgeVars == <<asterisk, events, journal, program>>

LabInit == half \in {"dialogue", "bridge"} /\ Talk!Init /\ Bridge!Init

LabNext ==
    /\ \/ half = "dialogue" /\ Talk!Next /\ UNCHANGED bridgeVars
       \/ half = "bridge" /\ Bridge!Next /\ UNCHANGED talkVars
    /\ UNCHANGED half

\* While the bridge has its turn nothing of the dialogue is enabled.
LabSpec ==
    /\ LabInit /\ [][LabNext]_<<talkVars, bridgeVars, half>>
    /\ WF_talkVars(Talk!Reader) /\ WF_talkVars(Talk!HostSession) /\ WF_talkVars(Talk!Worker)

\* Nobody answers what was not heard, and nothing is played that was spoken over (VoiceTurns).
CallerIsHeard == Talk!OnlyWhatWasHeard /\ Talk!PlaybackIsCurrent

\* Whatever a call has made in Asterisk is known to the journal, and while a call is served
\* nothing is left of another (MediaBridge).
CallsAreAccounted == Bridge!NothingIsForgotten /\ Bridge!ServesAlone

\* The model host is free again after every call (VoiceTurns).
GateOpens == Talk!GateOpens
=============================================================================
