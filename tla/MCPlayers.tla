----------------------------- MODULE MCPlayers -----------------------------
(* What a player meets, for TLC: the PIN and the pairing of a device, and the feedback and the *)
(* audio of its pads.  A behaviour is one of the four parts; the others rest.                  *)
EXTENDS PinRotation

CONSTANTS d1, d2, t1, t2

VARIABLES
    part,
    \* Pairing
    pending, record, session, minted, made, thread, dish, handed, recorded, accepted,
    \* Feedback
    serial, word, device, fbPad, fbSession, fbRx, client, fbTick, past,
    \* AudioStreams
    hot, writing, owners, plugged, change, rx, ring, mic, pads, lane

pairingVars == <<pending, record, session, minted, made, thread, dish, handed, recorded, accepted>>
feedbackVars == <<serial, word, device, fbPad, fbSession, fbRx, client, fbTick, past>>
audioVars == <<hot, writing, owners, plugged, change, rx, ring, mic, pads, lane>>

P == INSTANCE Pairing WITH Devices <- {d1, d2}, Threads <- {t1, t2}, kMaxPending <- 1,
                           MaxKeys <- 2, MaxSessions <- 1

\* A tick of time is 50 ms.
F == INSTANCE Feedback WITH Levels <- {1, 2}, Colours <- {"red", "blue"}, Wire <- 10, Refresh <- 4,
                            HapticWire <- 2, HapticRefresh <- 1, Period <- 2,
                            MaxPlugs <- 2, MaxEpoch <- 2,
                            pad <- fbPad, session <- fbSession, rx <- fbRx, tick <- fbTick

A == INSTANCE AudioStreams WITH Places <- {1, 2}, Serials <- {1, 2}, RingCapacity <- 2,
                                MaxFrames <- 2, MaxGen <- 3, MaxToken <- 2

\* The small casts of each part, explored one by one.
Parts ==
    {[of |-> "pin"],
     [of |-> "pairing", devices |-> {d1, d2}, threads |-> {t1}],
     [of |-> "pairing", devices |-> {P!Free.device}, threads |-> {t1, t2}],
     [of |-> "feedback", plugs |-> 1, epochs |-> 1, levels |-> {1, 2}, colours |-> {}, time |-> TRUE],
     [of |-> "feedback", plugs |-> 2, epochs |-> 2, levels |-> {2}, colours |-> {"red", "blue"},
      time |-> FALSE],
     [of |-> "audio", lanes |-> {}, mic |-> TRUE, serials |-> {1}, gens |-> 3, tokens |-> 1],
     [of |-> "audio", lanes |-> {}, mic |-> TRUE, serials |-> {1, 2}, gens |-> 2, tokens |-> 1],
     [of |-> "audio", lanes |-> {1}, mic |-> FALSE, serials |-> {1, 2}, gens |-> 3, tokens |-> 2],
     [of |-> "audio", lanes |-> {1, 2}, mic |-> FALSE, serials |-> {1, 2}, gens |-> 2, tokens |-> 1],
     [of |-> "audio", lanes |-> {1}, mic |-> TRUE, serials |-> {1}, gens |-> 2, tokens |-> 1]}

\* The variables of a part that rests are 0.
PairingRests ==
    /\ pending = 0 /\ record = 0 /\ session = 0 /\ minted = 0 /\ made = 0 /\ thread = 0
    /\ dish = 0 /\ handed = 0 /\ recorded = 0 /\ accepted = 0
FeedbackRests ==
    /\ serial = 0 /\ word = 0 /\ device = 0 /\ fbPad = 0 /\ fbSession = 0 /\ fbRx = 0
    /\ client = 0 /\ fbTick = 0 /\ past = 0
AudioRests ==
    /\ hot = 0 /\ writing = 0 /\ owners = 0 /\ plugged = 0 /\ change = 0 /\ rx = 0 /\ ring = 0
    /\ mic = 0 /\ pads = 0 /\ lane = 0

MCInit ==
    /\ part \in Parts
    /\ Init
    /\ IF part.of = "pairing" THEN P!Init ELSE PairingRests
    /\ IF part.of = "feedback" THEN F!Init ELSE FeedbackRests
    /\ IF part.of = "audio" THEN A!Init ELSE AudioRests

PinNext == part.of = "pin" /\ Next /\ UNCHANGED <<pairingVars, feedbackVars, audioVars>>

PairingNext ==
    /\ part.of = "pairing" /\ P!Next
    /\ \A t \in {t1, t2} :
         thread'[t] # P!Free => t \in part.threads /\ thread'[t].device \in part.devices
    /\ \A i \in DOMAIN pending' : pending'[i].device \in part.devices
    /\ UNCHANGED <<vars, feedbackVars, audioVars>>

FeedbackNext ==
    /\ part.of = "feedback" /\ F!Next
    /\ device'.gen <= part.plugs /\ fbSession'.epoch <= part.epochs
    /\ fbTick' > 0 => part.time
    /\ fbPad'.capable => part.colours # {}
    /\ {word', fbPad'.haptic} \subseteq part.levels \cup {0}
    /\ fbPad'.light \in part.colours \cup {F!None}
    /\ UNCHANGED <<vars, pairingVars, audioVars>>

AudioNext ==
    /\ part.of = "audio" /\ A!Next
    /\ \A s \in 1 .. 2 : lane'[s].at # "idle" => s \in part.lanes
    /\ \A s \in 1 .. 2 : plugged'[s] # A!None => s \in part.serials
    /\ rx' # A!NoPacket => part.mic
    /\ change'.gens <= part.gens /\ change'.row.token <= part.tokens
    /\ UNCHANGED <<vars, pairingVars, feedbackVars>>

MCNext == (PinNext \/ PairingNext \/ FeedbackNext \/ AudioNext) /\ UNCHANGED part

MCSpec == MCInit /\ [][MCNext]_<<part, vars, pairingVars, feedbackVars, audioVars>>

\* The properties of the parts (modules Pairing, Feedback and AudioStreams).
PairingIsSound == part.of = "pairing" => P!PairingIsSound
PadHasItsGamesLevel == part.of = "feedback" => F!PadHasItsGamesLevel
LightIsShown == part.of = "feedback" => F!LightIsShown
HeldLevelRuns == part.of = "feedback" => F!HeldLevelRuns
MotorsStop == part.of = "feedback" => F!MotorsStop
MicReachesItsPad == part.of = "audio" => A!MicReachesItsPad
AudioReachesItsPlayer == part.of = "audio" => A!AudioReachesItsPlayer
=============================================================================
