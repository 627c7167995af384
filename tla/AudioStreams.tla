---------------------------- MODULE AudioStreams ----------------------------
(***************************************************************************)
(* Controller audio in both directions against topology changes            *)
(* (session_service.cpp, mic_worker.cpp).                                  *)
(*                                                                         *)
(* Up: the receive thread reads the pad a mic packet is for, leaves its    *)
(* bracket and hands the packet to the mic worker's ring; the worker       *)
(* decodes it later and submits under a bracket of its own.  Down: the     *)
(* backend's audio thread of a pad hands over speaker or haptic audio,     *)
(* finds the session through padOwners and sends each window under its     *)
(* bracket.                                                                *)
(*                                                                         *)
(* A place is a controller index of a slot.  Audio is known by the plug    *)
(* generation of the pad it is from or for.  What the reorder window makes *)
(* of a packet is AudioJitter's subject: here it gives out any number of   *)
(* frames.  The sleep of the mic worker is the pointer worker's (module    *)
(* PointerWorker).  Capability and policy checks only drop audio.          *)
(***************************************************************************)
EXTENDS Integers, Sequences

CONSTANTS Places,        \* (slot, ctrlIdx), positive integers
          Serials,       \* backend serials, positive integers
          RingCapacity,  \* MIC_PACKET_CAPACITY
          MaxFrames,     \* bound: frames the window gives out for one packet
          MaxGen,        \* bound: plug generations
          MaxToken       \* bound: tokens a place's session is given

None == 0  \* no place, no serial, no generation
Mic == 0   \* RX_MIC_PARTICIPANT, beside the audio threads' serials

VARIABLES
    hot,      \* [Places -> [token, serial, gen]]: the published rows
    writing,  \* the place whose slot is inside a seqlock write, or None
    owners,   \* [Serials -> place or None]: padOwners
    plugged,  \* [Serials -> generation or None]: the backend's device
    change,   \* the topology change under topoMtx_
    rx,       \* the mic packet the receive thread is about to hand over
    ring,     \* packets_
    mic,      \* [at, frames]: the mic worker; its packet is the ring's first
    pads,     \* [Serials -> [gen, place, audio]]: the worker's pads_
    lane      \* [Serials -> [at, owner, gen, audio, token]]: audio thread and AudioLane

vars == <<hot, writing, owners, plugged, change, rx, ring, mic, pads, lane>>

NoRow == [token |-> 1, serial |-> None, gen |-> None]
NoPacket == [place |-> None, serial |-> None, gen |-> None]
Gens == 1 .. MaxGen
Rows == [token : 1 .. MaxToken, serial : Serials \cup {None}, gen : Gens \cup {None}]
Packets == [place : Places, serial : Serials, gen : Gens]

\* Every variable has its type.
TypeOK ==
    /\ hot \in [Places -> Rows]
    /\ writing \in Places \cup {None}
    /\ owners \in [Serials -> Places \cup {None}]
    /\ plugged \in [Serials -> Gens \cup {None}]
    /\ change \in [at : {"idle", "begin", "grace", "stored", "unplug"}, place : Places \cup {None},
                   row : Rows, retired : Serials \cup {None},
                   waits : SUBSET (Serials \cup {Mic}), gens : 0 .. MaxGen]
    /\ rx \in Packets \cup {NoPacket}
    /\ ring \in Seq(Packets) /\ Len(ring) <= RingCapacity
    /\ mic \in [at : {"idle", "bind", "submit"}, frames : 0 .. MaxFrames]
    /\ pads \in [Serials -> [gen : Gens \cup {None}, place : Places \cup {None}, audio : SUBSET Gens]]
    /\ lane \in [Serials -> [at : {"idle", "target", "read", "window", "enter", "endpoint", "send"},
                             owner : Places \cup {None}, gen : Gens \cup {None},
                             audio : SUBSET Gens, token : 0 .. MaxToken]]

Init ==
    /\ hot = [p \in Places |-> NoRow]
    /\ writing = None
    /\ owners = [s \in Serials |-> None]
    /\ plugged = [s \in Serials |-> None]
    /\ change = [at |-> "idle", place |-> None, row |-> NoRow, retired |-> None,
                 waits |-> {}, gens |-> 0]
    /\ rx = NoPacket
    /\ ring = <<>>
    /\ mic = [at |-> "idle", frames |-> 0]
    /\ pads = [s \in Serials |-> [gen |-> None, place |-> None, audio |-> {}]]
    /\ lane = [s \in Serials |-> [at |-> "idle", owner |-> None, gen |-> None,
                                  audio |-> {}, token |-> 0]]

-----------------------------------------------------------------------------
(* The topology change: it plugs the new device, writes the slot, and      *)
(* unplugs the device that lost its pad.                                   *)

\* The participants inside a bracket (RxEpoch); the receive thread's own
\* bracket is one step.
inBracket ==
    {s \in Serials : lane[s].at \in {"endpoint", "send"}}
        \cup (IF mic.at = "submit" THEN {Mic} ELSE {})

\* A participant's epoch moves, and a grace wait that saw it inside goes on.
exited(who) == [change EXCEPT !.waits = @ \ {who}]

\* The row the change gives the place: its pad, with the generation
\* resetControllerStreamState takes, and its token.
begin(p, row) ==
    /\ change.at = "idle"
    /\ change' = [change EXCEPT !.at = "begin", !.place = p, !.row = row,
                                !.retired = IF row.serial = hot[p].serial THEN None ELSE hot[p].serial,
                                !.gens = IF row.gen > @ THEN row.gen ELSE @]

\* A pad is added or replugged: the new device is plugged first.
plugPads(p, s, token) ==
    /\ plugged[s] = None
    /\ change.gens < MaxGen
    /\ begin(p, [token |-> token, serial |-> s, gen |-> change.gens + 1])
    /\ plugged' = [plugged EXCEPT ![s] = change.gens + 1]
    /\ UNCHANGED <<hot, writing, owners, rx, ring, mic, pads, lane>>

\* A pad is removed, with its session or from it.
vacatePadLocked(p, token) ==
    /\ hot[p].serial # None
    /\ begin(p, [token |-> token, serial |-> None, gen |-> None])
    /\ UNCHANGED <<hot, writing, owners, plugged, rx, ring, mic, pads, lane>>

\* A rotated session keeps its pads and gets a new token and key.
adoptSessionLocked(p) ==
    /\ hot[p].token < MaxToken
    /\ begin(p, [hot[p] EXCEPT !.token = @ + 1])
    /\ UNCHANGED <<hot, writing, owners, plugged, rx, ring, mic, pads, lane>>

\* HotWrite: the slot turns odd, then the brackets open at that time are waited out.
hotWriteBegins ==
    /\ change.at = "begin"
    /\ writing' = change.place
    /\ change' = [change EXCEPT !.at = "grace", !.waits = inBracket]
    /\ UNCHANGED <<hot, owners, plugged, rx, ring, mic, pads, lane>>

\* The owners and the row are stored while the slot is odd.
publishControllers ==
    /\ change.at = "grace" /\ change.waits = {}
    /\ hot' = [hot EXCEPT ![change.place] = change.row]
    /\ owners' = [s \in Serials |-> CASE s = change.row.serial -> change.place
                                      [] s # change.row.serial /\ owners[s] = change.place -> None
                                      [] OTHER -> owners[s]]
    /\ change' = [change EXCEPT !.at = "stored"]
    /\ UNCHANGED <<writing, plugged, rx, ring, mic, pads, lane>>

\* The slot turns even.
hotWriteCloses ==
    /\ change.at = "stored"
    /\ writing' = None
    /\ change' = [change EXCEPT !.at = IF change.retired = None THEN "idle" ELSE "unplug"]
    /\ UNCHANGED <<hot, owners, plugged, rx, ring, mic, pads, lane>>

\* unplugDevice joins the device's audio thread.  An unplug that is not
\* confirmed leaves the serial quarantined.
unplugRetired ==
    /\ change.at = "unplug"
    /\ lane[change.retired].at = "idle"
    /\ \/ plugged' = [plugged EXCEPT ![change.retired] = None]
       \/ UNCHANGED plugged
    /\ change' = [change EXCEPT !.at = "idle", !.place = None, !.retired = None, !.row = NoRow]
    /\ UNCHANGED <<hot, writing, owners, rx, ring, mic, pads, lane>>

-----------------------------------------------------------------------------
(* Up: microphone packets.                                                 *)

\* The receive thread reads the packet's pad inside its bracket and leaves it.
handleMicAudio(p) ==
    /\ rx = NoPacket
    /\ writing # p /\ hot[p].serial # None
    /\ rx' = [place |-> p, serial |-> hot[p].serial, gen |-> hot[p].gen]
    /\ UNCHANGED <<hot, writing, owners, plugged, change, ring, mic, pads, lane>>

\* A full ring drops the packet.
handOverMicFrame ==
    /\ rx # NoPacket
    /\ rx' = NoPacket
    /\ ring' = IF Len(ring) < RingCapacity THEN Append(ring, rx) ELSE ring
    /\ UNCHANGED <<hot, writing, owners, plugged, change, mic, pads, lane>>

\* MicWorker::binding, for the pad a packet or a decoder was made for.
binding(p, s, gen) ==
    IF writing = p THEN "changing"
    ELSE IF hot[p].serial = s /\ hot[p].gen = gen THEN "bound" ELSE "unbound"

\* Mutant: the window and the decoder outlive their pad.
process_KeepsDecoder ==
    /\ mic.at = "idle" /\ ring # <<>>
    /\ LET packet == Head(ring) IN
       \E n \in 0 .. MaxFrames :
          /\ pads' = [pads EXCEPT ![packet.serial] =
                        [gen |-> packet.gen, place |-> packet.place, audio |-> @.audio \cup {packet.gen}]]
          /\ mic' = [at |-> IF n = 0 THEN "idle" ELSE "bind", frames |-> n]
          /\ ring' = IF n = 0 THEN Tail(ring) ELSE ring
    /\ UNCHANGED <<hot, writing, owners, plugged, change, rx, lane>>

\* A packet of another generation resets the serial's window and decoder
\* first.  The window gives out some frames, or none.
process ==
    /\ mic.at = "idle" /\ ring # <<>>
    /\ LET packet == Head(ring)
           pad == pads[packet.serial]
           heard == IF pad.gen = packet.gen THEN pad.audio ELSE {}
       IN \E n \in 0 .. MaxFrames :
             /\ pads' = [pads EXCEPT ![packet.serial] =
                           [gen |-> packet.gen,
                            place |-> IF pad.gen = packet.gen THEN pad.place ELSE packet.place,
                            audio |-> heard \cup {packet.gen}]]
             /\ mic' = [at |-> IF n = 0 THEN "idle" ELSE "bind", frames |-> n]
             /\ ring' = IF n = 0 THEN Tail(ring) ELSE ring
    /\ UNCHANGED <<hot, writing, owners, plugged, change, rx, lane>>

\* submit enters the bracket and reads the binding.  A packet that is not
\* bound, or whose slot is changing, is dropped with the frames it has left.
submitBinds ==
    /\ mic.at = "bind"
    /\ LET packet == Head(ring)
           bound == binding(packet.place, packet.serial, packet.gen) = "bound"
       IN \/ /\ bound
             /\ mic' = [mic EXCEPT !.at = "submit"]
             /\ UNCHANGED ring
          \/ /\ ~ bound
             /\ mic' = [at |-> "idle", frames |-> 0]
             /\ ring' = Tail(ring)
    /\ UNCHANGED <<hot, writing, owners, plugged, change, rx, pads, lane>>

\* submitMicAudioPcm, then the bracket's exit; the last frame releases the packet.
submitMicAudioPcm ==
    /\ mic.at = "submit"
    /\ change' = exited(Mic)
    /\ mic' = [at |-> IF mic.frames = 1 THEN "idle" ELSE "bind", frames |-> mic.frames - 1]
    /\ ring' = IF mic.frames = 1 THEN Tail(ring) ELSE ring
    /\ UNCHANGED <<hot, writing, owners, plugged, rx, pads, lane>>

\* With an empty ring the worker frees what it holds for a pad that is gone.
sweep(s) ==
    /\ mic.at = "idle" /\ ring = <<>>
    /\ pads[s].gen # None
    /\ binding(pads[s].place, s, pads[s].gen) = "unbound"
    /\ pads' = [pads EXCEPT ![s] = [@ EXCEPT !.gen = None, !.audio = {}]]
    /\ UNCHANGED <<hot, writing, owners, plugged, change, rx, ring, mic, lane>>

-----------------------------------------------------------------------------
(* Down: speaker and haptic audio of the device plugged as s.              *)

\* The thread of s goes on at a label with its other fields as given.
goes(s, fields) == lane' = [lane EXCEPT ![s] = fields]

\* The backend's audio thread hands over a batch.
handleAudioFromBackend(s) ==
    /\ lane[s].at = "idle" /\ plugged[s] # None
    /\ goes(s, [lane[s] EXCEPT !.at = "target"])
    /\ UNCHANGED <<hot, writing, owners, plugged, change, rx, ring, mic, pads>>

\* readAudioTarget loads the owner; a serial nobody owns has no target.
readTargetOwner(s) ==
    /\ lane[s].at = "target"
    /\ goes(s, [lane[s] EXCEPT !.at = IF owners[s] = None THEN "idle" ELSE "read", !.owner = owners[s]])
    /\ UNCHANGED <<hot, writing, owners, plugged, change, rx, ring, mic, pads>>

\* audioLane: the lane's state for the generation the target has.
audioLane(s, gen) == IF lane[s].gen = gen THEN lane[s].audio ELSE {}

\* readAudioTarget reads the owner's slot; an unstable read is tried again,
\* AUDIO_READ_ATTEMPTS times in all.  A batch fills a window or waits in
\* pending for the rest of one.
readAudioTarget(s) ==
    /\ lane[s].at = "read"
    /\ LET row == hot[lane[s].owner] IN
       \/ /\ writing = lane[s].owner
          /\ \E at \in {"target", "idle"} : goes(s, [lane[s] EXCEPT !.at = at])
       \/ /\ writing # lane[s].owner /\ row.serial # s
          /\ goes(s, [lane[s] EXCEPT !.at = "idle"])
       \/ /\ writing # lane[s].owner /\ row.serial = s
          /\ \E at \in {"window", "idle"} :
                goes(s, [lane[s] EXCEPT !.at = at, !.gen = row.gen,
                                        !.audio = audioLane(s, row.gen) \cup {plugged[s]}])
    /\ UNCHANGED <<hot, writing, owners, plugged, change, rx, ring, mic, pads>>

\* After a window the rest of the batch is another window, a tail that
\* stays pending, or nothing.
nextWindow(s) ==
    \/ goes(s, [lane[s] EXCEPT !.at = "window", !.token = 0, !.audio = {plugged[s]}])
    \/ \E left \in {{}, {plugged[s]}} :
          goes(s, [lane[s] EXCEPT !.at = "idle", !.token = 0, !.audio = left])

\* A silent window, or one whose encoding fails, is not sent.
encodeWindow(s) ==
    /\ lane[s].at = "window"
    /\ \/ goes(s, [lane[s] EXCEPT !.at = "enter"])
       \/ nextWindow(s)
    /\ UNCHANGED <<hot, writing, owners, plugged, change, rx, ring, mic, pads>>

\* The bracket opens and readAudioEndpoint loads the owner.
readEndpointOwner(s) ==
    /\ lane[s].at = "enter"
    /\ \/ /\ owners[s] # None
          /\ goes(s, [lane[s] EXCEPT !.at = "endpoint", !.owner = owners[s]])
       \/ /\ owners[s] = None
          /\ nextWindow(s)
    /\ UNCHANGED <<hot, writing, owners, plugged, change, rx, ring, mic, pads>>

\* Mutant: the owner is taken at its word, and the row's pad is not checked.
readAudioEndpoint_TrustsOwner(s) ==
    /\ lane[s].at = "endpoint"
    /\ LET p == lane[s].owner
           row == hot[p]
       IN \/ /\ writing = p
             /\ goes(s, [lane[s] EXCEPT !.at = "enter"])
             /\ change' = exited(s)
          \/ /\ writing # p
             /\ goes(s, [lane[s] EXCEPT !.at = "send", !.token = row.token])
             /\ UNCHANGED change
    /\ UNCHANGED <<hot, writing, owners, plugged, rx, ring, mic, pads>>

\* A slot that is changing is tried again in a new bracket; a row that no
\* longer has the lane's pad ends the window.
readAudioEndpoint(s) ==
    /\ lane[s].at = "endpoint"
    /\ LET p == lane[s].owner
           row == hot[p]
           bound == row.serial = s /\ row.gen = lane[s].gen
       IN \/ /\ writing = p
             /\ \/ goes(s, [lane[s] EXCEPT !.at = "enter"])
                \/ nextWindow(s)
             /\ change' = exited(s)
          \/ /\ writing # p /\ ~ bound
             /\ nextWindow(s)
             /\ change' = exited(s)
          \/ /\ writing # p /\ bound
             /\ goes(s, [lane[s] EXCEPT !.at = "send", !.token = row.token])
             /\ UNCHANGED change
    /\ UNCHANGED <<hot, writing, owners, plugged, rx, ring, mic, pads>>

\* sendSpeakerAudio or sendHapticAudio with the endpoint read, then the exit.
sendAudioWindow(s) ==
    /\ lane[s].at = "send"
    /\ nextWindow(s)
    /\ change' = exited(s)
    /\ UNCHANGED <<hot, writing, owners, plugged, rx, ring, mic, pads>>

-----------------------------------------------------------------------------
Changing ==
    \/ \E p \in Places, s \in Serials, t \in 1 .. MaxToken :
          t \in {hot[p].token, hot[p].token + 1} /\ plugPads(p, s, t)
    \/ \E p \in Places : \E t \in 1 .. MaxToken :
          t \in {hot[p].token, hot[p].token + 1} /\ vacatePadLocked(p, t)
    \/ \E p \in Places : adoptSessionLocked(p)
    \/ hotWriteBegins \/ publishControllers \/ hotWriteCloses \/ unplugRetired

MicThreads ==
    \/ \E p \in Places : handleMicAudio(p)
    \/ handOverMicFrame \/ process \/ submitBinds \/ submitMicAudioPcm
    \/ \E s \in Serials : sweep(s)

AudioThread(s) ==
    \/ handleAudioFromBackend(s) \/ readTargetOwner(s) \/ readAudioTarget(s) \/ encodeWindow(s)
    \/ readEndpointOwner(s) \/ readAudioEndpoint(s) \/ sendAudioWindow(s)

Next == Changing \/ MicThreads \/ \E s \in Serials : AudioThread(s)

Spec == Init /\ [][Next]_vars

-----------------------------------------------------------------------------
(* Properties *)

\* When the mic worker calls the backend, the device plugged under the
\* packet's serial is the one its pad was plugged as when the packet came,
\* and the decoder has heard no other pad's audio: a packet that waited in
\* the ring while its serial went to another player is not played to them.
MicReachesItsPad ==
    mic.at = "submit" =>
        LET packet == Head(ring) IN
        /\ plugged[packet.serial] = packet.gen
        /\ pads[packet.serial].audio = {packet.gen}

\* When an audio thread sends, the row it read is still the row of its own
\* device's pad and holds the same token, and every sample in the window is
\* that device's: no player hears another's game.
AudioReachesItsPlayer ==
    \A s \in Serials : lane[s].at = "send" =>
        LET row == hot[lane[s].owner] IN
        /\ row.serial = s /\ row.token = lane[s].token
        /\ row.gen = plugged[s] /\ lane[s].audio = {plugged[s]}

=============================================================================
