------------------------------ MODULE Feedback ------------------------------
(***************************************************************************)
(* What the game sends back to a player: rumble and the light bar          *)
(* (session_service.cpp), over the life of a backend serial and of the     *)
(* session that holds it.                                                  *)
(*                                                                         *)
(* Rumble is a command with a lifetime: the client runs a level for the    *)
(* duration it is stamped with, and the service refreshes it.  Its level   *)
(* is the greater of the HID motors' and of a haptic stream reduced to     *)
(* motors.  The light bar (trigger effects and player LEDs are handled     *)
(* alike) is a state: sent when the game changes it, and once more at a    *)
(* session's first datagram.                                               *)
(*                                                                         *)
(* One serial, one controller index, one motor.  Every step but those of   *)
(* the receive thread and of hidMotors_ runs under mtx_.                   *)
(***************************************************************************)
EXTENDS Naturals

CONSTANTS Levels,         \* motor levels a game writes, positive
          Colours,        \* light bar states
          Wire,           \* RUMBLE_WIRE_DURATION_MS, in ticks of time
          Refresh,        \* RUMBLE_REFRESH_MS
          HapticWire,     \* HAPTIC_RUMBLE_WIRE_DURATION_MS
          HapticRefresh,  \* HAPTIC_RUMBLE_REFRESH_MS
          Period,         \* the maintenance tick's period
          MaxPlugs,       \* bound: devices plugged in turn under the serial
          MaxEpoch        \* bound: keys of the session

None == "none"

VARIABLES
    serial,   \* where the serial is between allocateSerial and releaseSerial
    word,     \* hidMotors_[serial]
    device,   \* [gen, level, calls]: the plugged device, the HID level its game
              \*   wrote last, and the callback between its store and its lock
    pad,      \* the Controller
    session,  \* [epoch, replayed, reach, pending]: the hot slot's feedback words
    rx,       \* the receive thread inside recordDatagram
    client,   \* [level, left, light]: what the player's pad runs and shows
    tick,     \* time since the last maintenance tick
    past      \* [lost, quiet, held, owed]: history, read by the properties alone

vars == <<serial, word, device, pad, session, rx, client, tick, past>>

NoPad == [active |-> FALSE, gen |-> 0, capable |-> FALSE,
          hid |-> 0, haptic |-> 0, hapticLeft |-> 0, hapticAgo |-> HapticRefresh,
          last |-> 0, lastValid |-> FALSE, lastLeft |-> 0, sentAgo |-> Refresh,
          light |-> None]
Launched == [level |-> 0, left |-> 0, light |-> None]
NoDevice == [gen |-> 0, level |-> 0, calls |-> FALSE]

Init ==
    /\ serial = "free"
    /\ word = 0
    /\ device = NoDevice
    /\ pad = NoPad
    /\ session = [epoch |-> 1, replayed |-> 0, reach |-> FALSE, pending |-> FALSE]
    /\ rx = "idle"
    /\ client = Launched
    /\ tick = 0
    /\ past = [lost |-> FALSE, quiet |-> 0, held |-> 0, owed |-> FALSE]

\* A source of rumble the game still drives, or whose end it is telling.
driven == serial = "bound" /\ (device.level # 0 \/ device.calls \/ pad.hapticLeft > 0)

\* The history after a step that may end it.
ended(h) == IF driven THEN [h EXCEPT !.quiet = 0] ELSE h

-----------------------------------------------------------------------------
(* Sending                                                                 *)

\* The greater of the two sources, a haptic level only inside its window.
mixed(c) == IF c.hapticLeft > 0 /\ c.haptic > c.hid THEN c.haptic ELSE c.hid

\* forwardRumbleLocked drops a level the client is still running.
goesOut(c, force) ==
    force \/ ~ c.lastValid \/ c.lastLeft = 0 \/ c.last # mixed(c)

\* The pad after forwardRumbleLocked.
forwarded(c, duration, force) ==
    IF goesOut(c, force)
    THEN [c EXCEPT !.last = mixed(c), !.lastValid = TRUE, !.lastLeft = duration, !.sentAgo = 0]
    ELSE c

\* The client when a level reaches it: it runs the level for the duration.
runs(cl, level, duration) ==
    [cl EXCEPT !.level = level, !.left = IF level = 0 THEN 0 ELSE duration]

\* One datagram to the client: dropped while no address is known, and the
\* network may lose it.
transmit(received) ==
    \/ session.reach /\ client' = received /\ past' = ended(past)
    \/ session.reach /\ UNCHANGED client /\ past' = ended([past EXCEPT !.lost = TRUE, !.held = 0])
    \/ ~ session.reach /\ UNCHANGED client /\ past' = ended(past)

\* forwardRumbleLocked for the pad's new state c.
forwardRumbleLocked(c, duration, force) ==
    /\ pad' = forwarded(c, duration, force)
    /\ IF goesOut(c, force)
       THEN transmit(runs(client, mixed(c), duration))
       ELSE UNCHANGED client /\ past' = ended(past)

-----------------------------------------------------------------------------
(* The serial: allocated, plugged, bound to a pad, vacated, unplugged,     *)
(* released.  A change holds topoMtx_ throughout.                          *)

\* allocateSerial, claimSerialLocked, releaseSerial and quarantineSerial
\* store this in hidMotors_.
clearedWord == 0

allocateSerial ==
    /\ serial = "free"
    /\ serial' = "allocated"
    /\ word' = clearedWord
    /\ UNCHANGED <<device, pad, session, rx, client, tick, past>>

pluginDevice ==
    /\ serial = "allocated"
    /\ device.gen < MaxPlugs
    /\ serial' = "plugged"
    /\ device' = [gen |-> device.gen + 1, level |-> 0, calls |-> FALSE]
    /\ UNCHANGED <<word, pad, session, rx, client, tick, past>>

\* A plug that fails gives the serial back.
pluginFails ==
    /\ serial = "allocated"
    /\ serial' = "free"
    /\ word' = clearedWord
    /\ UNCHANGED <<device, pad, session, rx, client, tick, past>>

\* Mutant: the pad starts with its motors at rest.
seedRumbleLocked_Rest(c) == c

\* seedRumbleLocked: a level the game wrote before the commit.
seedRumbleLocked(c) == [c EXCEPT !.hid = word]

\* bindPadLocked or replugPadLocked, the publish that follows, and
\* sendSeededRumbleLocked.
bindPadLocked(capable) ==
    /\ serial = "plugged"
    /\ serial' = "bound"
    /\ LET c == seedRumbleLocked([NoPad EXCEPT !.active = TRUE, !.gen = device.gen, !.capable = capable])
       IN IF c.hid = 0 THEN pad' = c /\ UNCHANGED <<client, past>>
          ELSE forwardRumbleLocked(c, Wire, FALSE)
    /\ UNCHANGED <<word, device, session, rx, tick>>

\* vacatePadLocked or retireConnectionLocked; what the pad owed the player ends.
vacatePadLocked ==
    /\ serial = "bound"
    /\ serial' = "vacated"
    /\ pad' = [NoPad EXCEPT !.gen = pad.gen]
    /\ past' = ended([past EXCEPT !.owed = FALSE, !.held = 0])
    /\ UNCHANGED <<word, device, session, rx, client, tick>>

\* unplugDevice joins the callback's thread; releaseSerial or
\* quarantineSerial follows (a quarantined serial returns with the bus).
unplugRetired ==
    /\ serial = "vacated" /\ ~ device.calls
    /\ serial' = "free"
    /\ word' = clearedWord
    /\ UNCHANGED <<device, pad, session, rx, client, tick, past>>

\* updatePadLocked through applyController: the session keeps its key.
updatePadLocked ==
    /\ serial = "bound"
    /\ pad' = [pad EXCEPT !.capable = ~ @]
    /\ past' = [past EXCEPT !.owed = TRUE]
    /\ UNCHANGED <<serial, word, device, session, rx, client, tick>>

-----------------------------------------------------------------------------
(* The session                                                             *)

\* publishSessionKeyLocked of a PUT: the address is forgotten, the grace wait
\* has the receive thread out of its bracket, the client may have relaunched.
\* (sendSeededRumbleLocked finds nothing to send: a bound pad that holds a
\* level was sent it when it was bound.)
publishSessionLocked(capable) ==
    /\ session.epoch < MaxEpoch
    /\ rx = "idle"
    /\ session' = [session EXCEPT !.epoch = @ + 1, !.reach = FALSE, !.pending = FALSE]
    /\ pad' = [pad EXCEPT !.capable = pad.active /\ capable]
    /\ client' \in {client, Launched}
    /\ past' = [past EXCEPT !.owed = FALSE, !.lost = FALSE, !.held = 0]
    /\ UNCHANGED <<serial, word, device, rx, tick>>

\* Mutant: the replay is asked for before the address is stored.
recordDatagram_AsksFirst ==
    \/ /\ rx = "idle" /\ session.replayed # session.epoch
       /\ session' = [session EXCEPT !.replayed = session.epoch, !.pending = TRUE]
       /\ rx' = "addressed"
       /\ UNCHANGED <<serial, word, device, pad, client, tick, past>>
    \/ /\ rx = "addressed"
       /\ session' = [session EXCEPT !.reach = TRUE]
       /\ rx' = "idle"
       /\ UNCHANGED <<serial, word, device, pad, client, tick, past>>

\* An authenticated datagram stores the address, then asks for the replay if
\* it is the first under its key.
recordDatagram ==
    \/ /\ rx = "idle" /\ session.replayed # session.epoch
       /\ session' = [session EXCEPT !.reach = TRUE]
       /\ rx' = "addressed"
       /\ UNCHANGED <<serial, word, device, pad, client, tick, past>>
    \/ /\ rx = "addressed"
       /\ session' = [session EXCEPT !.replayed = session.epoch, !.pending = TRUE]
       /\ rx' = "idle"
       /\ UNCHANGED <<serial, word, device, pad, client, tick, past>>

-----------------------------------------------------------------------------
(* The game                                                                *)

Plugged == serial \in {"plugged", "bound", "vacated"}

\* handleRumbleFromBackend stores the level before it takes the lock.
storeMotors(level) ==
    /\ Plugged /\ ~ device.calls
    /\ word' = level
    /\ device' = [device EXCEPT !.level = level, !.calls = TRUE]
    /\ past' = [past EXCEPT !.held = IF level = 0 THEN 0 ELSE @]
    /\ UNCHANGED <<serial, pad, session, rx, client, tick>>

\* The rest of it: the pad that holds the serial, if one does.
handleRumbleFromBackend ==
    /\ device.calls
    /\ device' = [device EXCEPT !.calls = FALSE]
    /\ IF pad.active THEN forwardRumbleLocked([pad EXCEPT !.hid = device.level], Wire, FALSE)
       ELSE UNCHANGED <<pad, client, past>>
    /\ UNCHANGED <<serial, word, session, rx, tick>>

\* reduceHapticWindow of the pad's own stream.
reduceHapticWindow(level) ==
    LET c == [pad EXCEPT !.haptic = level, !.hapticLeft = HapticWire]
        force == level # 0 /\ pad.hapticAgo >= HapticRefresh
        duration == IF pad.hid # 0 THEN Wire ELSE HapticWire
    IN
    /\ serial = "bound"
    /\ pad' = [forwarded(c, duration, force) EXCEPT !.hapticAgo = IF goesOut(c, force) THEN 0 ELSE @]
    /\ IF goesOut(c, force)
       THEN transmit(runs(client, mixed(c), duration))
       ELSE UNCHANGED <<client, past>>
    /\ UNCHANGED <<serial, word, device, session, rx, tick>>

\* handleLightbarFromBackend: an unchanged colour is not sent twice, and
\* none to a pad without the capability.
handleLightbarFromBackend(colour) ==
    /\ serial = "bound" /\ pad.light # colour
    /\ pad' = [pad EXCEPT !.light = colour]
    /\ IF pad.capable THEN transmit([client EXCEPT !.light = colour]) ELSE UNCHANGED <<client, past>>
    /\ UNCHANGED <<serial, word, device, session, rx, tick>>

-----------------------------------------------------------------------------
(* Time and maintenance                                                    *)

\* Mutant: the refresh of a held level is coalesced like any other.
refreshed_Coalesced(c) ==
    IF ~ c.active THEN c
    ELSE IF c.hid # 0 THEN (IF c.sentAgo >= Refresh THEN forwarded(c, Wire, FALSE) ELSE c)
    ELSE IF c.hapticLeft = 0 /\ c.lastValid /\ c.last # 0
         THEN forwarded([c EXCEPT !.haptic = 0], HapticWire, FALSE)
         ELSE c

\* Mutant: the refresh repeats the last level sent, whatever drives it.
refreshed_LastSent(c) ==
    IF c.active /\ c.last # 0 /\ c.sentAgo >= Refresh
    THEN [c EXCEPT !.lastLeft = Wire, !.sentAgo = 0]
    ELSE c

\* refreshRumble's pass over one controller.
refreshed(c) ==
    IF ~ c.active THEN c
    ELSE IF c.hid # 0 THEN (IF c.sentAgo >= Refresh THEN forwarded(c, Wire, TRUE) ELSE c)
    ELSE IF c.hapticLeft = 0 /\ c.lastValid /\ c.last # 0
         THEN forwarded([c EXCEPT !.haptic = 0], HapticWire, FALSE)
         ELSE c

\* resendFeedbackStateLocked, when the first datagram asked for it.
replays == session.pending /\ pad.active /\ pad.light # None /\ pad.capable

\* The maintenance tick: the replay and the refresh, each datagram of which
\* may be lost.
refreshRumble ==
    LET c == refreshed(pad)
        sent == c.sentAgo = 0 /\ c # pad
        light == IF replays THEN [client EXCEPT !.light = pad.light] ELSE client
        both == IF sent THEN runs(light, c.last, c.lastLeft) ELSE light
        rumble == IF sent THEN runs(client, c.last, c.lastLeft) ELSE client
    IN
    /\ tick' = 0
    /\ pad' = c
    /\ session' = [session EXCEPT !.pending = FALSE]
    /\ \/ session.reach /\ client' = both /\ UNCHANGED past
       \/ /\ session.reach /\ (replays \/ sent)
          /\ client' \in {client, light, rumble}
          /\ past' = [past EXCEPT !.lost = TRUE, !.held = 0]
       \/ ~ session.reach /\ UNCHANGED <<client, past>>
    /\ UNCHANGED <<serial, word, device, rx>>

less(n) == IF n = 0 THEN 0 ELSE n - 1
more(n, bound) == IF n < bound THEN n + 1 ELSE bound

\* The game holds an HID level, and the client can be reached.
held == serial = "bound" /\ device.level # 0 /\ ~ device.calls /\ session.reach

\* One tick more than the service needs to notice that a refresh is due.
Late == Refresh + Period + 1

\* Time passes, no longer than Period without a maintenance tick.  The
\* client stops when its command runs out.
pass ==
    /\ tick < Period
    /\ tick' = tick + 1
    /\ pad' = [pad EXCEPT !.hapticLeft = less(@), !.lastLeft = less(@),
                          !.hapticAgo = more(@, HapticRefresh), !.sentAgo = more(@, Refresh)]
    /\ client' = [client EXCEPT !.left = less(@), !.level = IF client.left <= 1 THEN 0 ELSE @]
    /\ past' = [past EXCEPT !.quiet = IF driven THEN 0 ELSE more(@, Wire),
                            !.held = IF held THEN more(@, Late) ELSE 0]
    /\ UNCHANGED <<serial, word, device, session, rx>>

-----------------------------------------------------------------------------
Next ==
    \/ allocateSerial \/ pluginDevice \/ pluginFails \/ vacatePadLocked \/ unplugRetired
    \/ updatePadLocked \/ handleRumbleFromBackend \/ recordDatagram \/ refreshRumble \/ pass
    \/ \E capable \in BOOLEAN : bindPadLocked(capable) \/ publishSessionLocked(capable)
    \/ \E level \in Levels \cup {0} : storeMotors(level) \/ reduceHapticWindow(level)
    \/ \E colour \in Colours : handleLightbarFromBackend(colour)

Spec == Init /\ [][Next]_vars

-----------------------------------------------------------------------------
(* Properties *)

\* Every variable has its type.
TypeOK ==
    /\ serial \in {"free", "allocated", "plugged", "bound", "vacated"}
    /\ word \in Levels \cup {0}
    /\ device \in [gen : 0 .. MaxPlugs, level : Levels \cup {0}, calls : BOOLEAN]
    /\ session \in [epoch : 1 .. MaxEpoch, replayed : 0 .. MaxEpoch, reach : BOOLEAN, pending : BOOLEAN]
    /\ rx \in {"idle", "addressed"}
    /\ client \in [level : Levels \cup {0}, left : 0 .. Wire, light : Colours \cup {None}]
    /\ tick \in 0 .. Period

\* With no callback under way, the HID level of a bound pad is the level the
\* game of its own device wrote last: one written between the plug and the
\* commit is not lost, and none is inherited from the serial's earlier pad.
PadHasItsGamesLevel ==
    serial = "bound" /\ ~ device.calls => pad.hid = device.level

\* A client that got every datagram under the current key, once its replay
\* is done, shows the light the game set last, unless the pad's capability
\* changed without a new key.
LightIsShown ==
    /\ serial = "bound" /\ pad.light # None /\ pad.capable
    /\ session.reach /\ rx = "idle" /\ ~ session.pending
    /\ ~ past.lost /\ ~ past.owed
    => client.light = pad.light

\* A level the game holds through HID reaches the motors: when it has been
\* held for a refresh and a maintenance tick since the client became
\* reachable and since the last datagram lost, the client runs it, or the
\* haptic level above it, whatever was coalesced, expired or lost before.
HeldLevelRuns == past.held = Late /\ held => client.level >= device.level

\* docs/contract.md:861: "A level the game holds through HID is re-sent,
\* unchanged, every 200 ms, well inside the 500 ms it is stamped with, so a
\* client whose actuator runs per command never gaps."  The client's motors
\* never stop while the game holds a level through HID and no datagram is lost.
HeldLevelNeverGaps ==
    [][client.level # 0 /\ client'.level = 0 =>
         \/ session' # session \/ past'.lost
         \/ serial # "bound" \/ device.level = 0 \/ pad.hid = 0]_vars

\* Motors nobody drives stop within one duration, whatever is lost.
MotorsStop == ~ driven /\ past.quiet = Wire => client.level = 0

=============================================================================
