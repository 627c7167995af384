------------------------------ MODULE Pairing ------------------------------
(***************************************************************************)
(* Pairing a dish (src/net/routes_client.cpp, routes_admin.cpp, pairing.cpp *)
(* and pairing_service.cpp): the keys on record in the config, the requests *)
(* that wait for the operator, the device's session and the key the dish    *)
(* holds.  The client API's pool threads, the admin API's and the tray run  *)
(* the handlers concurrently; each lock is held for one step of a handler.  *)
(*                                                                         *)
(* Keys and sessions are numbered in the order they are made.  A request's  *)
(* age is one bit: any request may expire, and is noticed by the next       *)
(* prune.                                                                   *)
(***************************************************************************)
EXTENDS Naturals, FiniteSets, SequencesExt

CONSTANTS
    Devices,
    Threads,      \* the handler threads
    kMaxPending,  \* requests that may wait
    MaxKeys,      \* bound: keys minted
    MaxSessions   \* bound: sessions made

NoKey == 0
NoSession == [id |-> 0, key |-> NoKey]

VARIABLES
    pending,  \* g_pending: the rows that wait for the operator or for the dish's poll
    record,   \* record[d]: the key the config has for d
    session,  \* session[d]: d's live session, with the key it was made from
    minted,   \* how many keys were minted
    made,     \* how many sessions were made
    thread,   \* thread[t]: where handler t is, for which device, with which key
    dish,     \* dish[d]: the key the dish holds
    handed,   \* history: the keys polls have handed out
    recorded, \* history: the keys that have been on record
    accepted  \* history: accepted[d]: the operator accepted d's latest request

vars == <<pending, record, session, minted, made, thread, dish, handed, recorded, accepted>>

Free == [at |-> "free", device |-> CHOOSE d \in Devices : TRUE, key |-> NoKey, saw |-> 0]

Init ==
    /\ pending = <<>>
    /\ record = [d \in Devices |-> NoKey]
    /\ session = [d \in Devices |-> NoSession]
    /\ minted = 0 /\ made = 0
    /\ thread = [t \in Threads |-> Free]
    /\ dish = [d \in Devices |-> NoKey]
    /\ handed = {} /\ recorded = {}
    /\ accepted = [d \in Devices |-> FALSE]

\* Handler t starts for d, with a key and the session d has by then.
Start(t, at, d, key) ==
    /\ thread[t] = Free
    /\ thread' = [thread EXCEPT ![t] = [at |-> at, device |-> d, key |-> key,
                                        saw |-> session[d].id]]

Goto(t, at) == thread' = [thread EXCEPT ![t].at = at]
Done(t) == thread' = [thread EXCEPT ![t] = Free]

\* replaceDevice, rekeyDevice and removeDevice: d's key in the config is now key.
Record(d, key) ==
    /\ record' = [record EXCEPT ![d] = key]
    /\ recorded' = recorded \cup {key}
-----------------------------------------------------------------------------
(* The requests that wait (pairing.cpp).                                     *)

Row(d) == [device |-> d, state |-> "Pending", key |-> NoKey, expired |-> FALSE]

pruneLocked(rows) == SelectSeq(rows, LAMBDA r : ~r.expired)
eraseLocked(rows, d) == SelectSeq(rows, LAMBDA r : r.device # d)
Rows(rows, d) == {i \in DOMAIN rows : rows[i].device = d}

\* A new row takes the place of the oldest when the registry is full.
WithNew(rows, d) ==
    Append(IF Len(rows) >= kMaxPending THEN Tail(rows) ELSE rows, Row(d))

\* Tapping Pair again refreshes the row in place.
Refreshed(row) == Row(row.device)

\* POST /api/pair with a clientPin.
submitPairRequest(d) ==
    LET rows == pruneLocked(pending) IN
    /\ pending' = IF Rows(rows, d) = {} THEN WithNew(rows, d)
                  ELSE [i \in DOMAIN rows |->
                          IF rows[i].device = d THEN Refreshed(rows[i]) ELSE rows[i]]
    /\ accepted' = [accepted EXCEPT ![d] = FALSE]
    /\ UNCHANGED <<record, session, minted, made, thread, dish, handed, recorded>>

\* A row's five minutes are over.
Expire(i) ==
    /\ i \in DOMAIN pending /\ ~pending[i].expired
    /\ pending' = [pending EXCEPT ![i].expired = TRUE]
    /\ UNCHANGED <<record, session, minted, made, thread, dish, handed, recorded, accepted>>

\* The operator declines, on the dashboard or in the tray.  No prune.
denyPairRequest(d) ==
    /\ Rows(pending, d) # {}
    /\ pending' = eraseLocked(pending, d)
    /\ accepted' = [accepted EXCEPT ![d] = FALSE]
    /\ UNCHANGED <<record, session, minted, made, thread, dish, handed, recorded>>

\* The first half of confirmPairing: the operator accepts and the row gets a fresh key.
acceptPairRequestConfirmed(t, d) ==
    LET rows == pruneLocked(pending)
        mine == {i \in Rows(rows, d) : rows[i].state = "Pending"} IN
    /\ minted < MaxKeys
    /\ minted' = minted + 1
    /\ pending' = [i \in DOMAIN rows |->
                     IF i \in mine THEN [rows[i] EXCEPT !.state = "Approved", !.key = minted']
                     ELSE rows[i]]
    /\ IF mine # {}
       THEN Start(t, "confirm", d, minted') /\ accepted' = [accepted EXCEPT ![d] = TRUE]
       ELSE thread[t] = Free /\ UNCHANGED <<thread, accepted>>
    /\ UNCHANGED <<record, session, made, dish, handed, recorded>>

\* The second half: the key goes on record.
upsertConfirmed(t) ==
    /\ thread[t].at = "confirm"
    /\ Record(thread[t].device, thread[t].key)
    /\ Done(t)
    /\ UNCHANGED <<pending, session, minted, made, dish, handed, accepted>>

AfterHanding(rows, d) == eraseLocked(rows, d)

\* GET /api/pair/status: an approved row is handed out and erased.  The answer may be lost.
pollPairRequest(t, d) ==
    LET rows == pruneLocked(pending)
        mine == {i \in Rows(rows, d) : rows[i].state = "Approved"} IN
    /\ IF mine = {}
       THEN pending' = rows /\ thread[t] = Free /\ UNCHANGED <<thread, handed>>
       ELSE LET key == rows[CHOOSE i \in mine : TRUE].key IN
            /\ pending' = AfterHanding(rows, d)
            /\ handed' = handed \cup {key}
            /\ Start(t, "hand", d, key)
    /\ UNCHANGED <<record, session, minted, made, dish, recorded, accepted>>
-----------------------------------------------------------------------------
(* Pairing with the server's PIN, and rotating the key.                      *)

\* POST /api/pair with the right PIN (verifyPin is PinRotation's).
pairWithServerPin(t, d) ==
    /\ minted < MaxKeys
    /\ minted' = minted + 1
    /\ Start(t, "pair", d, minted')
    /\ UNCHANGED <<pending, record, session, made, dish, handed, recorded, accepted>>

upsertPairedDevice(t) ==
    /\ thread[t].at = "pair"
    /\ Record(thread[t].device, thread[t].key)
    /\ Goto(t, "replace")
    /\ UNCHANGED <<pending, session, minted, made, dish, handed, accepted>>

\* POST /api/pair with a proof: the proof is of the key on record now.
tryRotateKey(t, d) ==
    /\ dish[d] # NoKey /\ record[d] = dish[d]
    /\ Start(t, "rotate", d, dish[d])
    /\ UNCHANGED <<pending, record, session, minted, made, dish, handed, recorded, accepted>>

\* The record may have vanished by now, and the request is then refused.
rotatePairedDeviceKey(t) ==
    LET d == thread[t].device IN
    /\ thread[t].at = "rotate"
    /\ IF record[d] = NoKey
       THEN Done(t) /\ UNCHANGED <<record, recorded, minted>>
       ELSE /\ minted < MaxKeys
            /\ minted' = minted + 1
            /\ Record(d, minted')
            /\ thread' = [thread EXCEPT ![t].at = "replace", ![t].key = minted']
    /\ UNCHANGED <<pending, session, made, dish, handed, accepted>>

\* Mutant: the live session is left alone.
keepSession(t) ==
    /\ thread[t].at = "replace"
    /\ Goto(t, "answer")
    /\ UNCHANGED <<pending, record, session, minted, made, dish, handed, recorded, accepted>>

\* closeSessionsForDevice, after the key was replaced.
closeReplaced(t) ==
    /\ thread[t].at = "replace"
    /\ session' = [session EXCEPT ![thread[t].device] = NoSession]
    /\ Goto(t, "answer")
    /\ UNCHANGED <<pending, record, minted, made, dish, handed, recorded, accepted>>

\* The answer reaches the dish, or is lost.
answer(t) ==
    /\ thread[t].at \in {"answer", "hand"}
    /\ \/ dish' = [dish EXCEPT ![thread[t].device] = thread[t].key]
       \/ UNCHANGED dish
    /\ Done(t)
    /\ UNCHANGED <<pending, record, session, minted, made, handed, recorded, accepted>>
-----------------------------------------------------------------------------
(* Sessions and unpairing.                                                   *)

\* PUT /api/connections: the proof is of the key on record.
clientAuthed(t, d) ==
    /\ dish[d] # NoKey /\ record[d] = dish[d]
    /\ Start(t, "put", d, dish[d])
    /\ UNCHANGED <<pending, record, session, minted, made, dish, handed, recorded, accepted>>

\* The session is made, or made anew, from the key the request was authenticated with.
\* SessionTopology has the details and the failures.
upsertSession(t) ==
    /\ thread[t].at = "put"
    /\ \/ /\ made < MaxSessions
          /\ made' = made + 1
          /\ session' = [session EXCEPT ![thread[t].device] =
                           [id |-> made', key |-> thread[t].key]]
       \/ UNCHANGED <<made, session>>
    /\ Done(t)
    /\ UNCHANGED <<pending, record, minted, dish, handed, recorded, accepted>>

\* A session ends on its own: a timeout, or either side closes it.
sessionEnds(d) ==
    /\ session[d] # NoSession
    /\ session' = [session EXCEPT ![d] = NoSession]
    /\ UNCHANGED <<pending, record, minted, made, thread, dish, handed, recorded, accepted>>

\* DELETE /api/pair of the dish itself.
selfUnpair(t, d) ==
    /\ dish[d] # NoKey /\ record[d] = dish[d]
    /\ Start(t, "unpair", d, dish[d])
    /\ UNCHANGED <<pending, record, session, minted, made, dish, handed, recorded, accepted>>

\* DELETE /api/devices/d of the operator.
unpairDevice(t, d) ==
    /\ Start(t, "unpair", d, record[d])
    /\ UNCHANGED <<pending, record, session, minted, made, dish, handed, recorded, accepted>>

closeUnpaired(t) ==
    /\ thread[t].at = "unpair"
    /\ session' = [session EXCEPT ![thread[t].device] = NoSession]
    /\ Goto(t, "forget")
    /\ UNCHANGED <<pending, record, minted, made, dish, handed, recorded, accepted>>

forgetPairedDevice(t) ==
    /\ thread[t].at = "forget"
    /\ record' = [record EXCEPT ![thread[t].device] = NoKey]
    /\ Done(t)
    /\ UNCHANGED <<pending, session, minted, made, dish, handed, recorded, accepted>>

Handler(t) ==
    \/ upsertConfirmed(t) \/ upsertPairedDevice(t) \/ rotatePairedDeviceKey(t)
    \/ closeReplaced(t) \/ answer(t) \/ upsertSession(t)
    \/ closeUnpaired(t) \/ forgetPairedDevice(t)

Next ==
    \/ \E t \in Threads : Handler(t)
    \/ \E d \in Devices : submitPairRequest(d) \/ denyPairRequest(d) \/ sessionEnds(d)
    \/ \E i \in 1..kMaxPending : Expire(i)
    \/ \E t \in Threads, d \in Devices :
         \/ acceptPairRequestConfirmed(t, d) \/ pollPairRequest(t, d)
         \/ pairWithServerPin(t, d) \/ tryRotateKey(t, d)
         \/ clientAuthed(t, d) \/ selfUnpair(t, d) \/ unpairDevice(t, d)

Spec == Init /\ [][Next]_vars
-----------------------------------------------------------------------------
Keys == 0..MaxKeys

\* The registry holds at most kMaxPending rows, all of one shape, and every key, session
\* and handler stays in its type.
TypeOK ==
    /\ pending \in Seq([device : Devices, state : {"Pending", "Approved"}, key : Keys,
                        expired : BOOLEAN])
    /\ Len(pending) <= kMaxPending
    /\ record \in [Devices -> Keys] /\ dish \in [Devices -> Keys]
    /\ session \in [Devices -> [id : 0..MaxSessions, key : Keys]]
    /\ minted \in Keys /\ made \in 0..MaxSessions
    /\ thread \in [Threads -> [at : {"free", "confirm", "pair", "replace", "rotate", "put",
                                     "unpair", "forget", "answer", "hand"},
                               device : Devices, key : Keys, saw : 0..MaxSessions]]
    /\ handed \subseteq Keys /\ recorded \subseteq Keys
    /\ accepted \in [Devices -> BOOLEAN]

\* What waits for the dish's poll is what the operator said last: a request that was
\* tapped anew after the approval, or declined, is not answered with a key.
ApprovalIsCurrent ==
    \A i \in DOMAIN pending : pending[i].state = "Approved" => accepted[pending[i].device]

\* A key a poll has handed out is, or has been, on record, or the accepting thread is just
\* about to put it there: no dish is left with a key nobody wrote down.
HandedIsRecorded ==
    \A k \in handed :
      \/ k \in recorded
      \/ \E t \in Threads : thread[t].at = "confirm" /\ thread[t].key = k

\* When a handler that replaced a key is about to answer, the session it found when it
\* began is gone, whatever the other handlers did meanwhile.
EarlierSessionEnds ==
    \A t \in Threads :
      thread[t].at = "answer" /\ thread[t].saw # 0 =>
        session[thread[t].device].id # thread[t].saw

\* The three together: what a handler of a pairing leaves behind for the handlers and the
\* dish that come after it.
PairingIsSound == ApprovalIsCurrent /\ HandedIsRecorded /\ EarlierSessionEnds

\* "A re-pair invalidates the previous key; a session still keyed on it would churn
\* undecryptably, so close it now": once no handler is at work, a live session was made from
\* the key on record.
SessionFollowsKey ==
    (\A t \in Threads : thread[t] = Free) =>
        \A d \in Devices : session[d] # NoSession => session[d].key = record[d]
=============================================================================
