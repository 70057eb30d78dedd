------------------------------ MODULE WebPush ------------------------------
(***************************************************************************)
(* The notification of a recording's end and its way to the user's         *)
(* browsers: the row of notifications (internal/service/notification.go),  *)
(* the subscriptions and the sender (internal/service/push.go), the push   *)
(* service in between, and the handlers push and notificationclick of the  *)
(* service worker (web/static/sw.js).                                      *)
(*                                                                         *)
(* A sender is the goroutine of a recording that ended; it sends to the    *)
(* subscriptions it read at the start, one after the other, within ten     *)
(* seconds for all of them.  Every statement and every request is a step.  *)
(***************************************************************************)
EXTENDS Naturals

CONSTANTS
    Users,
    Endpoints,    \* subscriptions browsers ever get from the push service
    Notes,        \* ids of notifications
    Senders,      \* recordings that end at the same time
    None,
    Enabled,      \* whether the VAPID keys are configured
    MaxCrashes    \* bound on the restarts of the server

ASSUME WebPushAssumption ==
    /\ None \notin Users \cup Endpoints \cup Notes
    /\ Enabled \in BOOLEAN
    /\ MaxCrashes \in Nat

VARIABLES
    device,         \* the endpoints, as the push service sees them
    subscriptions,  \* push_subscriptions: <<user, endpoint>>
    rows,           \* the rows of notifications
    sender,         \* the senders: where they stand and what they hold
    pushes,         \* messages the push service holds, <<note, endpoint>>
    shown,          \* notifications on the screens, <<note, endpoint>>
    crashes,
    owed,           \* history: <<note, endpoint>> a sender took on
    reached,        \* history: those that appeared on the screen
    missed          \* history: those that failed on their own, timed out or were lost

tables == <<subscriptions, rows>>
history == <<owed, reached, missed>>
vars == <<device, tables, sender, pushes, shown, crashes, history>>

Message == Notes \X Endpoints
Row == [user : Users \cup {None}, read : BOOLEAN]
Sender == [pc : {"idle", "find", "send", "remove"}, user : Users \cup {None}, note : Notes \cup {None},
           left : SUBSET Endpoints, dead : Endpoints \cup {None}]

TypeOK ==
    /\ device \in [Endpoints -> {"unused", "alive", "gone"}]
    /\ subscriptions \subseteq Users \X Endpoints
    /\ rows \in [Notes -> Row]
    /\ sender \in [Senders -> Sender]
    /\ crashes \in 0..MaxCrashes
    /\ pushes \cup shown \subseteq owed
    /\ owed \subseteq Message /\ reached \subseteq owed /\ missed \subseteq owed

NoRow == [user |-> None, read |-> FALSE]
Idle == [pc |-> "idle", user |-> None, note |-> None, left |-> {}, dead |-> None]

Init ==
    /\ device = [e \in Endpoints |-> "unused"]
    /\ subscriptions = {}
    /\ rows = [n \in Notes |-> NoRow]
    /\ sender = [x \in Senders |-> Idle]
    /\ pushes = {} /\ shown = {}
    /\ crashes = 0
    /\ owed = {} /\ reached = {} /\ missed = {}

-----------------------------------------------------------------------------
(* Subscriptions *)

\* The browser subscribes once the user has agreed.
BrowserSubscribes(e) ==
    /\ device[e] = "unused"
    /\ device' = [device EXCEPT ![e] = "alive"]
    /\ UNCHANGED <<tables, sender, pushes, shown, crashes, history>>

\* The permission is withdrawn or the subscription expires: it never comes back.
EndpointGone(e) ==
    /\ device[e] = "alive"
    /\ device' = [device EXCEPT ![e] = "gone"]
    /\ missed' = missed \cup {m \in pushes : m[2] = e}
    /\ pushes' = {m \in pushes : m[2] # e}
    /\ UNCHANGED <<tables, sender, shown, crashes, owed, reached>>

\* POST /api/push/subscribe, sent on every page load; it may arrive late.
Subscribe(u, e) ==
    /\ Enabled
    /\ device[e] # "unused"
    /\ subscriptions' = subscriptions \cup {<<u, e>>}
    /\ UNCHANGED <<device, rows, sender, pushes, shown, crashes, history>>

Unsubscribe(u, e) ==
    /\ <<u, e>> \in subscriptions
    /\ subscriptions' = subscriptions \ {<<u, e>>}
    /\ UNCHANGED <<device, rows, sender, pushes, shown, crashes, history>>

-----------------------------------------------------------------------------
(* Sending *)

\* A recording of user u ended: the row comes first.
CreateRecordingCompleted(x, u, n) ==
    /\ sender[x].pc = "idle"
    /\ rows[n].user = None
    /\ rows' = [rows EXCEPT ![n] = [user |-> u, read |-> FALSE]]
    /\ sender' = [sender EXCEPT ![x] = [Idle EXCEPT !.pc = "find", !.user = u, !.note = n]]
    /\ UNCHANGED <<device, subscriptions, pushes, shown, crashes, history>>

\* FindByUser; without keys or subscriptions, or on an error, nothing is sent.
FindByUser(x) ==
    LET found == {e \in Endpoints : Enabled /\ <<sender[x].user, e>> \in subscriptions}
    IN  /\ sender[x].pc = "find"
        /\ \/ /\ sender' = [sender EXCEPT ![x].pc = "send", ![x].left = found]
              /\ owed' = owed \cup ({sender[x].note} \X found)
           \/ /\ sender' = [sender EXCEPT ![x] = Idle]
              /\ UNCHANGED owed
        /\ UNCHANGED <<device, tables, pushes, shown, crashes, reached, missed>>

\* The push service takes the message.
Accepted(x, e) ==
    /\ sender[x].pc = "send"
    /\ e \in sender[x].left
    /\ device[e] = "alive"
    /\ pushes' = pushes \cup {<<sender[x].note, e>>}
    /\ sender' = [sender EXCEPT ![x].left = @ \ {e}]
    /\ UNCHANGED <<device, tables, shown, crashes, history>>

\* Mutant of Refused: any error ends the loop.
RefusedForAll(x, e) ==
    /\ sender[x].pc = "send"
    /\ e \in sender[x].left
    /\ missed' = missed \cup {<<sender[x].note, e>>}
    /\ sender' = [sender EXCEPT ![x] = Idle]
    /\ UNCHANGED <<device, tables, pushes, shown, crashes, owed, reached>>

\* Mutant of Refused: every refusal removes the subscription.
RefusedIsDead(x, e) ==
    /\ sender[x].pc = "send"
    /\ e \in sender[x].left
    /\ missed' = missed \cup {<<sender[x].note, e>>}
    /\ sender' = [sender EXCEPT ![x].left = @ \ {e}, ![x].pc = "remove", ![x].dead = e]
    /\ UNCHANGED <<device, tables, pushes, shown, crashes, owed, reached>>

\* An error or a status of 400 and more; 404 and 410 say that the endpoint is gone.
Refused(x, e) ==
    /\ sender[x].pc = "send"
    /\ e \in sender[x].left
    /\ missed' = missed \cup {<<sender[x].note, e>>}
    /\ \/ sender' = [sender EXCEPT ![x].left = @ \ {e}]
       \/ /\ device[e] = "gone"
          /\ sender' = [sender EXCEPT ![x].left = @ \ {e}, ![x].pc = "remove", ![x].dead = e]
    /\ UNCHANGED <<device, tables, pushes, shown, crashes, owed, reached>>

\* DELETE of the dead endpoint; an error is only logged.
RemoveDead(x) ==
    /\ sender[x].pc = "remove"
    /\ \/ subscriptions' = subscriptions \ {<<sender[x].user, sender[x].dead>>}
       \/ UNCHANGED subscriptions
    /\ sender' = [sender EXCEPT ![x].pc = "send", ![x].dead = None]
    /\ UNCHANGED <<device, rows, pushes, shown, crashes, history>>

\* The ten seconds are over: every request still to come fails at once.
TimedOut(x) ==
    /\ sender[x].pc = "send"
    /\ sender[x].left # {}
    /\ missed' = missed \cup ({sender[x].note} \X sender[x].left)
    /\ sender' = [sender EXCEPT ![x].left = {}]
    /\ UNCHANGED <<device, tables, pushes, shown, crashes, owed, reached>>

Sent(x) ==
    /\ sender[x].pc = "send"
    /\ sender[x].left = {}
    /\ sender' = [sender EXCEPT ![x] = Idle]
    /\ UNCHANGED <<device, tables, pushes, shown, crashes, history>>

\* The server stops: the goroutines are gone, the tables stay.
Crash ==
    /\ crashes < MaxCrashes
    /\ crashes' = crashes + 1
    /\ missed' = missed \cup {m \in Message : \E x \in Senders : m[1] = sender[x].note /\ m[2] \in sender[x].left}
    /\ sender' = [x \in Senders |-> Idle]
    /\ UNCHANGED <<device, tables, pushes, shown, owed, reached>>

-----------------------------------------------------------------------------
(* The browser *)

\* Mutant of PushEvent: the id is read from a field the payload does not have.
PushEventWithoutId(m) ==
    /\ m \in pushes
    /\ pushes' = pushes \ {m}
    /\ shown' = shown \cup {<<None, m[2]>>}
    /\ reached' = reached \cup {m}
    /\ UNCHANGED <<device, tables, sender, crashes, owed, missed>>

\* The push event: showNotification with the id and the URL of the message.
PushEvent(m) ==
    /\ m \in pushes
    /\ pushes' = pushes \ {m}
    /\ shown' = shown \cup {m}
    /\ reached' = reached \cup {m}
    /\ UNCHANGED <<device, tables, sender, crashes, owed, missed>>

\* The message waited longer than its TTL of 24 hours.
Expired(m) ==
    /\ m \in pushes
    /\ pushes' = pushes \ {m}
    /\ missed' = missed \cup {m}
    /\ UNCHANGED <<device, tables, sender, shown, crashes, owed, reached>>

\* A click closes the notification and opens the list of notifications; it marks nothing.
NotificationClick(m) ==
    /\ m \in shown
    /\ shown' = shown \ {m}
    /\ UNCHANGED <<device, tables, sender, pushes, crashes, history>>

MarkAsRead(u, n) ==
    /\ rows[n].user = u
    /\ rows' = [rows EXCEPT ![n].read = TRUE]
    /\ UNCHANGED <<device, subscriptions, sender, pushes, shown, crashes, history>>

MarkAllAsRead(u) ==
    /\ rows' = [n \in Notes |-> IF rows[n].user = u THEN [rows[n] EXCEPT !.read = TRUE] ELSE rows[n]]
    /\ UNCHANGED <<device, subscriptions, sender, pushes, shown, crashes, history>>

-----------------------------------------------------------------------------
SendStep(x) ==
    \/ FindByUser(x)
    \/ \E e \in Endpoints : Accepted(x, e) \/ Refused(x, e)
    \/ RemoveDead(x) \/ TimedOut(x) \/ Sent(x)

Next ==
    \/ \E e \in Endpoints : BrowserSubscribes(e) \/ EndpointGone(e)
    \/ \E u \in Users, e \in Endpoints : Subscribe(u, e) \/ Unsubscribe(u, e)
    \/ \E x \in Senders, u \in Users, n \in Notes : CreateRecordingCompleted(x, u, n)
    \/ \E x \in Senders : SendStep(x)
    \/ Crash
    \/ \E m \in Message : PushEvent(m) \/ Expired(m) \/ NotificationClick(m)
    \/ \E u \in Users : MarkAllAsRead(u) \/ \E n \in Notes : MarkAsRead(u, n)

\* The goroutines run on, and a message is delivered or expires.
Fairness ==
    /\ \A x \in Senders : WF_vars(SendStep(x))
    /\ \A m \in Message : WF_vars(PushEvent(m) \/ Expired(m))

Spec == Init /\ [][Next]_vars /\ Fairness

-----------------------------------------------------------------------------
(* Properties *)

\* A sender removes a subscription on an answer that may be old by then; still nobody
\* loses a subscription that works, except by cancelling it.
OnlyDeadEndpointsDropped ==
    [][\A s \in subscriptions \ subscriptions' : device[s[2]] = "gone" \/ Unsubscribe(s[1], s[2])]_vars

\* Each browser of the user that was subscribed when the sender looked shows the
\* notification, unless its own request fails, the ten seconds run out or the server
\* stops: a failure at one endpoint does not keep the message from the others.
EveryDeviceIsTried ==
    \A m \in Message : m \in owed ~> (m \in reached \/ m \in missed)
=============================================================================
