--------------------------- MODULE WebPushProofs ---------------------------
(***************************************************************************)
(* Proofs about WebPush, for every number of users, browsers,              *)
(* notifications, senders and crashes, with the keys configured or not.    *)
(***************************************************************************)
EXTENDS WebPush, TLAPS

(* The inductive invariant.  A type says nothing about where a sender stands: *)
(* that what it drops is dead, and that what it sends was owed, follows from  *)
(* what it holds.  An endpoint that is gone never comes back, so the answer a *)
(* sender acts on is still true when it does.                                 *)

\* A sender under way has a user and a notification, and owes what it still has to send.
SenderSound(x) ==
    /\ sender[x].pc # "idle" => sender[x].user \in Users /\ sender[x].note \in Notes
    /\ \A e \in sender[x].left : <<sender[x].note, e>> \in owed
    /\ sender[x].pc = "remove" => sender[x].dead \in Endpoints /\ device[sender[x].dead] = "gone"

Sound == TypeOK /\ \A x \in Senders : SenderSound(x)

-----------------------------------------------------------------------------
\* At the start nobody sends.
LEMMA InitSound == Init => Sound
BY WebPushAssumption DEF Init, Sound, TypeOK, SenderSound, Row, NoRow, Sender, Idle, Message

\* A sender that is done holds nothing.
LEMMA IdleType == Idle \in Sender /\ Idle.pc = "idle" /\ Idle.left = {}
BY DEF Idle, Sender

\* A step of one sender leaves the others sound.
LEMMA OneSender ==
    ASSUME Sound, NEW x \in Senders, NEW new \in Sender,
           sender' = [sender EXCEPT ![x] = new],
           owed \subseteq owed', UNCHANGED device,
           new.pc # "idle" => new.user \in Users /\ new.note \in Notes,
           \A e \in new.left : <<new.note, e>> \in owed',
           new.pc = "remove" => new.dead \in Endpoints /\ device[new.dead] = "gone"
    PROVE  sender' \in [Senders -> Sender] /\ \A y \in Senders : SenderSound(y)'
<1>1. sender \in [Senders -> Sender]
  BY DEF Sound, TypeOK
<1>2. sender' \in [Senders -> Sender]
  BY <1>1
<1>3. \A y \in Senders : sender'[y] = IF y = x THEN new ELSE sender[y]
  BY <1>1
<1>4. ASSUME NEW y \in Senders PROVE SenderSound(y)'
  <2>1. CASE y = x
    BY <2>1, <1>3 DEF SenderSound
  <2>2. CASE y # x
    BY <2>2, <1>3 DEF SenderSound, Sound
  <2> QED BY <2>1, <2>2
<1> QED BY <1>2, <1>4

\* No step of a sender leaves the invariant.
LEMMA SendStepSound ==
    ASSUME Sound, NEW x \in Senders, SendStep(x)
    PROVE  Sound'
<1> USE DEF Message
<1>0. /\ sender[x] \in Sender /\ SenderSound(x) /\ TypeOK
      /\ sender \in [Senders -> Sender]
      /\ sender[x].left \subseteq Endpoints
  BY DEF Sound, TypeOK, Sender
<1>1. CASE FindByUser(x)
  <2> DEFINE found == {e \in Endpoints : Enabled /\ <<sender[x].user, e>> \in subscriptions}
  <2>1. CASE /\ sender' = [sender EXCEPT ![x].pc = "send", ![x].left = found]
             /\ owed' = owed \cup ({sender[x].note} \X found)
    <3> DEFINE new == [sender[x] EXCEPT !.pc = "send", !.left = found]
    <3>1. new \in Sender /\ new.pc = "send" /\ new.left = found /\ new.note = sender[x].note
          /\ new.user = sender[x].user
      BY <1>0 DEF Sender
    <3>2. sender' = [sender EXCEPT ![x] = new]
      BY <2>1, <1>0
    <3>3. sender[x].note \in Notes /\ sender[x].user \in Users
      BY <1>1, <1>0 DEF FindByUser, SenderSound
    <3>4. \A e \in new.left : <<new.note, e>> \in owed'
      BY <3>1, <2>1
    <3> HIDE DEF new
    <3>5. sender' \in [Senders -> Sender] /\ \A y \in Senders : SenderSound(y)'
      BY <3>1, <3>2, <3>3, <3>4, <2>1, <1>1, OneSender DEF FindByUser
    <3>6. owed' \subseteq Message
      BY <3>3, <2>1, <1>0 DEF TypeOK
    <3> QED BY <3>5, <3>6, <2>1, <1>1, <1>0 DEF FindByUser, Sound, TypeOK, tables
  <2>2. CASE sender' = [sender EXCEPT ![x] = Idle] /\ UNCHANGED owed
    <3>1. sender' \in [Senders -> Sender] /\ \A y \in Senders : SenderSound(y)'
      BY <2>2, <1>1, OneSender, IdleType DEF FindByUser
    <3> QED BY <3>1, <2>2, <1>1, <1>0 DEF FindByUser, Sound, TypeOK, tables
  <2> QED BY <1>1, <2>1, <2>2 DEF FindByUser
<1>2. ASSUME NEW e \in Endpoints, Accepted(x, e) PROVE Sound'
  <2> DEFINE new == [sender[x] EXCEPT !.left = @ \ {e}]
  <2>1. new \in Sender /\ new.left = sender[x].left \ {e} /\ new.pc = "send" /\ new.user = sender[x].user
        /\ new.note = sender[x].note
    BY <1>0, <1>2 DEF Sender, Accepted
  <2>2. sender' = [sender EXCEPT ![x] = new]
    BY <1>2, <1>0 DEF Accepted
  <2>3. /\ \A d \in new.left : <<new.note, d>> \in owed
        /\ new.user \in Users /\ new.note \in Notes /\ <<sender[x].note, e>> \in owed
    BY <2>1, <1>0, <1>2 DEF SenderSound, Accepted
  <2> HIDE DEF new
  <2>4. sender' \in [Senders -> Sender] /\ \A y \in Senders : SenderSound(y)'
    BY <2>1, <2>2, <2>3, <1>2, OneSender DEF Accepted, history
  <2> QED BY <2>3, <2>4, <1>2, <1>0 DEF Accepted, Sound, TypeOK, tables, history
<1>3. ASSUME NEW e \in Endpoints, Refused(x, e) PROVE Sound'
  <2>1. \E new \in Sender :
           /\ sender' = [sender EXCEPT ![x] = new]
           /\ new.left = sender[x].left \ {e} /\ new.user = sender[x].user /\ new.note = sender[x].note
           /\ new.pc = "send" \/ (new.pc = "remove" /\ new.dead = e /\ device[e] = "gone")
    <3>1. CASE sender' = [sender EXCEPT ![x].left = @ \ {e}]
      <4> DEFINE new == [sender[x] EXCEPT !.left = @ \ {e}]
      <4>1. new \in Sender /\ new.left = sender[x].left \ {e} /\ new.user = sender[x].user
            /\ new.note = sender[x].note /\ new.pc = "send"
        BY <1>0, <1>3 DEF Sender, Refused
      <4>2. sender' = [sender EXCEPT ![x] = new]
        BY <3>1, <1>0
      <4> QED BY <4>1, <4>2
    <3>2. CASE /\ device[e] = "gone"
               /\ sender' = [sender EXCEPT ![x].left = @ \ {e}, ![x].pc = "remove", ![x].dead = e]
      <4> DEFINE new == [sender[x] EXCEPT !.left = @ \ {e}, !.pc = "remove", !.dead = e]
      <4>1. new \in Sender /\ new.left = sender[x].left \ {e} /\ new.user = sender[x].user
            /\ new.note = sender[x].note /\ new.pc = "remove" /\ new.dead = e
        BY <1>0 DEF Sender
      <4>2. sender' = [sender EXCEPT ![x] = new]
        BY <3>2, <1>0
      <4> QED BY <4>1, <4>2, <3>2
    <3> QED BY <1>3, <3>1, <3>2 DEF Refused
  <2>2. PICK new \in Sender :
           /\ sender' = [sender EXCEPT ![x] = new]
           /\ new.left = sender[x].left \ {e} /\ new.user = sender[x].user /\ new.note = sender[x].note
           /\ new.pc = "send" \/ (new.pc = "remove" /\ new.dead = e /\ device[e] = "gone")
    BY <2>1
  <2>3. /\ \A d \in new.left : <<new.note, d>> \in owed
        /\ new.user \in Users /\ new.note \in Notes /\ <<sender[x].note, e>> \in owed
    BY <2>2, <1>0, <1>3 DEF SenderSound, Refused
  <2>4. sender' \in [Senders -> Sender] /\ \A y \in Senders : SenderSound(y)'
    BY <2>2, <2>3, <1>3, OneSender DEF Refused
  <2> QED BY <2>3, <2>4, <1>3, <1>0 DEF Refused, Sound, TypeOK, tables
<1>4. CASE RemoveDead(x)
  <2> DEFINE new == [sender[x] EXCEPT !.pc = "send", !.dead = None]
  <2>1. new \in Sender /\ new.left = sender[x].left /\ new.pc = "send" /\ new.user = sender[x].user
        /\ new.note = sender[x].note
    BY <1>0 DEF Sender
  <2>2. sender' = [sender EXCEPT ![x] = new]
    BY <1>4, <1>0 DEF RemoveDead
  <2>3. /\ \A d \in new.left : <<new.note, d>> \in owed
        /\ new.user \in Users /\ new.note \in Notes
    BY <2>1, <1>0, <1>4 DEF SenderSound, RemoveDead
  <2> HIDE DEF new
  <2>4. sender' \in [Senders -> Sender] /\ \A y \in Senders : SenderSound(y)'
    BY <2>1, <2>2, <2>3, <1>4, OneSender DEF RemoveDead, history
  <2> QED BY <2>4, <1>4, <1>0 DEF RemoveDead, Sound, TypeOK, history
<1>5. CASE TimedOut(x)
  <2> DEFINE new == [sender[x] EXCEPT !.left = {}]
  <2>1. new \in Sender /\ new.left = {} /\ new.pc = "send" /\ new.user = sender[x].user
        /\ new.note = sender[x].note
    BY <1>0, <1>5 DEF Sender, TimedOut
  <2>2. sender' = [sender EXCEPT ![x] = new]
    BY <1>5, <1>0 DEF TimedOut
  <2>3. /\ new.user \in Users /\ new.note \in Notes
        /\ {sender[x].note} \X sender[x].left \subseteq owed
    BY <2>1, <1>0, <1>5 DEF SenderSound, TimedOut
  <2> HIDE DEF new
  <2>4. sender' \in [Senders -> Sender] /\ \A y \in Senders : SenderSound(y)'
    BY <2>1, <2>2, <2>3, <1>5, OneSender DEF TimedOut
  <2> QED BY <2>3, <2>4, <1>5, <1>0 DEF TimedOut, Sound, TypeOK, tables
<1>6. CASE Sent(x)
  <2>1. sender' \in [Senders -> Sender] /\ \A y \in Senders : SenderSound(y)'
    BY <1>6, OneSender, IdleType DEF Sent, history
  <2> QED BY <2>1, <1>6, <1>0 DEF Sent, Sound, TypeOK, tables, history
<1> QED BY <1>1, <1>2, <1>3, <1>4, <1>5, <1>6 DEF SendStep

\* No step at all leaves it.
LEMMA SoundStep == Sound /\ [Next]_vars => Sound'
<1> SUFFICES ASSUME Sound, [Next]_vars PROVE Sound'
  OBVIOUS
<1> USE DEF Message
<1>0. TypeOK /\ \A x \in Senders : SenderSound(x)
  BY DEF Sound
<1>1. ASSUME NEW e \in Endpoints, BrowserSubscribes(e) PROVE Sound'
  BY <1>1, <1>0 DEF BrowserSubscribes, Sound, TypeOK, SenderSound, tables, history
<1>2. ASSUME NEW e \in Endpoints, EndpointGone(e) PROVE Sound'
  <2>1. TypeOK'
    BY <1>2, <1>0 DEF EndpointGone, TypeOK, tables
  <2>2. \A x \in Senders : SenderSound(x)'
    BY <1>2, <1>0 DEF EndpointGone, TypeOK, SenderSound
  <2> QED BY <2>1, <2>2 DEF Sound
<1>3. ASSUME NEW u \in Users, NEW e \in Endpoints, Subscribe(u, e) \/ Unsubscribe(u, e) PROVE Sound'
  BY <1>3, <1>0 DEF Subscribe, Unsubscribe, Sound, TypeOK, SenderSound, history
<1>4. ASSUME NEW x \in Senders, NEW u \in Users, NEW n \in Notes, CreateRecordingCompleted(x, u, n)
      PROVE Sound'
  <2> DEFINE new == [Idle EXCEPT !.pc = "find", !.user = u, !.note = n]
  <2>1. new \in Sender /\ new.pc = "find" /\ new.user = u /\ new.note = n /\ new.left = {}
    BY DEF Idle, Sender
  <2>2. sender' = [sender EXCEPT ![x] = new]
    BY <1>4 DEF CreateRecordingCompleted
  <2> HIDE DEF new
  <2>3. sender' \in [Senders -> Sender] /\ \A y \in Senders : SenderSound(y)'
    BY <2>1, <2>2, <1>4, OneSender DEF CreateRecordingCompleted, history
  <2>4. rows' \in [Notes -> Row]
    BY <1>4, <1>0 DEF CreateRecordingCompleted, TypeOK, Row
  <2> QED BY <2>3, <2>4, <1>4, <1>0 DEF CreateRecordingCompleted, Sound, TypeOK, history
<1>5. ASSUME NEW x \in Senders, SendStep(x) PROVE Sound'
  BY <1>5, SendStepSound
<1>6. CASE Crash
  <2>1. sender' = [x \in Senders |-> Idle] /\ UNCHANGED <<device, owed>>
    BY <1>6 DEF Crash
  <2>2. sender' \in [Senders -> Sender] /\ \A x \in Senders : SenderSound(x)'
    BY <2>1, IdleType DEF SenderSound
  <2>3. missed' \subseteq owed
    BY <1>6, <1>0 DEF Crash, TypeOK, SenderSound
  <2>4. crashes' \in 0..MaxCrashes
    BY <1>6, <1>0, WebPushAssumption DEF Crash, TypeOK
  <2> QED BY <2>2, <2>3, <2>4, <1>6, <1>0 DEF Crash, Sound, TypeOK, tables
<1>7. ASSUME NEW m \in Message, PushEvent(m) \/ Expired(m) PROVE Sound'
  BY <1>7, <1>0 DEF PushEvent, Expired, Sound, TypeOK, SenderSound, tables
<1>8. ASSUME NEW m \in Message, NotificationClick(m) PROVE Sound'
  BY <1>8, <1>0 DEF NotificationClick, Sound, TypeOK, SenderSound, tables, history
<1>9. ASSUME NEW u \in Users, NEW n \in Notes, MarkAsRead(u, n) PROVE Sound'
  <2>1. rows' \in [Notes -> Row]
    BY <1>9, <1>0 DEF MarkAsRead, TypeOK, Row
  <2> QED BY <2>1, <1>9, <1>0 DEF MarkAsRead, Sound, TypeOK, SenderSound, history
<1>10. ASSUME NEW u \in Users, MarkAllAsRead(u) PROVE Sound'
  <2>1. rows' \in [Notes -> Row]
    BY <1>10, <1>0 DEF MarkAllAsRead, TypeOK, Row
  <2> QED BY <2>1, <1>10, <1>0 DEF MarkAllAsRead, Sound, TypeOK, SenderSound, history
<1>11. CASE UNCHANGED vars
  BY <1>11, <1>0 DEF vars, Sound, TypeOK, SenderSound, tables, history
<1> QED BY <1>1, <1>2, <1>3, <1>4, <1>5, <1>6, <1>7, <1>8, <1>9, <1>10, <1>11 DEF Next

\* Every variable keeps its type; above all, nothing is shown on a screen, held by the
\* push service or given up that no sender took on for a subscription it had read.
THEOREM WebPushTypeCorrect == Spec => []TypeOK
<1>1. Sound => TypeOK
  BY DEF Sound
<1> QED BY InitSound, SoundStep, <1>1, PTL DEF Spec

-----------------------------------------------------------------------------
\* What a step removes from push_subscriptions is dead or was cancelled.
LEMMA DroppedIsDead ==
    ASSUME Sound, [Next]_vars, NEW s \in subscriptions \ subscriptions'
    PROVE  device[s[2]] = "gone" \/ Unsubscribe(s[1], s[2])
<1>1. CASE \E x \in Senders : RemoveDead(x)
  <2>1. PICK x \in Senders : RemoveDead(x)
    BY <1>1
  <2>2. s = <<sender[x].user, sender[x].dead>> /\ sender[x].pc = "remove"
    BY <2>1 DEF RemoveDead
  <2>3. device[sender[x].dead] = "gone"
    BY <2>2 DEF Sound, SenderSound
  <2> QED BY <2>2, <2>3
<1>2. CASE \E u \in Users, e \in Endpoints : Unsubscribe(u, e)
  <2>1. PICK u \in Users, e \in Endpoints : Unsubscribe(u, e)
    BY <1>2
  <2>2. s = <<u, e>>
    BY <2>1 DEF Unsubscribe
  <2> QED BY <2>1, <2>2
<1>3. CASE ~(\E x \in Senders : RemoveDead(x)) /\ ~(\E u \in Users, e \in Endpoints : Unsubscribe(u, e))
  <2>1. subscriptions \subseteq subscriptions'
    BY <1>3 DEF Next, vars, tables, BrowserSubscribes, EndpointGone, Subscribe, CreateRecordingCompleted,
                SendStep, FindByUser, Accepted, Refused, TimedOut, Sent, Crash, PushEvent, Expired,
                NotificationClick, MarkAsRead, MarkAllAsRead
  <2> QED BY <2>1
<1> QED BY <1>1, <1>2, <1>3

\* A sender acts on an answer that may be old, and still removes none but dead
\* subscriptions, whatever its requests and the browsers do meanwhile.
THEOREM OnlyDeadAreDropped == Spec => OnlyDeadEndpointsDropped
<1>1. Sound /\ [Next]_vars =>
        [\A s \in subscriptions \ subscriptions' : device[s[2]] = "gone" \/ Unsubscribe(s[1], s[2])]_vars
  BY DroppedIsDead
<1> QED BY InitSound, SoundStep, <1>1, PTL DEF Spec, OnlyDeadEndpointsDropped
=============================================================================
