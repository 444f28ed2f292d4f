------------------------------ MODULE DebugPage ------------------------------
(***************************************************************************)
(* The MQTT debug page (ui/pages/mqtt_debug_page.py) with what it uses of  *)
(* MqttClient (core/mqtt/mqtt_client.py): subscribe(), unsubscribe() and   *)
(* the callback for messages, which runs in the client's network thread.   *)
(*                                                                         *)
(* The Qt thread swaps the list of messages for a new one and walks the    *)
(* old; a network thread that has read the old one still appends to it.    *)
(* The client asks for a clean session at every connect and subscribes to  *)
(* nothing again; the page has one set of topics for all devices.  All it  *)
(* learns of a subscription is that the request was queued: the broker's   *)
(* answer is read by nobody.  What the broker keeps is external.           *)
(***************************************************************************)
EXTENDS Integers, Sequences, FiniteSets

CONSTANTS
  Subscribers,  \* the devices: each has an MQTT client
  Topics,       \* topics
  MaxMessages,  \* bound: messages that arrive
  MaxPresses    \* bound: what the user does on the page

ASSUME DebugPageAssumption == {MaxMessages, MaxPresses} \subseteq Nat /\ Subscribers # {}

VARIABLES
  online,    \* of each device: whether its client is connected
  session,   \* of each device: what the broker has it subscribed to, having read what is queued
  hooked,    \* devices whose client calls _on_message of the page
  chosenSub, \* the device in _device_combo
  topics,    \* _subscribed_topics, which the label shows
  arrived,   \* number of messages so far, which numbers them
  held,      \* of each network thread: the message in hand, or 0
  heldList,  \* and the list it has read: "new", "old" (taken by the walk) or "gone"
  newList,   \* _pending_messages
  oldList,   \* messages, in _flush_messages
  walking,   \* whether it walks
  messages,  \* _msg_display
  pausedSub, \* _paused
  presses,   \* bound: gestures so far
  doubtful,  \* history: topics refused, lost with a session, or left to one of several devices
  lost,      \* history: messages appended to a list that had been walked
  garbled,   \* history: messages that cannot be decoded
  erased     \* history: messages the user has cleared from the display

wire == <<online, session, hooked>>
lists == <<arrived, held, heldList, newList, oldList, walking, messages>>
debugVars == <<wire, chosenSub, topics, lists, pausedSub, presses, doubtful, lost, garbled, erased>>

Items(s) == {s[i] : i \in DOMAIN s}
Press == ~walking /\ presses < MaxPresses /\ presses' = presses + 1
Holders(t) == {d \in Subscribers : t \in session[d]}

DebugInit ==
  /\ online = [d \in Subscribers |-> TRUE]
  /\ session = [d \in Subscribers |-> {}] /\ hooked = {}
  /\ chosenSub = (CHOOSE d \in Subscribers : TRUE) /\ topics = {}
  /\ arrived = 0 /\ held = [d \in Subscribers |-> 0] /\ heldList = [d \in Subscribers |-> "new"]
  /\ newList = <<>> /\ oldList = <<>> /\ walking = FALSE /\ messages = <<>>
  /\ pausedSub = FALSE /\ presses = 0 /\ doubtful = {}
  /\ lost = {} /\ garbled = {} /\ erased = {}

-----------------------------------------------------------------------------
(* The user.                                                               *)

Chooses(d) ==
  /\ Press /\ chosenSub' = d /\ d # chosenSub
  /\ UNCHANGED <<wire, topics, lists, pausedSub, doubtful, lost, garbled, erased>>

\* A client that is not connected is refused with a message box.  Of any other the callback is
\* set, and the request fails or is queued; what is queued the broker grants or refuses.
Subscribes(t) ==
  /\ Press /\ online[chosenSub]
  /\ hooked' = hooked \cup {chosenSub}
  /\ \/ UNCHANGED <<session, topics, doubtful>>
     \/ /\ topics' = topics \cup {t}
        /\ \/ session' = [session EXCEPT ![chosenSub] = @ \cup {t}] /\ UNCHANGED doubtful
           \/ doubtful' = doubtful \cup {t} /\ UNCHANGED session
  /\ UNCHANGED <<online, chosenSub, lists, pausedSub, lost, garbled, erased>>

\* The topic leaves the label, whichever device has it.
Unsubscribes(t) ==
  /\ Press
  /\ session' = IF online[chosenSub] THEN [session EXCEPT ![chosenSub] = @ \ {t}] ELSE session
  /\ topics' = topics \ {t}
  /\ doubtful' = IF Holders(t) \subseteq {chosenSub} THEN doubtful ELSE doubtful \cup {t}
  /\ UNCHANGED <<online, hooked, chosenSub, lists, pausedSub, lost, garbled, erased>>

PausesMessages ==
  /\ Press /\ pausedSub' = ~pausedSub
  /\ UNCHANGED <<wire, chosenSub, topics, lists, doubtful, lost, garbled, erased>>

ClearsMessages ==
  /\ Press /\ messages' = <<>> /\ erased' = erased \cup Items(messages)
  /\ UNCHANGED <<wire, chosenSub, topics, arrived, held, heldList, newList, oldList, walking, pausedSub, doubtful, lost, garbled>>

-----------------------------------------------------------------------------
(* The network thread of d, and the broker.                                *)

\* _on_mqtt_message calls _on_message, which reads self._pending_messages,
Hears(d) ==
  /\ online[d] /\ session[d] # {} /\ d \in hooked
  /\ held[d] = 0 /\ arrived < MaxMessages
  /\ arrived' = arrived + 1 /\ held' = [held EXCEPT ![d] = arrived']
  /\ heldList' = [heldList EXCEPT ![d] = "new"]
  /\ UNCHANGED <<wire, chosenSub, topics, newList, oldList, walking, messages, pausedSub, presses, doubtful, lost, garbled, erased>>

\* and appends to it.
Appends(d) ==
  /\ held[d] # 0 /\ held' = [held EXCEPT ![d] = 0]
  /\ newList' = IF heldList[d] = "new" THEN Append(newList, held[d]) ELSE newList
  /\ oldList' = IF heldList[d] = "old" THEN Append(oldList, held[d]) ELSE oldList
  /\ lost' = IF heldList[d] = "gone" THEN lost \cup {held[d]} ELSE lost
  /\ UNCHANGED <<wire, chosenSub, topics, arrived, heldList, walking, messages, pausedSub, presses, doubtful, garbled, erased>>

\* What is not UTF-8 raises before that, and is handed to nobody.
HearsGarbage(d) ==
  /\ online[d] /\ session[d] # {} /\ d \in hooked
  /\ held[d] = 0 /\ arrived < MaxMessages
  /\ arrived' = arrived + 1 /\ garbled' = garbled \cup {arrived'}
  /\ UNCHANGED <<wire, chosenSub, topics, held, heldList, newList, oldList, walking, messages, pausedSub, presses, doubtful, lost, erased>>

\* The connection ends, and its session with it: connect() asks for a clean one.
SessionEnds(d) ==
  /\ online[d] /\ online' = [online EXCEPT ![d] = FALSE]
  /\ session' = [session EXCEPT ![d] = {}]
  /\ doubtful' = doubtful \cup session[d]
  /\ UNCHANGED <<hooked, chosenSub, topics, lists, pausedSub, presses, lost, garbled, erased>>

\* _on_mqtt_connect subscribes to nothing.
ComesBack(d) ==
  /\ ~online[d] /\ online' = [online EXCEPT ![d] = TRUE]
  /\ UNCHANGED <<session, hooked, chosenSub, topics, lists, pausedSub, presses, doubtful, lost, garbled, erased>>

-----------------------------------------------------------------------------
(* _flush_messages, on a timer of the Qt thread.                           *)

SwapsLists ==
  /\ ~walking /\ ~pausedSub /\ newList # <<>>
  /\ walking' = TRUE /\ oldList' = newList /\ newList' = <<>>
  /\ heldList' = [d \in Subscribers |-> IF heldList[d] = "new" THEN "old" ELSE heldList[d]]
  /\ UNCHANGED <<wire, chosenSub, topics, arrived, held, messages, pausedSub, presses, doubtful, lost, garbled, erased>>

WalksList ==
  /\ walking
  /\ IF oldList # <<>>
     THEN messages' = Append(messages, Head(oldList)) /\ oldList' = Tail(oldList) /\ UNCHANGED <<heldList, walking>>
     ELSE /\ walking' = FALSE /\ UNCHANGED <<messages, oldList>>
          /\ heldList' = [d \in Subscribers |-> IF heldList[d] = "old" THEN "gone" ELSE heldList[d]]
  /\ UNCHANGED <<wire, chosenSub, topics, arrived, held, newList, pausedSub, presses, doubtful, lost, garbled, erased>>

DebugStep ==
  \/ \E d \in Subscribers : Chooses(d) \/ Hears(d) \/ HearsGarbage(d) \/ Appends(d) \/ SessionEnds(d) \/ ComesBack(d)
  \/ \E t \in Topics : Subscribes(t) \/ Unsubscribes(t)
  \/ PausesMessages \/ ClearsMessages \/ SwapsLists \/ WalksList

-----------------------------------------------------------------------------
\* A message that arrived is shown once, or waits, or was cleared; it is missing only when it
\* was appended to a list whose walk was over (mqtt_debug_page.py:272-282) or is not UTF-8
\* (mqtt_client.py:271).
MessagesShownOnce ==
  LET parts == <<Items(newList), Items(oldList), Items(messages), {held[d] : d \in Subscribers} \ {0}, lost, garbled, erased>>
  IN /\ 1 .. arrived = UNION {parts[i] : i \in DOMAIN parts}
     /\ \A i, j \in DOMAIN parts : i # j => parts[i] \cap parts[j] = {}
     /\ \A s \in {newList, oldList, messages} : Cardinality(Items(s)) = Len(s)

\* The label of the page tells what some client is subscribed to, except for a topic that a
\* broker refused, whose session has ended since, or that was unsubscribed at one device while
\* another has it (mqtt_debug_page.py:244, :261; mqtt_client.py:100, :208-211, :239-247).
LabelIsTrue == \A t \in Topics \ doubtful : t \in topics <=> Holders(t) # {}

=============================================================================
