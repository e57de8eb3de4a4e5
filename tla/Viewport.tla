------------------------------ MODULE Viewport ------------------------------
(***************************************************************************)
(* The page's connection for messages from the server:                     *)
(* BagDatabaseViewport.  Widgets hand it the topics they want; it keeps    *)
(* the list, subscribes to all of it once the connection is up, and to     *)
(* what comes later at once.  Messages are delivered in any order, since   *)
(* the server sends them from a pool of threads.                           *)
(***************************************************************************)
EXTENDS Naturals, FiniteSets

CONSTANTS
  Topics,  \* the topics that widgets of the page subscribe to
  News     \* what a message on a topic may say

VARIABLES
  socket,            \* "connecting", "up" or "down"
  isStompConnected,  \* the viewport's flag
  subscriptions,     \* the topics in the viewport's list
  frames,            \* SUBSCRIBE frames of each topic on their way
  broker,            \* subscriptions of the page at the broker, by topic
  inbox              \* messages on their way to the page

portVars == <<socket, isStompConnected, subscriptions, frames, broker, inbox>>

Message == [topic : Topics, news : News]

PortTypeOK ==
  /\ socket \in {"connecting", "up", "down"} /\ isStompConnected \in BOOLEAN
  /\ subscriptions \subseteq Topics
  /\ frames \in [Topics -> 0..2] /\ broker \in [Topics -> 0..2]
  /\ inbox \subseteq Message

PortInit ==
  /\ socket = "connecting" /\ isStompConnected = FALSE /\ subscriptions = {}
  /\ frames = [t \in Topics |-> 0] /\ broker = [t \in Topics |-> 0] /\ inbox = {}

(* A SUBSCRIBE frame for each topic of a set, if there is a connection.    *)
Send(topics) ==
  frames' = [t \in Topics |-> frames[t] + (IF t \in topics /\ socket' = "up" THEN 1 ELSE 0)]

(* Each widget asks once, as soon as it is made or rendered.               *)
SubscribeToTopic(t) ==
  /\ t \notin subscriptions
  /\ subscriptions' = subscriptions \cup {t}
  /\ UNCHANGED <<socket, isStompConnected, broker, inbox>>
  /\ IF isStompConnected THEN Send({t}) ELSE UNCHANGED frames

(* Mutant: the callback does not set the flag.                             *)
ConnectedUnflagged ==
  /\ socket = "connecting"
  /\ socket' = "up"
  /\ Send(subscriptions)
  /\ UNCHANGED <<isStompConnected, subscriptions, broker, inbox>>

(* The callback of stompClient.connect.                                    *)
Connected ==
  /\ socket = "connecting"
  /\ socket' = "up" /\ isStompConnected' = TRUE
  /\ Send(subscriptions)
  /\ UNCHANGED <<subscriptions, broker, inbox>>

(* The callback for errors.  The viewport has no connectWebSocket that it  *)
(* could call after two seconds, so the connection stays down, and         *)
(* isStompConnected stays as it is.                                        *)
Disconnected ==
  /\ socket # "down"
  /\ socket' = "down"
  /\ frames' = [t \in Topics |-> 0] /\ broker' = [t \in Topics |-> 0] /\ inbox' = {}
  /\ UNCHANGED <<isStompConnected, subscriptions>>

SubscribeArrives(t) ==
  /\ frames[t] > 0
  /\ frames' = [frames EXCEPT ![t] = @ - 1] /\ broker' = [broker EXCEPT ![t] = @ + 1]
  /\ UNCHANGED <<socket, isStompConnected, subscriptions, inbox>>

(* What a message of the server adds to the inbox.                         *)
Publish(t, news) ==
  inbox' = IF broker[t] > 0 THEN inbox \cup {[topic |-> t, news |-> news]} ELSE inbox

PortStep == Connected \/ \E t \in Topics : SubscribeArrives(t)

(* Whenever the connection is up, every topic that a widget has asked for  *)
(* is subscribed to exactly once, or about to be, whether the widget or    *)
(* the connection came first (subscribeToTopic and the connect callback).  *)
SubscribedOnce ==
  socket = "up" =>
    \A t \in Topics : frames[t] + broker[t] = IF t \in subscriptions THEN 1 ELSE 0
=============================================================================
