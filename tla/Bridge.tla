------------------------------- MODULE Bridge -------------------------------
(* src/channels/chat-sdk-bridge.ts: the adapter between the Chat SDK and the  *)
(* host.  Inbound, the SDK hands every message to exactly one of four         *)
(* handlers, each of which downloads the attachments and forwards the message *)
(* to the router, many at a time.  Outbound, a long text is posted as several *)
(* messages.  Chats that need one have a gateway listener, which the bridge   *)
(* starts again whenever it ends.                                             *)
EXTENDS Naturals, Sequences, SequencesExt

CONSTANTS
  Events,      \* inbound messages: [id, dm, mention, files]
  Texts,       \* outbound rows the host delivers to one thread
  Parts,       \* by text: how many pieces splitForLimit makes of it
  None,
  MaxTries,    \* attempts of the host's delivery at one row
  MaxPosts     \* bound on the thread's length

VARIABLES
  subscribed,  \* the thread is in chat_sdk_subscriptions
  inbound,     \* by event: "sent", "downloading" or "routed", and isMention
  gateway,     \* "listening", "waiting" (for its 5 s), "gone" or "closed"
  thread,      \* what the chat shows: a sequence of [text, part]
  posting,     \* by text: what the attempt at it has done, see Idle
  tries,       \* by text: attempts made
  reported     \* by text: the message id deliver() returned, or None

vars  == <<subscribed, inbound, gateway, thread, posting, tries, reported>>
outgoing == <<thread, posting, tries, reported>>

Idle == [part |-> 0, first |-> None]      \* no attempt under way

Init ==
  /\ subscribed \in BOOLEAN
  /\ inbound = [e \in Events |-> [at |-> "sent", mention |-> FALSE]]
  /\ gateway = "listening"
  /\ thread = << >>
  /\ posting = [x \in Texts |-> Idle]
  /\ tries = [x \in Texts |-> 0]
  /\ reported = [x \in Texts |-> None]

-----------------------------------------------------------------------------
(* Inbound.                                                                   *)

(* The SDK's dispatch is exclusive; each path has a handler of its own. *)
Path(e) ==
  CASE e.dm -> "direct"
    [] ~e.dm /\ subscribed -> "subscribed"
    [] ~e.dm /\ ~subscribed /\ e.mention -> "mention"
    [] OTHER -> "plain"

(* Direct messages and new mentions are addressed to the bot; in a subscribed *)
(* thread the SDK's own flag is passed on.                                    *)
Addressed(e, path) ==
  \/ path \in {"direct", "mention"}
  \/ path = "subscribed" /\ e.mention

Dispatch(e) ==
  /\ gateway = "listening" /\ inbound[e].at = "sent"
  /\ inbound' = [inbound EXCEPT ![e] =
                   [at |-> IF e.files THEN "downloading" ELSE "routed",
                    mention |-> Addressed(e, Path(e))]]
  /\ UNCHANGED <<subscribed, gateway, outgoing>>

(* messageToInbound has every attachment it may fetch, or has given up on it: *)
(* a download that fails or is too large leaves the attachment without data.  *)
Downloaded(e) ==
  /\ inbound[e].at = "downloading"
  /\ inbound' = [inbound EXCEPT ![e].at = "routed"]
  /\ UNCHANGED <<subscribed, gateway, outgoing>>

(* The router subscribes the thread when a mention-sticky wiring engages. *)
Subscribe ==
  /\ \E e \in Events : inbound[e].at = "routed" /\ inbound[e].mention
  /\ subscribed' = TRUE
  /\ UNCHANGED <<inbound, gateway, outgoing>>

-----------------------------------------------------------------------------
(* The gateway listener.                                                      *)

(* It expires after a day and starts again at once; after an error it starts  *)
(* again in five seconds; when the call that starts it is rejected nothing    *)
(* starts it again.                                                           *)
ListenerEnds ==
  /\ gateway = "listening"
  /\ gateway' \in {"listening", "waiting", "gone"}
  /\ UNCHANGED <<subscribed, inbound, outgoing>>

StartGateway ==
  /\ gateway = "waiting" /\ gateway' \in {"listening", "gone"}
  /\ UNCHANGED <<subscribed, inbound, outgoing>>

Teardown ==
  /\ gateway # "closed" /\ gateway' = "closed"
  /\ UNCHANGED <<subscribed, inbound, outgoing>>

-----------------------------------------------------------------------------
(* Outbound.                                                                  *)

(* The host's delivery (src/delivery.ts) hands the row to deliver(). *)
Deliver(x) ==
  /\ posting[x] = Idle /\ reported[x] = None /\ tries[x] < MaxTries
  /\ tries' = [tries EXCEPT ![x] = @ + 1]
  /\ posting' = [posting EXCEPT ![x].part = 1]
  /\ UNCHANGED <<subscribed, inbound, gateway, thread, reported>>

(* A faulty variant: a piece that cannot be posted is left out. *)
PostSkipping(x) ==
  /\ posting[x].part \in 1..Parts[x] /\ Len(thread) < MaxPosts
  /\ thread' \in {thread, Append(thread, [text |-> x, part |-> posting[x].part])}
  /\ posting' = [posting EXCEPT ![x] =
       [part  |-> @.part + 1,
        first |-> IF @.part = 1 THEN Len(thread) + 1 ELSE @.first]]
  /\ UNCHANGED <<subscribed, inbound, gateway, tries, reported>>

(* One piece is posted; the first one's id is kept. *)
Post(x) ==
  /\ posting[x].part \in 1..Parts[x] /\ Len(thread) < MaxPosts
  /\ thread' = Append(thread, [text |-> x, part |-> posting[x].part])
  /\ posting' = [posting EXCEPT ![x] =
       [part  |-> @.part + 1,
        first |-> IF @.part = 1 THEN Len(thread') ELSE @.first]]
  /\ UNCHANGED <<subscribed, inbound, gateway, tries, reported>>

(* A piece is refused: deliver() throws, what was posted stays. *)
PostFails(x) ==
  /\ posting[x].part \in 1..Parts[x]
  /\ posting' = [posting EXCEPT ![x] = Idle]
  /\ UNCHANGED <<subscribed, inbound, gateway, thread, tries, reported>>

Returns(x) ==
  /\ posting[x].part > Parts[x]
  /\ reported' = [reported EXCEPT ![x] = posting[x].first]
  /\ posting' = [posting EXCEPT ![x] = Idle]
  /\ UNCHANGED <<subscribed, inbound, gateway, thread, tries>>

Next ==
  \/ Subscribe \/ ListenerEnds \/ StartGateway \/ Teardown
  \/ \E e \in Events : Dispatch(e) \/ Downloaded(e)
  \/ \E x \in Texts : Deliver(x) \/ Post(x) \/ PostFails(x) \/ Returns(x)

Spec == Init /\ [][Next]_vars

-----------------------------------------------------------------------------

(* The messages of a text from one on. *)
ShownFrom(x, first) == {i \in first .. Len(thread) : thread[i].text = x}

(* From that message on the chat shows the first n pieces, each once and in   *)
(* order, and the message is the first of them.                               *)
CopyFrom(x, first, n) ==
  /\ first \in ShownFrom(x, first)
  /\ {thread[i].part : i \in ShownFrom(x, first)} = 1..n
  /\ \A i, j \in ShownFrom(x, first) : i < j => thread[i].part < thread[j].part

(* The id deliver() reports heads a whole copy of the text, whatever earlier  *)
(* attempts left above it and other texts put between, so that a later edit   *)
(* or reaction hits the head of the reply (chat-sdk-bridge.ts deliver).       *)
IdHeadsTheCopy ==
  \A x \in Texts : reported[x] # None => CopyFrom(x, reported[x], Parts[x])

=============================================================================
