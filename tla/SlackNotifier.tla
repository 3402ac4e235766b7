--------------------------- MODULE SlackNotifier ----------------------------
(***************************************************************************)
(* The messages in Slack and the two calls that make and change them       *)
(* (internal/notifier/slack.go).  A message is named after the event it is *)
(* sent for, and its timestamp ts is that name: Slack gives every message  *)
(* another one.                                                            *)
(***************************************************************************)
EXTENDS Config

CONSTANT Messages

NoTs == "no ts"
NoIP == "no address"

VARIABLES
  message,   \* the messages in the channel: what they show, about whom
  ts         \* the timestamp SendMessageWithButtons returned for it

slackVars == <<message, ts>>

(* "none", no message; "asking", the buttons; "bare", the text that was    *)
(* sent but no buttons.                                                    *)
Shown == {"none", "asking", "bare"}

SlackMayFail == "slack" \in Faults

SlackInit ==
  /\ message = [id \in Messages |-> [shows |-> "none", ip |-> NoIP]]
  /\ ts = [id \in Messages |-> NoTs]

Posts(id, about) ==
  message' = [message EXCEPT ![id] = [shows |-> "asking", ip |-> about]]

(* SendMessageWithButtons returns a timestamp.                             *)
Sends(id, about) ==
  /\ Posts(id, about)
  /\ ts' = [ts EXCEPT ![id] = id]

(* It returns an error; the message may be there and its answer lost.      *)
SendFails(id, about) ==
  /\ SlackMayFail
  /\ Posts(id, about) \/ UNCHANGED message
  /\ ts' = [ts EXCEPT ![id] = NoTs]

(* UpdateMessage.  Its struct tag is misspelt, so the text goes out under  *)
(* the key "Text", which chat.update does not know: Slack refuses a        *)
(* request without a text, or empties the attachments, as asked.           *)
Updates(id) ==
  \/ id # NoTs /\ message' = [message EXCEPT ![id].shows = "bare"]
  \/ UNCHANGED message

=============================================================================
