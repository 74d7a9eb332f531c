-------------------------------- MODULE Codecs --------------------------------
(***************************************************************************)
(* The three encodings of the program side by side: the BSON builder under  *)
(* any caller (Builder) and a reader of its documents (Documents), a        *)
(* request and its answer through both object layers and the frame          *)
(* (Dialog), and the protocol-buffer messages (Messages). They share the    *)
(* BSON library and no state; part says which of them a behaviour is about, *)
(* the other two stay as they begin.                                        *)
(***************************************************************************)
EXTENDS Documents, Dialog, Messages

VARIABLE part

vars == << part, builderVars, talk, messageVars >>

\* One start for each part that a behaviour is not about.
IdleBuilder ==
  build = bson_init_size(CHOOSE n \in RoomSizes : TRUE) /\ said = << >> /\ slips = {} /\ calls = 0

IdleDialog == talk = [phase |-> "done", way |-> "CBson"]

IdleMessages ==
  /\ pair = CHOOSE p \in Pairs : TRUE
  /\ left = New /\ right = New /\ wire = << >> /\ verdict = "none" /\ msgSteps = 0

Init ==
  \/ part = "builder" /\ BuilderInit /\ IdleDialog /\ IdleMessages
  \/ part = "dialog" /\ DialogInit /\ IdleBuilder /\ IdleMessages
  \/ part = "messages" /\ MessageInit /\ IdleBuilder /\ IdleDialog

Next ==
  \/ part = "builder" /\ BuilderNext /\ UNCHANGED << part, talk, messageVars >>
  \/ part = "dialog" /\ DialogNext /\ UNCHANGED << part, builderVars, messageVars >>
  \/ part = "messages" /\ MessageNext /\ UNCHANGED << part, builderVars, talk >>

Spec == Init /\ [][Next]_vars

--------------------------------------------------------------------------------
\* A finished document is read back as the accepted calls made it.
DocumentIsRead == part = "builder" => ReadsBack

\* A request, and its answer, get through both object layers as they were set.
DialogIsHeard == part = "dialog" => DialogTypeOK /\ DialogFaithful
================================================================================
