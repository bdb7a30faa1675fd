------------------------------ MODULE Composer ------------------------------
(***************************************************************************)
(* What ChatView.tsx writes with: the text field, the answer to a message, *)
(* the menu of a message, forwarding, attachments and voice messages.  One *)
(* view serves all chats: a wide window keeps it while the chat changes.   *)
(***************************************************************************)
EXTENDS Naturals

CONSTANTS Chats, NoChat,
          MaxPresses        \* bound of the presses of the microphone, and of the
                            \* sends under way at a time

ComposerAssumption == NoChat \notin Chats /\ MaxPresses \in Nat

VARIABLES chat,              \* the chat on the screen
          menu, reply,       \* the chats of the messages of the menu and of the quote
          touch,             \* the chat of the message under the finger
          draft,             \* there is text in the field, which all chats share
          send,              \* how many messages are being enciphered and sent
          forward,           \* the window of chats to forward to
          upload, sheet,     \* the chat of the attachment under way; the sheet is open
          mic, press,        \* recorders, by the press that asked for them; the finger
          ref, sound,        \* recorderRef; the chat of the voice message under way
          spoilt             \* history: the microphone was pressed again while it was asked
                             \* for, or the chat left with a finger on a message

vars == <<chat, menu, reply, touch, draft, send, forward, upload, sheet, mic, press, ref,
          sound, spoilt>>

Some == Chats \cup {NoChat}
Press == 1 .. MaxPresses
NoMic == [pc |-> "none", chat |-> NoChat]

\* The state of the view: recording from the moment some recorder started until
\* one of them stopped.
recording == ref # 0

Init ==
  /\ chat \in Chats /\ menu = NoChat /\ reply = NoChat /\ touch = NoChat /\ draft = FALSE
  /\ send = 0
  /\ forward = [pc |-> "closed", chat |-> NoChat]
  /\ upload = NoChat /\ sheet = FALSE
  /\ mic = [p \in Press |-> NoMic] /\ press = [n |-> 0, down |-> FALSE]
  /\ ref = 0 /\ sound = NoChat /\ spoilt = FALSE

write == <<draft, send>>
voice == <<mic, press, ref, sound>>
files == <<upload, sheet>>

------------------------------------------------------------------------------
\* Fault: the quote stays.
FaultOpenChat(c) ==
  /\ c # chat /\ chat' = c
  /\ menu' = NoChat
  /\ forward' = [pc |-> "closed", chat |-> NoChat]
  /\ spoilt' = (spoilt \/ touch # NoChat)
  /\ UNCHANGED <<reply, touch, write, files, voice>>

\* Another chat: its effect drops the quote, the menu and the forwarding, and
\* nothing else.
OpenChat(c) ==
  /\ c # chat /\ chat' = c
  /\ reply' = NoChat /\ menu' = NoChat
  /\ forward' = [pc |-> "closed", chat |-> NoChat]
  /\ spoilt' = (spoilt \/ touch # NoChat)
  /\ UNCHANGED <<touch, write, files, voice>>

\* 450 ms under the finger, or a click of the other button, bring up the menu; the
\* timer is stopped by a move, a scroll or the end of the touch, not by leaving.
Touch == /\ touch = NoChat /\ touch' = chat
         /\ UNCHANGED <<chat, menu, reply, write, forward, files, voice, spoilt>>

CancelLongPress == /\ touch = chat /\ touch' = NoChat
                   /\ UNCHANGED <<chat, menu, reply, write, forward, files, voice, spoilt>>

LongPress == /\ touch # NoChat /\ menu' = touch /\ touch' = NoChat
             /\ UNCHANGED <<chat, reply, write, forward, files, voice, spoilt>>

CloseMenu == /\ menu # NoChat /\ menu' = NoChat
             /\ UNCHANGED <<chat, reply, touch, write, forward, files, voice, spoilt>>

Reply == /\ menu # NoChat /\ reply' = menu /\ menu' = NoChat
         /\ UNCHANGED <<chat, touch, write, forward, files, voice, spoilt>>

DropReply == /\ reply # NoChat /\ reply' = NoChat
             /\ UNCHANGED <<chat, menu, touch, write, forward, files, voice, spoilt>>

Forward == /\ menu # NoChat /\ menu' = NoChat
           /\ forward' = [pc |-> "open", chat |-> NoChat]
           /\ UNCHANGED <<chat, reply, touch, write, files, voice, spoilt>>

\* ForwardModal: one chat at a time, closed half a second after it was taken.
Pick(c) == /\ forward.pc = "open"
           /\ forward' = [pc |-> "sending", chat |-> c]
           /\ UNCHANGED <<chat, menu, reply, touch, write, files, voice, spoilt>>

Forwarded == /\ forward.pc = "sending"
             /\ \E pc \in {"open", "closed"} : forward' = [pc |-> pc, chat |-> NoChat]
             /\ UNCHANGED <<chat, menu, reply, touch, write, files, voice, spoilt>>

CloseForward == /\ forward.pc # "closed"
                /\ forward' = [pc |-> "closed", chat |-> NoChat]
                /\ UNCHANGED <<chat, menu, reply, touch, write, files, voice, spoilt>>

------------------------------------------------------------------------------
Type == /\ ~recording /\ draft' = TRUE
        /\ UNCHANGED <<chat, menu, reply, touch, send, forward, files, voice, spoilt>>

\* onSend takes the chat on the screen; the answer to another chat's message is
\* dropped by the server. Nothing keeps one from sending the text a second time.
Send == /\ draft /\ ~recording /\ send < MaxPresses
        /\ send' = send + 1
        /\ UNCHANGED <<chat, menu, reply, touch, draft, forward, files, voice, spoilt>>

\* Taken: the field is emptied, whatever it holds by now and in whatever chat.
SendTaken == /\ send > 0
             /\ send' = send - 1
             /\ draft' = FALSE /\ reply' = NoChat
             /\ UNCHANGED <<chat, menu, touch, forward, files, voice, spoilt>>

\* The socket is not open: the text stays.
SendRefused == /\ send > 0
               /\ send' = send - 1
               /\ UNCHANGED <<chat, menu, reply, touch, draft, forward, files, voice, spoilt>>

------------------------------------------------------------------------------
\* The paper clip is dead during an upload.
Attach == /\ upload = NoChat /\ ~recording /\ sheet' = TRUE
          /\ UNCHANGED <<chat, menu, reply, touch, write, forward, upload, voice, spoilt>>

CloseSheet == /\ sheet /\ sheet' = FALSE
              /\ UNCHANGED <<chat, menu, reply, touch, write, forward, upload, voice, spoilt>>

\* handleFile, after the choice; a video waits for its thumbnail first.
Upload == /\ sheet /\ sheet' = FALSE /\ upload' = chat
          /\ UNCHANGED <<chat, menu, reply, touch, write, forward, voice, spoilt>>

UploadOver == /\ upload # NoChat /\ upload' = NoChat
              /\ UNCHANGED <<chat, menu, reply, touch, write, forward, sheet, voice, spoilt>>

------------------------------------------------------------------------------
\* The microphone stands in the place of the send button.
Microphone == ~recording /\ ~draft /\ sound = NoChat

StartRecording ==
  /\ Microphone /\ ~press.down /\ press.n < MaxPresses
  /\ press' = [n |-> press.n + 1, down |-> TRUE]
  /\ mic' = [mic EXCEPT ![press.n + 1] = [pc |-> "asked", chat |-> chat]]
  /\ spoilt' = (spoilt \/ \E p \in Press : mic[p].pc = "asked")
  /\ UNCHANGED <<chat, menu, reply, touch, write, forward, files, ref, sound>>

\* getUserMedia, which may have asked the user; recorderRef takes the last.
Granted(p) ==
  /\ mic[p].pc = "asked"
  /\ mic' = [mic EXCEPT ![p].pc = "live"]
  /\ ref' = p
  /\ UNCHANGED <<chat, menu, reply, touch, write, forward, files, press, sound, spoilt>>

Refused(p) ==
  /\ mic[p].pc = "asked"
  /\ mic' = [mic EXCEPT ![p] = NoMic]
  /\ UNCHANGED <<chat, menu, reply, touch, write, forward, files, press, ref, sound, spoilt>>

\* The finger goes up, or leaves the button: while the microphone is on the screen
\* nothing is recorded yet, and stopRecording returns; while it records the button
\* is not there to hear of it.
Release ==
  /\ press.down /\ press' = [press EXCEPT !.down = FALSE]
  /\ UNCHANGED <<chat, menu, reply, touch, write, forward, files, mic, ref, sound, spoilt>>

\* The bin, which is what the screen offers while it records.
CancelRecording ==
  /\ recording
  /\ mic' = [mic EXCEPT ![ref].pc = "cancelled"]
  /\ UNCHANGED <<chat, menu, reply, touch, write, forward, files, press, ref, sound, spoilt>>

\* rec.onstop: the tracks are released; a recorder the system stopped is sent, unless
\* it is too short.
Stopped(p) ==
  /\ mic[p].pc \in {"live", "cancelled"}
  /\ mic' = [mic EXCEPT ![p] = NoMic]
  /\ ref' = 0
  /\ sound' \in IF mic[p].pc = "live" THEN {sound, mic[p].chat} ELSE {sound}
  /\ UNCHANGED <<chat, menu, reply, touch, write, forward, files, press, spoilt>>

SoundOver == /\ sound # NoChat /\ sound' = NoChat
             /\ UNCHANGED <<chat, menu, reply, touch, write, forward, files, mic, press, ref, spoilt>>

Next ==
  \/ \E c \in Chats : OpenChat(c) \/ Pick(c)
  \/ Touch \/ CancelLongPress \/ LongPress \/ CloseMenu \/ Reply \/ DropReply
  \/ Forward \/ Forwarded \/ CloseForward
  \/ Type \/ Send \/ SendTaken \/ SendRefused
  \/ Attach \/ CloseSheet \/ Upload \/ UploadOver
  \/ StartRecording \/ Release \/ CancelRecording \/ SoundOver
  \/ \E p \in Press : Granted(p) \/ Refused(p) \/ Stopped(p)

Spec == Init /\ [][Next]_vars

------------------------------------------------------------------------------
TypeOK ==
  /\ chat \in Chats /\ {menu, reply, touch, upload, sound} \subseteq Some
  /\ {draft, sheet, spoilt} \subseteq BOOLEAN /\ send \in 0 .. MaxPresses
  /\ forward \in [pc : {"closed", "open", "sending"}, chat : Some]
  /\ mic \in [Press -> [pc : {"none", "asked", "live", "cancelled"}, chat : Some]]
  /\ press \in [n : 0 .. MaxPresses, down : BOOLEAN] /\ ref \in 0 .. MaxPresses

\* The quote and the menu are of the chat on the screen, however the answers and
\* timers fall, and a microphone that is on is the one the screen can stop: unless
\* it was pressed twice before it was given, or the chat was left during a touch.
NothingLeftBehind ==
  ~spoilt =>
    /\ reply \in {NoChat, chat} /\ menu \in {NoChat, chat}
    /\ \A p \in Press : mic[p].pc \in {"live", "cancelled"} => ref = p
==============================================================================
