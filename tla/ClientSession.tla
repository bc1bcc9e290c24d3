--------------------------- MODULE ClientSession ---------------------------
(***************************************************************************)
(* The client from its login dialog to its chat dialog and back: the pages *)
(* of MainWindow, the HTTP requests of the dialogs, the connection to the  *)
(* chat server, the account data in UserMgr, and what is left of them when *)
(* the server or the network ends the session.                             *)
(*                                                                         *)
(* One thread runs everything, but a message box runs an event loop of its *)
(* own: while it is open, answers and connection events are still handled. *)
(* Only readyRead is not emitted again inside its own slot, so nothing is  *)
(* read under a box that the offline notice has opened.                    *)
(* HTTP answers are signals of one HttpMgr: they reach the dialog of their *)
(* kind that exists when they come, whichever dialog asked.  Replacing the *)
(* central widget deletes the page that was there.                         *)
(***************************************************************************)
EXTENDS Integers, FiniteSets, Sequences, SequencesExt

CONSTANTS
  User,      \* accounts
  MaxHttp,   \* bound on the HTTP requests under way
  Nobody     \* no account

ASSUME ClientAssumption == Nobody \notin User /\ MaxHttp \in Nat

VARIABLES
  page,      \* _ui_status
  busy,      \* the page's inputs are disabled (enableOperation)
  uid,       \* _uid of the login dialog; Nobody while it is not set
  leaving,   \* the registration dialog counts down to go back to login
  chatDlg,   \* what _chat_dlg points to
  http,      \* HTTP requests under way, oldest first
  socket,    \* the socket of TcpMgr
  server,    \* the chat server's side of the connection
  inbox,     \* messages on their way to the client
  info,      \* UserMgr: _user_info
  lists,     \* UserMgr: accounts whose friends are in its lists
  windows,   \* accounts whose chat pages are open as windows
  boxes,     \* message boxes open, innermost last
  wanted,    \* the account of the last click on login
  strayed,   \* the login dialog was left before its login had ended
  hindered,  \* why nothing will end the present login, see Hinder
  crashed    \* a pointer that was used although it points to no dialog

uiVars == <<page, busy, uid, leaving, chatDlg>>
netVars == <<http, socket, server, inbox>>
dataVars == <<info, lists, windows>>
noteVars == <<wanted, strayed, hindered>>
vars == <<uiVars, netVars, dataVars, boxes, noteVars, crashed>>

Account == User \cup {Nobody}
Forms == {"register", "reset"}
Request == [mod : {"login"}, uid : User] \cup [mod : Forms, id : {"code", "form"}]
Message == [is : {"welcome"}, uid : User] \cup [is : {"refusal", "noise", "offline"}]
ServerState == [is : {"idle", "kicked"}] \cup [is : {"asked", "entered", "in"}, uid : Account]

TypeOK ==
  /\ page \in {"login", "chat"} \cup Forms
  /\ busy \in BOOLEAN
  /\ uid \in Account
  /\ leaving \in BOOLEAN
  /\ chatDlg \in {"unset", "live", "deleted"}
  /\ http \in Seq(Request) /\ Len(http) <= MaxHttp
  /\ socket \in {"closed", "connecting", "open", "closing"}
  /\ server \in ServerState
  /\ inbox \in Seq(Message)
  /\ info \in Account
  /\ lists \subseteq User
  /\ windows \subseteq User
  /\ boxes \in Seq({"offline", "closed"})
  /\ wanted \in Account
  /\ strayed \in BOOLEAN
  /\ hindered \in BOOLEAN
  /\ crashed \in BOOLEAN

Init ==
  /\ page = "login" /\ busy = FALSE /\ uid = Nobody
  /\ leaving = FALSE
  /\ chatDlg = "unset"
  /\ http = <<>>
  /\ socket = "closed"
  /\ server = [is |-> "idle"]
  /\ inbox = <<>>
  /\ info = Nobody
  /\ lists = {}
  /\ windows = {}
  /\ boxes = <<>>
  /\ wanted = Nobody
  /\ strayed = FALSE /\ hindered = FALSE
  /\ crashed = FALSE

(* Message boxes are modal: the user can do nothing else.                  *)
UserActs == ~crashed /\ boxes = <<>>
Ask(r) == Len(http) < MaxHttp /\ http' = Append(http, r)

(* What nothing in the client undoes: the present login waits for ever.    *)
Hinder(c) == hindered' = (hindered \/ (c /\ page = "login" /\ busy))

-----------------------------------------------------------------------------
(* The dialogs.                                                            *)
ClickLogin(u) ==
  /\ UserActs
  /\ page = "login" /\ ~busy
  /\ Ask([mod |-> "login", uid |-> u])
  /\ busy' = TRUE
  /\ wanted' = u
  /\ hindered' = FALSE
  /\ UNCHANGED <<page, uid, leaving, chatDlg, socket, server, inbox, dataVars,
                 boxes, strayed, crashed>>

(* A page takes the place of the one before it, which is deleted.          *)
Show(p) == page' = p /\ busy' = FALSE /\ uid' = Nobody /\ leaving' = FALSE

(* SlotSwitchReg, SlotSwitchReset.  Their labels are never disabled.       *)
LeaveLogin ==
  /\ UserActs
  /\ page = "login"
  /\ \E p \in {"register", "reset"} : Show(p)
  /\ strayed' = (strayed \/ busy \/ socket # "closed")
  /\ UNCHANGED <<chatDlg, netVars, dataVars, boxes, wanted, hindered, crashed>>

(* SlotSwitchLogin, SlotSwitchLogin2, from the return buttons.             *)
ReturnToLogin ==
  /\ UserActs
  /\ page \in Forms
  /\ Show("login")
  /\ UNCHANGED <<chatDlg, netVars, dataVars, boxes, noteVars, crashed>>

(* What the user has entered passes the checks of the dialog; when it does *)
(* not, there is a tip and nothing else.  The buttons are never disabled.  *)
Submit(p, id) ==
  /\ UserActs
  /\ page = p /\ ~leaving
  /\ Ask([mod |-> p, id |-> id])
  /\ UNCHANGED <<page, uid, leaving, chatDlg, socket, server, inbox, dataVars,
                 boxes, noteVars, crashed>>

SureRegister == Submit("register", "form") /\ busy' = TRUE
SureReset    == Submit("reset", "form") /\ busy' = TRUE
CodeRegister == Submit("register", "code") /\ UNCHANGED busy
CodeReset    == Submit("reset", "code") /\ UNCHANGED busy

(* The timer of ChangeTipPage has counted down to 0.                       *)
CountedDown ==
  /\ ~crashed
  /\ page = "register" /\ leaving
  /\ Show("login")
  /\ UNCHANGED <<chatDlg, netVars, dataVars, boxes, noteVars, crashed>>

-----------------------------------------------------------------------------
(* HttpMgr: the answer to request i, in whatever order they come.          *)
Answered(i) ==
  /\ ~crashed
  /\ i \in DOMAIN http
  /\ http' = RemoveAt(http, i)

AnswerUnheard(i) ==
  /\ Answered(i)
  /\ http[i].mod # page
  /\ UNCHANGED <<uiVars, socket, server, inbox, dataVars, boxes, noteVars, crashed>>

(* slot_login_mod_finish: a network error or an error code.                *)
LoginRefused(i) ==
  /\ Answered(i)
  /\ page = "login" /\ http[i].mod = "login"
  /\ busy' = FALSE
  /\ UNCHANGED <<page, uid, leaving, chatDlg, socket, server, inbox, dataVars,
                 boxes, noteVars, crashed>>

(* Its answer cannot be parsed: a tip, and the inputs stay disabled.       *)
LoginUnread(i) ==
  /\ Answered(i)
  /\ page = "login" /\ http[i].mod = "login"
  /\ Hinder(TRUE)
  /\ UNCHANGED <<uiVars, socket, server, inbox, dataVars, boxes, wanted,
                 strayed, crashed>>

(* The gate has named a chat server: slot_tcp_connect.  connectToHost on a *)
(* socket that is not closed does nothing but report an error of a kind    *)
(* TcpMgr only logs.                                                       *)
LoginGranted(i) ==
  /\ Answered(i)
  /\ page = "login" /\ http[i].mod = "login"
  /\ uid' = http[i].uid
  /\ socket' = IF socket = "closed" THEN "connecting" ELSE socket
  /\ Hinder(socket # "closed")
  /\ UNCHANGED <<page, busy, leaving, chatDlg, server, inbox, dataVars, boxes,
                 wanted, strayed, crashed>>

(* slot_reg_mod_finish and slot_reset_mod_finish.                          *)
FormAnswered(p, i) ==
  /\ Answered(i)
  /\ page = p /\ http[i].mod = p
  /\ UNCHANGED <<page, uid, chatDlg, socket, server, inbox, dataVars, boxes,
                 noteVars, crashed>>

(* Variant: the inputs stay disabled.                                      *)
RegUnreadOnly(i) == FormAnswered("register", i) /\ UNCHANGED <<busy, leaving>>

(* A network error, or an answer that cannot be parsed.                    *)
RegUnread(i) == FormAnswered("register", i) /\ busy' = FALSE /\ UNCHANGED leaving

ResetUnread(i) == FormAnswered("reset", i) /\ busy' = FALSE /\ UNCHANGED leaving

(* _handlers: the answer to a request for a code is only shown, any other  *)
(* enables the inputs, and a registration that succeeded starts the        *)
(* countdown.                                                              *)
RegHandled(i) ==
  /\ FormAnswered("register", i)
  /\ \/ http[i].id = "code" /\ UNCHANGED <<busy, leaving>>
     \/ http[i].id = "form" /\ busy' = FALSE /\ leaving' \in {leaving, TRUE}

ResetHandled(i) ==
  /\ FormAnswered("reset", i)
  /\ busy' = (busy /\ http[i].id = "code")
  /\ UNCHANGED leaving

Answer(i) ==
  \/ AnswerUnheard(i) \/ LoginRefused(i) \/ LoginUnread(i)
  \/ LoginGranted(i) \/ RegUnread(i) \/ ResetUnread(i) \/ RegHandled(i) \/ ResetHandled(i)

-----------------------------------------------------------------------------
(* The connection.                                                         *)
(* sig_con_success(true): the login dialog that exists sends its _uid and  *)
(* _token, which a dialog that has asked for nothing has never set.        *)
Connected ==
  /\ ~crashed
  /\ socket = "connecting"
  /\ socket' = "open"
  /\ server' = IF page = "login" THEN [is |-> "asked", uid |-> uid]
               ELSE [is |-> "idle"]
  /\ UNCHANGED <<uiVars, http, inbox, dataVars, boxes, noteVars, crashed>>

(* Refused, unknown host, timed out: sig_con_success(false).               *)
ConnectFails ==
  /\ ~crashed
  /\ socket \in {"connecting", "closing"}
  /\ socket' = "closed"
  /\ busy' = (busy /\ page # "login")
  /\ UNCHANGED <<page, uid, leaving, chatDlg, http, server, inbox, dataVars,
                 boxes, noteVars, crashed>>

(* Any other error of the socket is only logged.                           *)
NetworkError ==
  /\ ~crashed
  /\ socket \in {"connecting", "closing"}
  /\ socket' = "closed"
  /\ Hinder(TRUE)
  /\ UNCHANGED <<uiVars, http, server, inbox, dataVars, boxes, wanted, strayed,
                 crashed>>

(* The chat server (modules ChatLogin, Accounts): a login it accepts puts  *)
(* the session into UserMgr before the answer is sent, so that the notice  *)
(* to go offline may come first.                                           *)
Accept ==
  /\ server.is = "asked" /\ server.uid # Nobody
  /\ server' = [server EXCEPT !.is = "entered"]
  /\ UNCHANGED <<uiVars, http, socket, inbox, dataVars, boxes, noteVars, crashed>>

Welcome ==
  /\ server.is = "entered"
  /\ server' = [server EXCEPT !.is = "in"]
  /\ inbox' = Append(inbox, [is |-> "welcome", uid |-> server.uid])
  /\ UNCHANGED <<uiVars, http, socket, dataVars, boxes, noteVars, crashed>>

Refuse ==
  /\ server.is = "asked"
  /\ server' = [is |-> "idle"]
  /\ \E m \in {"refusal", "noise"} : inbox' = Append(inbox, [is |-> m])
  /\ UNCHANGED <<uiVars, http, socket, dataVars, boxes, noteVars, crashed>>

Kick ==
  /\ server.is \in {"entered", "in"}
  /\ server' = [is |-> "kicked"]
  /\ inbox' = inbox \o <<[is |-> "offline"]>>
              \o (IF server.is = "in" THEN <<>>
                  ELSE <<[is |-> "welcome", uid |-> server.uid]>>)
  /\ UNCHANGED <<uiVars, http, socket, dataVars, boxes, noteVars, crashed>>

Disconnected == socket' = "closed" /\ server' = [is |-> "idle"] /\ inbox' = <<>>

NoticeShown == \E i \in DOMAIN boxes : boxes[i] = "offline"

(* The server or the network ends the connection: SlotExcepConOffline.     *)
(* What has arrived before is read first, unless nothing can be read.      *)
ConnectionEnds ==
  /\ ~crashed
  /\ socket = "open"
  /\ inbox = <<>> \/ NoticeShown
  /\ Disconnected
  /\ boxes' = Append(boxes, "closed")
  /\ Hinder(TRUE)
  /\ UNCHANGED <<uiVars, http, dataVars, wanted, strayed, crashed>>

(* A connection that was closed while it was being made comes about and    *)
(* ends at once.                                                           *)
ClosingEnds ==
  /\ ~crashed
  /\ socket = "closing"
  /\ Disconnected
  /\ boxes' = Append(boxes, "closed")
  /\ Hinder(TRUE)
  /\ UNCHANGED <<uiVars, http, dataVars, wanted, strayed, crashed>>

-----------------------------------------------------------------------------
(* TcpMgr::handleMsg, in whichever event loop is running.                  *)
Receive(kind) ==
  /\ ~crashed /\ ~NoticeShown
  /\ inbox # <<>> /\ Head(inbox).is = kind
  /\ inbox' = Tail(inbox)

(* ID_CHAT_LOGIN_RSP and SlotSwitchChat, which hides the login dialog.     *)
ReceiveWelcome ==
  /\ Receive("welcome")
  /\ info' = Head(inbox).uid
  /\ lists' = lists \cup {Head(inbox).uid}
  /\ Show("chat")
  /\ chatDlg' = "live"
  /\ crashed' = (page # "login")
  /\ UNCHANGED <<http, socket, server, windows, boxes, noteVars>>

ReceiveRefusal ==
  /\ Receive("refusal")
  /\ busy' = (busy /\ page # "login")
  /\ UNCHANGED <<page, uid, leaving, chatDlg, http, socket, server, dataVars,
                 boxes, noteVars, crashed>>

ReceiveNoise ==
  /\ Receive("noise")
  /\ Hinder(TRUE)
  /\ UNCHANGED <<uiVars, http, socket, server, dataVars, boxes, wanted, strayed,
                 crashed>>

(* SlotOffline opens its message box.  A login answer behind it is lost.   *)
ReceiveOffline ==
  /\ Receive("offline")
  /\ boxes' = Append(boxes, "offline")
  /\ Hinder(TRUE)
  /\ UNCHANGED <<uiVars, http, socket, server, dataVars, wanted, strayed, crashed>>

(* Variant: a client in its login dialog is cleaned up all the same.       *)
OfflineLoginAlways ==
  /\ info' = Nobody /\ lists' = {}
  /\ crashed' = (chatDlg # "live")
  /\ chatDlg' = "deleted"
  /\ Show("login")

(* Variant: the page changes and the account data stays.                   *)
OfflineLoginKeeping ==
  IF page = "login"
  THEN UNCHANGED <<uiVars, info, lists, crashed>>
  ELSE /\ info' = Nobody /\ UNCHANGED lists
       /\ crashed' = (chatDlg # "live")
       /\ chatDlg' = "deleted"
       /\ Show("login")

(* offlineLogin: CleanAllInfo, a new login dialog, and _chat_dlg is hidden *)
(* whether there is one or not.                                            *)
OfflineLogin ==
  IF page = "login"
  THEN UNCHANGED <<uiVars, info, lists, crashed>>
  ELSE /\ info' = Nobody /\ lists' = {}
       /\ crashed' = (chatDlg # "live")
       /\ chatDlg' = "deleted"
       /\ Show("login")

(* The innermost box is closed.  CloseConnection on an open socket runs    *)
(* SlotExcepConOffline before it returns: the next box takes the place of  *)
(* this one, and the call of offlineLogin that is left finds it done.      *)
DismissOpen ==
  /\ ~crashed
  /\ boxes # <<>>
  /\ socket = "open"
  /\ Disconnected
  /\ boxes' = Append(Front(boxes), "closed")
  /\ Hinder(TRUE)
  /\ UNCHANGED <<uiVars, http, dataVars, wanted, strayed, crashed>>

(* Variant: SlotOffline leaves the page to SlotExcepConOffline.            *)
DismissClosedOnly ==
  /\ ~crashed
  /\ boxes # <<>>
  /\ socket # "open"
  /\ socket' = IF socket = "connecting" THEN "closing" ELSE socket
  /\ boxes' = Front(boxes)
  /\ Hinder(socket = "connecting")
  /\ IF Last(boxes) = "closed" THEN UNCHANGED <<uiVars, info, lists, crashed>>
     ELSE OfflineLogin
  /\ UNCHANGED <<http, server, inbox, windows, wanted, strayed>>

Dismiss ==
  /\ ~crashed
  /\ boxes # <<>>
  /\ socket # "open"
  /\ socket' = IF socket = "connecting" THEN "closing" ELSE socket
  /\ boxes' = Front(boxes)
  /\ Hinder(socket = "connecting")
  /\ OfflineLogin
  /\ UNCHANGED <<http, server, inbox, windows, wanted, strayed>>

-----------------------------------------------------------------------------
(* Chat pages as windows of their own (slot_chat_user_double_clicked).     *)
PopOut ==
  /\ UserActs
  /\ page = "chat"
  /\ windows' = windows \cup {info}
  /\ UNCHANGED <<uiVars, netVars, info, lists, boxes, noteVars, crashed>>

(* Closing it puts the page back into its chat dialog or, when that is     *)
(* deleted, only hides it.                                                 *)
CloseWindow(u) ==
  /\ UserActs
  /\ u \in windows
  /\ windows' = windows \ {u}
  /\ UNCHANGED <<uiVars, netVars, info, lists, boxes, noteVars, crashed>>

(* on_send_btn_clicked reads _user_info of UserMgr, which may be null.     *)
SendFromWindow(u) ==
  /\ UserActs
  /\ u \in windows
  /\ crashed' = (info = Nobody)
  /\ UNCHANGED <<uiVars, netVars, dataVars, boxes, noteVars>>

-----------------------------------------------------------------------------
UserNext ==
  \/ \E u \in User : ClickLogin(u) \/ CloseWindow(u) \/ SendFromWindow(u)
  \/ LeaveLogin \/ ReturnToLogin \/ PopOut
  \/ SureRegister \/ SureReset \/ CodeRegister \/ CodeReset
  \/ DismissOpen \/ Dismiss

ReceiveNext == ReceiveWelcome \/ ReceiveRefusal \/ ReceiveNoise \/ ReceiveOffline
ServerNext == Accept \/ Welcome \/ Refuse \/ Kick
ConnectNext == Connected \/ ConnectFails \/ NetworkError \/ ClosingEnds

Next ==
  \/ UserNext
  \/ CountedDown
  \/ \E i \in 1 .. MaxHttp : Answer(i)
  \/ ConnectNext \/ ConnectionEnds
  \/ ServerNext \/ ReceiveNext

Spec == Init /\ [][Next]_vars

(* Every HTTP request and every attempt to connect ends, the server        *)
(* answers, and what arrives is handled.  Users need do nothing.           *)
FairSpec ==
  /\ Spec
  /\ WF_vars(Answer(1))
  /\ WF_vars(ConnectNext)
  /\ WF_vars(Accept \/ Welcome \/ Refuse)
  /\ WF_vars(ReceiveNext)

-----------------------------------------------------------------------------
(* UserMgr holds the account shown and nothing of another: the heartbeat   *)
(* timer of the chat dialog finds _user_info through every message box     *)
(* (chatdialog.cpp:144-153, mainwindow.cpp:116-154), and with the next     *)
(* account no friends or applications of the one before are left           *)
(* (usermgr.cpp:253-263).  The account shown is the one last asked for,    *)
(* unless the login dialog was left before its login had ended.            *)
AccountData ==
  /\ page = "chat" => info # Nobody /\ (strayed \/ info = wanted)
  /\ lists = {info} \ {Nobody}

(* No dialog that is not there is used, whatever ends the connection and   *)
(* however the boxes nest, unless the login dialog was left in the middle  *)
(* of a login, or a chat page outlives its chat dialog.                    *)
NoStalePointer == crashed => strayed \/ windows # {}

(* When the last message box has gone, the client has no account and no    *)
(* connection, although a login may have succeeded behind the boxes.       *)
OfflineIsOffline ==
  [][boxes # <<>> /\ boxes' = <<>> =>
       info' = Nobody /\ page' # "chat" /\ socket' # "open"]_vars

(* The inputs are enabled again or the page changes: for the forms always, *)
(* for a login unless one of the events of Hinder comes.                   *)
DialogAnswers ==
  \A p \in {"login", "register", "reset"} :
    (page = p /\ busy) ~> (page # p \/ ~busy \/ hindered \/ crashed)
=============================================================================
