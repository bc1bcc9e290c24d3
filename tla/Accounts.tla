------------------------------ MODULE Accounts ------------------------------
(***************************************************************************)
(* Accounts: the HTTP requests of GateServer (get_varifycode,              *)
(* user_register, reset_pwd, user_login), each handled by an io thread     *)
(* from the accept to the end of its answer, the verification codes of     *)
(* VarifyServer, the tables user and user_id, the tokens of StatusServer   *)
(* and the chat server's check of them (LoginHandler), and what the chat   *)
(* server reads of a user for a login or a search, first in Redis and then *)
(* in MySQL (GetBaseInfo, GetUserByUid, GetUserByName).                    *)
(*                                                                         *)
(* A request slot is an HttpConnection and is used again after it ends.    *)
(* The name of a slot also stands for the token made for its login, which  *)
(* only that client is told; a token of an earlier login of the slot, that *)
(* nobody has any more, is written as None, like no token.  Codes are      *)
(* random: one may be drawn again for its address, but no two addresses    *)
(* have one in common, so a code is written as a pair with its address.    *)
(***************************************************************************)
EXTENDS Naturals, Sequences

CONSTANTS
  Request,    \* connections of the gate server
  Posts,      \* Posts[r]: what may be posted on a connection, without the code
  Mail, Name, Pwd,
  Code,       \* verification codes
  Spelt,      \* Spelt[n]: the number a name of digits spells, or None
  MaxFaults,  \* how many statements, commits or RPCs may fail
  None

ASSUME AccountsAssumption ==
  /\ None \notin Request \cup Mail \cup Name \cup Pwd \cup (Mail \X Code)
  /\ None \notin {"code", "register", "reset", "login", "find", "ok", "UserExist", "UidInvalid"}
  /\ Posts \in [Request -> SUBSET [kind : {"code", "register", "reset", "login", "find"},
                                   mail : Mail, name : Name, pwd : Pwd]]
  /\ MaxFaults \in Nat
  /\ Spelt \in [Name -> Nat \cup {None}]

VARIABLES
  user,     \* the committed rows of table user, in the order of insertion
  user_id,  \* the committed counter in table user_id
  locker,   \* the transaction that holds the row lock of user_id
  code,     \* code_<mail> in Redis
  mailed,   \* the codes mailed to every address so far
  token,    \* utoken_<uid> in Redis, for uids that have a row
  cached,   \* the uids with a ubaseinfo_<uid> in Redis
  nameinfo, \* nameinfo_<name> in Redis: the uid it names, or 0
  req,      \* the requests
  faults

vars == <<user, user_id, locker, code, mailed, token, cached, nameinfo, req, faults>>

caches == <<cached, nameinfo>>

Working == {"asked", "fresh", "tomail",                     \* get_varifycode
            "checkcode", "regcheck", "number", "insert", "commit",
            "checkmail", "update",                          \* reset_pwd
            "checkpwd", "status",                           \* user_login
            "getinfo", "selectinfo", "setinfo"}             \* a chat server

Free == [pc |-> "idle", kind |-> None, mail |-> None, name |-> None,
         pwd |-> None, code |-> None, uid |-> 0, ans |-> None, held |-> FALSE]

(* The answers, the kinds of a post, and a request.                        *)
Answers == {"bad request", "ok", "RPCFailed", "VarifyExpired", "VarifyCodeErr", "UserExist",
            "EmailNotMatch", "failed", "PasswdInvalid", "UidInvalid"}
Kinds == {"code", "register", "reset", "login", "find"}

ReqType ==
  [pc   : Working \cup {"idle", "reading", "writing", "told", "in", "found"},
   kind : Kinds \cup {None}, mail : Mail \cup {None}, name : Name \cup {None},
   pwd  : Pwd \cup {None}, code : (Mail \X Code) \cup {None}, uid : Nat,
   ans  : Answers \cup {None}, held : BOOLEAN]

TablesOK ==
  /\ user \in Seq([uid : Nat, name : Name, mail : Mail, pwd : Pwd])
  /\ user_id \in Nat
  /\ locker \in Request \cup {None}
  /\ code \in [Mail -> (Mail \X Code) \cup {None}]
  /\ mailed \in [Mail -> SUBSET (Mail \X Code)]
  /\ token \in Seq(Request \cup {None})
  /\ cached \in SUBSET Nat
  /\ nameinfo \in [Name -> Nat]
  /\ faults \in Nat

TypeOK == TablesOK /\ req \in [Request -> ReqType]

Init ==
  /\ user = <<>>
  /\ user_id = 0
  /\ locker = None
  /\ code = [m \in Mail |-> None]
  /\ mailed = [m \in Mail |-> {}]
  /\ token = <<>>
  /\ cached = {}
  /\ nameinfo = [n \in Name |-> 0]
  /\ req = [r \in Request |-> Free]
  /\ faults = 0

Goto(r, label) == req' = [req EXCEPT ![r].pc = label]

(* The handler has put its answer in the response, and WriteResponse sends *)
(* it; what the handler read, and no property needs, is forgotten.         *)
Answered(q, ans) ==
  IF q.kind \in {"register", "login"}
  THEN [q EXCEPT !.pc = "writing", !.ans = ans, !.pwd = None, !.code = None]
  ELSE [Free EXCEPT !.pc = "writing", !.kind = q.kind, !.ans = ans]

Answer(r, ans) == req' = [req EXCEPT ![r] = Answered(req[r], ans)]

Fault ==
  /\ faults < MaxFaults
  /\ faults' = faults + 1

-----------------------------------------------------------------------------
(* GateServer::Start accepts.                                              *)
Accept(r) ==
  /\ req[r].pc = "idle"
  /\ Goto(r, "reading")
  /\ UNCHANGED <<user, user_id, locker, code, mailed, token, faults, caches>>

(* The read ends in an error: the connection is dropped.                   *)
ReadFailed(r) ==
  /\ req[r].pc = "reading"
  /\ req' = [req EXCEPT ![r] = Free]
  /\ UNCHANGED <<user, user_id, locker, code, mailed, token, faults, caches>>

(* A client that registers or resets enters a code it has been mailed, at  *)
(* whichever address.                                                      *)
Entered == UNION {mailed[m] : m \in Mail}

HasRow(rows, mail, pwd) ==
  \E i \in DOMAIN rows : rows[i].mail = mail /\ rows[i].pwd = pwd

Handler(kind) ==
  CASE kind = "code" -> "asked"
    [] kind \in {"register", "reset"} -> "checkcode"
    [] kind = "login" -> "checkpwd"

(* HandleReq: the post that has been read calls the handler of its target. *)
Dispatch(r) ==
  /\ req[r].pc = "reading"
  /\ \E p \in Posts[r], c \in Entered \cup {None} :
       /\ p.kind # "find"
       /\ c = None <=> p.kind \in {"code", "login"}
       /\ req' = [req EXCEPT ![r] =
            [Free EXCEPT !.pc = Handler(p.kind), !.kind = p.kind, !.mail = p.mail,
                         !.name = p.name, !.pwd = p.pwd, !.code = c,
                         !.held = p.kind = "login" /\ HasRow(user, p.mail, p.pwd)]]
  /\ UNCHANGED <<user, user_id, locker, code, mailed, token, faults, caches>>

(* Other methods and targets, a body that is not JSON and a repeated       *)
(* password that differs are answered at once.                             *)
Reject(r) ==
  /\ req[r].pc = "reading"
  /\ Answer(r, "bad request")
  /\ UNCHANGED <<user, user_id, locker, code, mailed, token, faults, caches>>

(* WriteResponse has sent everything; the deadline is cancelled.  A client *)
(* that got a token goes on to the chat server.                            *)
Written(r) ==
  /\ req[r].pc = "writing"
  /\ IF req[r].kind = "login" /\ req[r].ans = "ok"
     THEN Goto(r, "told")
     ELSE req' = [req EXCEPT ![r] = Free]
  /\ UNCHANGED <<user, user_id, locker, code, mailed, token, faults, caches>>

(* The write fails.                                                        *)
WriteFailed(r) ==
  /\ req[r].pc = "writing"
  /\ req' = [req EXCEPT ![r] = Free]
  /\ UNCHANGED <<user, user_id, locker, code, mailed, token, faults, caches>>

(* The timer, counted from the making of the connection and first waited   *)
(* for after the handler, closes the socket under the write.               *)
Deadline(r) ==
  /\ req[r].pc = "writing"
  /\ req' = [req EXCEPT ![r] = Free]
  /\ UNCHANGED <<user, user_id, locker, code, mailed, token, faults, caches>>

-----------------------------------------------------------------------------
(* get_varifycode and VarifyServer's GetVarifyCode.                        *)

(* GET code_<mail>: a code that is still there is mailed again.            *)
GetCode(r) ==
  /\ req[r].pc = "asked"
  /\ req' = [req EXCEPT ![r].pc = IF code[req[r].mail] = None THEN "fresh" ELSE "tomail",
                        ![r].code = code[req[r].mail]]
  /\ UNCHANGED <<user, user_id, locker, code, mailed, token, faults, caches>>

(* SET code_<mail> with a new code for 180 seconds.                        *)
SetCode(r) ==
  /\ req[r].pc = "fresh"
  /\ \E c \in Code :
       /\ code' = [code EXCEPT ![req[r].mail] = <<req[r].mail, c>>]
       /\ req' = [req EXCEPT ![r].pc = "tomail", ![r].code = <<req[r].mail, c>>]
  /\ UNCHANGED <<user, user_id, locker, mailed, token, faults, caches>>

SendMail(r) ==
  /\ req[r].pc = "tomail"
  /\ mailed' = [mailed EXCEPT ![req[r].mail] = @ \cup {req[r].code}]
  /\ Answer(r, "ok")
  /\ UNCHANGED <<user, user_id, locker, code, token, faults, caches>>

(* Redis, the mail server or the RPC fails.                                *)
VarifyFails(r) ==
  /\ req[r].pc \in {"asked", "fresh", "tomail"}
  /\ Fault
  /\ Answer(r, "RPCFailed")
  /\ UNCHANGED <<user, user_id, locker, code, mailed, token, caches>>

(* The key lives for 180 seconds; a code mailed again does not renew them. *)
Expire(m) ==
  /\ code[m] # None
  /\ code' = [code EXCEPT ![m] = None]
  /\ UNCHANGED <<user, user_id, locker, mailed, token, req, faults, caches>>

(* user_register and reset_pwd compare the code entered with Redis.        *)
CodeIs(mail, c) == code[mail] = c

CheckCode(r) ==
  /\ req[r].pc = "checkcode"
  /\ IF CodeIs(req[r].mail, req[r].code)
     THEN Goto(r, IF req[r].kind = "register" THEN "regcheck" ELSE "checkmail")
     ELSE Answer(r, IF code[req[r].mail] = None THEN "VarifyExpired" ELSE "VarifyCodeErr")
  /\ UNCHANGED <<user, user_id, locker, code, mailed, token, faults, caches>>

-----------------------------------------------------------------------------
(* MysqlDao::RegUser.                                                      *)

Row(r) == [uid |-> req[r].uid, name |-> req[r].name, mail |-> req[r].mail, pwd |-> req[r].pwd]

(* The two SELECTs read one snapshot: the first fixes it.                  *)
CheckExists(r) ==
  /\ req[r].pc = "regcheck"
  /\ IF \E i \in DOMAIN user : user[i].mail = req[r].mail \/ user[i].name = req[r].name
     THEN Answer(r, "UserExist")
     ELSE Goto(r, "number")
  /\ UNCHANGED <<user, user_id, locker, code, mailed, token, faults, caches>>

(* Variant: the new id is read without updating the counter first.         *)
NumberUnlocked(r) ==
  /\ req[r].pc = "number"
  /\ locker' = r
  /\ req' = [req EXCEPT ![r].pc = "insert", ![r].uid = user_id + 1]

(* UPDATE user_id waits for the row lock, then SELECT id.                  *)
Number(r) ==
  /\ req[r].pc = "number"
  /\ locker = None
  /\ locker' = r
  /\ req' = [req EXCEPT ![r].pc = "insert", ![r].uid = user_id + 1]

UpdateId(r) ==
  /\ Number(r)
  /\ UNCHANGED <<user, user_id, code, mailed, token, faults, caches>>

(* Variant: a failed INSERT returns without a rollback.                    *)
NoRollback(r) ==
  /\ UNCHANGED locker
  /\ Answer(r, "UserExist")

Rollback(r) ==
  /\ locker' = None
  /\ Answer(r, "UserExist")

(* INSERT INTO user: uid and email are unique, name is not.                *)
Insert(r) ==
  /\ req[r].pc = "insert"
  /\ IF \E i \in DOMAIN user : user[i].mail = req[r].mail \/ user[i].uid = req[r].uid
     THEN Rollback(r)
     ELSE Goto(r, "commit") /\ UNCHANGED locker
  /\ UNCHANGED <<user, user_id, code, mailed, token, faults, caches>>

(* Logins under way see the tables as they become.                         *)
Noting(rows, rq) ==
  [q \in Request |-> [rq[q] EXCEPT !.held =
     @ \/ (rq[q].kind = "login" /\ HasRow(rows, rq[q].mail, rq[q].pwd))]]

Store(r) ==
  /\ user' = Append(user, Row(r))
  /\ user_id' = req[r].uid
  /\ token' = Append(token, None)
  /\ locker' = None

Commit(r) ==
  /\ req[r].pc = "commit"
  /\ Store(r)
  /\ req' = Noting(user', [req EXCEPT ![r] = Answered(@, "ok")])
  /\ UNCHANGED <<code, mailed, faults, caches>>

(* The commit is done but its reply is lost: RegUser returns -1.           *)
CommitReplyLost(r) ==
  /\ req[r].pc = "commit"
  /\ Fault
  /\ Store(r)
  /\ req' = Noting(user', [req EXCEPT ![r] = Answered(@, "UserExist")])
  /\ UNCHANGED <<code, mailed, caches>>

(* A statement, the commit or the wait for the row lock fails; the         *)
(* transaction is rolled back.                                             *)
RegUserFails(r) ==
  /\ req[r].pc \in {"regcheck", "number", "insert", "commit"}
  /\ Fault
  /\ locker' = IF locker = r THEN None ELSE locker
  /\ Answer(r, "UserExist")
  /\ UNCHANGED <<user, user_id, code, mailed, token, caches>>

-----------------------------------------------------------------------------
(* reset_pwd.                                                              *)

(* Variant: SELECT 1 WHERE name = ?, without the address.                  *)
AnyAddress(name, mail) == \E i \in DOMAIN user : user[i].name = name

(* CheckEmail looks at the first row of the name.                          *)
FirstHasEmail(name, mail) ==
  \E i \in DOMAIN user :
    /\ user[i].name = name /\ user[i].mail = mail
    /\ \A j \in 1 .. i - 1 : user[j].name # name

CheckEmail(r) ==
  /\ req[r].pc = "checkmail"
  /\ IF FirstHasEmail(req[r].name, req[r].mail)
     THEN Goto(r, "update")
     ELSE Answer(r, "EmailNotMatch")
  /\ UNCHANGED <<user, user_id, locker, code, mailed, token, faults, caches>>

(* An uncommitted row of the same name locks the UPDATE out.               *)
NameFree(name) ==
  \A q \in Request : req[q].pc = "commit" => req[q].name # name

(* UPDATE user SET pwd WHERE name = ?, every row of the name.              *)
SetPwd(r) ==
  user' = [i \in DOMAIN user |->
             IF user[i].name = req[r].name THEN [user[i] EXCEPT !.pwd = req[r].pwd] ELSE user[i]]

UpdatePwd(r) ==
  /\ req[r].pc = "update"
  /\ NameFree(req[r].name)
  /\ SetPwd(r)
  /\ req' = Noting(user', [req EXCEPT ![r] = Answered(@, "ok")])
  /\ UNCHANGED <<user_id, locker, code, mailed, token, faults, caches>>

(* CheckEmail or UpdatePwd fails; the UPDATE may have been done.           *)
ResetFails(r) ==
  /\ req[r].pc \in {"checkmail", "update"}
  /\ Fault
  /\ \/ UNCHANGED user /\ Answer(r, "failed")
     \/ /\ req[r].pc = "update" /\ NameFree(req[r].name)
        /\ SetPwd(r)
        /\ req' = Noting(user', [req EXCEPT ![r] = Answered(@, "failed")])
  /\ UNCHANGED <<user_id, locker, code, mailed, token, caches>>

-----------------------------------------------------------------------------
(* user_login, and the login at the chat server that follows.              *)

(* Variant: the row is searched by the password.                           *)
AnyRow(r, i) == user[i].pwd = req[r].pwd

MyRow(r, i) == user[i].mail = req[r].mail /\ user[i].pwd = req[r].pwd

CheckPwd(r) ==
  /\ req[r].pc = "checkpwd"
  /\ \/ \E i \in DOMAIN user :
          /\ MyRow(r, i)
          /\ req' = [req EXCEPT ![r].pc = "status", ![r].uid = user[i].uid]
     \/ /\ ~ \E i \in DOMAIN user : MyRow(r, i)
        /\ Answer(r, "PasswdInvalid")
  /\ UNCHANGED <<user, user_id, locker, code, mailed, token, faults, caches>>

(* StatusServer's GetChatServer makes a token and SETs it, in place of     *)
(* whatever token the user had and without expiry; the choice of the       *)
(* server is left out.  A token of the connection's earlier client is      *)
(* nobody's now.                                                           *)
NewToken(r) ==
  token' = [u \in DOMAIN token |->
              IF u = req[r].uid THEN r ELSE IF token[u] = r THEN None ELSE token[u]]

GetChatServer(r) ==
  /\ req[r].pc = "status"
  /\ NewToken(r)
  /\ Answer(r, "ok")
  /\ UNCHANGED <<user, user_id, locker, code, mailed, faults, caches>>

(* CheckPwd or the RPC fails, before or after the token is set.            *)
LoginFails(r) ==
  /\ req[r].pc \in {"checkpwd", "status"}
  /\ Fault
  /\ \/ UNCHANGED token
     \/ req[r].pc = "status" /\ NewToken(r)
  /\ Answer(r, "failed")
  /\ UNCHANGED <<user, user_id, locker, code, mailed, caches>>

(* Variant: a user who has no token is let in with any.                    *)
TokenUnset(uid, r) == token[uid] \in {None, r}

TokenIs(uid, r) == token[uid] = r

(* The client sends a uid and its token to the chat server, whose          *)
(* LoginHandler compares the token with utoken_<uid>.  The handler has     *)
(* nothing else to tell that the uid is the client's.                      *)
ChatLogin(r) ==
  /\ req[r].pc = "told"
  /\ \E uid \in DOMAIN user :
       req' = [req EXCEPT ![r] =
         IF TokenIs(uid, r) THEN [req[r] EXCEPT !.pc = "getinfo", !.uid = uid] ELSE Free]
  /\ UNCHANGED <<user, user_id, locker, code, mailed, token, faults, caches>>

(* SearchInfo, asked by somebody on a chat server: digits are a uid,       *)
(* whoever has them for a name, and anything else is a name.               *)
Digits(name) == Spelt[name] # None

Search(r) ==
  /\ req[r].pc = "idle"
  /\ \E p \in Posts[r] :
       /\ p.kind = "find"
       /\ req' = [req EXCEPT ![r] =
            IF Digits(p.name)
            THEN [Free EXCEPT !.pc = "getinfo", !.kind = "find", !.uid = Spelt[p.name],
                              !.held = Spelt[p.name] \in DOMAIN user]
            ELSE [Free EXCEPT !.pc = "getinfo", !.kind = "find", !.name = p.name,
                              !.held = \E i \in DOMAIN user : user[i].name = p.name]]
  /\ UNCHANGED <<user, user_id, locker, code, mailed, token, faults, caches>>

ByName(r) == req[r].kind = "find" /\ req[r].name # None

(* What the request has found of a user leads into the chat server or to   *)
(* the searcher; what it has not found ends it.  Of the record only the    *)
(* uid is kept: the password, which alone can change, may be an old one.   *)
Found(q, uid) ==
  [q EXCEPT !.pc = IF q.kind = "login" THEN "in" ELSE "found",
            !.ans = IF q.kind = "login" THEN q.ans ELSE "ok", !.uid = uid]

UidInvalid(q) ==
  IF q.kind = "login" THEN Free ELSE [q EXCEPT !.pc = "found", !.ans = "UidInvalid"]

(* GET nameinfo_<name> or ubaseinfo_<uid>.                                 *)
GetNameInfo(r) ==
  /\ req[r].pc = "getinfo" /\ ByName(r)
  /\ IF nameinfo[req[r].name] # 0
     THEN req' = [req EXCEPT ![r] = Found(@, nameinfo[req[r].name])]
     ELSE Goto(r, "selectinfo")
  /\ UNCHANGED <<user, user_id, locker, code, mailed, token, faults, caches>>

GetBaseInfo(r) ==
  /\ req[r].pc = "getinfo" /\ ~ByName(r)
  /\ IF req[r].uid \in cached
     THEN req' = [req EXCEPT ![r] = Found(@, @.uid)]
     ELSE Goto(r, "selectinfo")
  /\ UNCHANGED <<user, user_id, locker, code, mailed, token, faults, caches>>

(* MysqlDao::GetUser takes the first row.                                  *)
UserRow(r, i) ==
  /\ i \in DOMAIN user
  /\ IF ByName(r)
     THEN user[i].name = req[r].name /\ \A j \in 1 .. i - 1 : user[j].name # req[r].name
     ELSE user[i].uid = req[r].uid

GetUser(r) ==
  /\ req[r].pc = "selectinfo"
  /\ \/ \E i \in DOMAIN user :
          /\ UserRow(r, i)
          /\ req' = [req EXCEPT ![r].pc = "setinfo", ![r].uid = user[i].uid]
     \/ /\ ~ \E i \in DOMAIN user : UserRow(r, i)
        /\ req' = [req EXCEPT ![r] = UidInvalid(@)]
  /\ UNCHANGED <<user, user_id, locker, code, mailed, token, faults, caches>>

(* SET without expiry.                                                     *)
SetNameInfo(r) ==
  /\ req[r].pc = "setinfo" /\ ByName(r)
  /\ nameinfo' = [nameinfo EXCEPT ![req[r].name] = req[r].uid]
  /\ req' = [req EXCEPT ![r] = Found(@, @.uid)]
  /\ UNCHANGED <<user, user_id, locker, code, mailed, token, faults, cached>>

SetBaseInfo(r) ==
  /\ req[r].pc = "setinfo" /\ ~ByName(r)
  /\ cached' = cached \cup {req[r].uid}
  /\ req' = [req EXCEPT ![r] = Found(@, @.uid)]
  /\ UNCHANGED <<user, user_id, locker, code, mailed, token, faults, nameinfo>>

(* Redis fails, which goes on without it, or the SELECT.                   *)
InfoFails(r) ==
  /\ Fault
  /\ \/ req[r].pc = "getinfo" /\ Goto(r, "selectinfo")
     \/ req[r].pc = "selectinfo" /\ req' = [req EXCEPT ![r] = UidInvalid(@)]
     \/ req[r].pc = "setinfo" /\ req' = [req EXCEPT ![r] = Found(@, @.uid)]
  /\ UNCHANGED <<user, user_id, locker, code, mailed, token, caches>>

(* The answer to a search is sent.                                         *)
SearchSent(r) ==
  /\ req[r].pc = "found"
  /\ req' = [req EXCEPT ![r] = Free]
  /\ UNCHANGED <<user, user_id, locker, code, mailed, token, faults, caches>>

(* The chat client leaves.                                                 *)
Logout(r) ==
  /\ req[r].pc = "in"
  /\ req' = [req EXCEPT ![r] = Free]
  /\ UNCHANGED <<user, user_id, locker, code, mailed, token, faults, caches>>

-----------------------------------------------------------------------------
Http(r) ==
  Accept(r) \/ ReadFailed(r) \/ Dispatch(r) \/ Reject(r) \/ Written(r) \/ WriteFailed(r) \/ Deadline(r)

Varify(r) == GetCode(r) \/ SetCode(r) \/ SendMail(r) \/ VarifyFails(r)

RegUser(r) ==
  \/ CheckExists(r) \/ UpdateId(r) \/ Insert(r)
  \/ Commit(r) \/ CommitReplyLost(r) \/ RegUserFails(r)

Reset(r) == CheckEmail(r) \/ UpdatePwd(r) \/ ResetFails(r)

Login(r) == CheckPwd(r) \/ GetChatServer(r) \/ LoginFails(r) \/ ChatLogin(r) \/ Logout(r)

Info(r) ==
  \/ Search(r) \/ GetNameInfo(r) \/ GetBaseInfo(r) \/ GetUser(r)
  \/ SetNameInfo(r) \/ SetBaseInfo(r) \/ InfoFails(r) \/ SearchSent(r)

Next ==
  \/ \E r \in Request :
       Http(r) \/ Varify(r) \/ CheckCode(r) \/ RegUser(r) \/ Reset(r) \/ Login(r) \/ Info(r)
  \/ \E m \in Mail : Expire(m)

Spec == Init /\ [][Next]_vars

(* The io threads go on, row locks are granted in the order in which they  *)
(* are asked for, and the timer fires.  Nothing makes a client send its    *)
(* request or take the answer.                                             *)
Going(r) ==
  \/ GetCode(r) \/ SetCode(r) \/ SendMail(r) \/ CheckCode(r)
  \/ CheckExists(r) \/ Insert(r) \/ Commit(r)
  \/ CheckEmail(r) \/ CheckPwd(r) \/ GetChatServer(r)
  \/ GetNameInfo(r) \/ GetBaseInfo(r) \/ GetUser(r) \/ SetNameInfo(r) \/ SetBaseInfo(r)
  \/ Deadline(r)

FairSpec ==
  /\ Spec
  /\ \A r \in Request : WF_vars(Going(r)) /\ SF_vars(UpdateId(r) \/ UpdatePwd(r))

-----------------------------------------------------------------------------
(* What user_register and SearchInfo answer is so: an accepted user has    *)
(* the row the answer names, and a refused one is refused because the name *)
(* or the address is taken; the user a search finds is the one searched    *)
(* for, and nobody who is registered when the search comes is missed,      *)
(* unless something failed.  A number read too early would make INSERT     *)
(* refuse a free name.                                                     *)
RegisterTrue(q) ==
  /\ q.ans = "ok" =>
       \E i \in DOMAIN user : user[i].uid = q.uid /\ user[i].name = q.name /\ user[i].mail = q.mail
  /\ q.ans = "UserExist" /\ faults = 0 =>
       \E i \in DOMAIN user : user[i].name = q.name \/ user[i].mail = q.mail

SearchTrue(q) ==
  /\ q.ans = "ok" =>
       \E i \in DOMAIN user : user[i].uid = q.uid /\ q.name \in {None, user[i].name}
  /\ q.ans = "UidInvalid" /\ faults = 0 => ~q.held

AnswerTrue ==
  \A r \in Request :
    /\ req[r].kind = "register" => RegisterTrue(req[r])
    /\ req[r].kind = "find" => SearchTrue(req[r])

(* A row appears, or its password changes, only by a request whose code    *)
(* was mailed to the address of that row.  (Of a name held twice, a reset  *)
(* by one address changes both rows.)                                      *)
NameOfOne(rows, i) == \A j \in DOMAIN rows : rows[j].name = rows[i].name => j = i

OnlyWithMailedCode ==
  [][\A i \in DOMAIN user' :
       (i \notin DOMAIN user \/ user'[i].pwd # user[i].pwd) /\ NameOfOne(user', i) =>
         \E r \in Request :
           /\ req[r].pc \in {"commit", "update"} /\ req'[r].pc = "writing"
           /\ req[r].mail = user'[i].mail
           /\ req[r].code \in mailed[user'[i].mail]]_vars

(* Whoever the chat server admits as a user, and whoever is told a token,  *)
(* gave the address of that user's row, and the password the row had at    *)
(* some moment since the request came: whatever uid the client presents    *)
(* with its token, whatever tokens other logins of the same or of other    *)
(* users have overwritten or left behind, and however resets and           *)
(* registrations run beside it.                                            *)
LoginByPassword ==
  \A r \in Request :
    req[r].pc = "in" \/ (req[r].kind = "login" /\ req[r].ans = "ok") =>
      /\ req[r].held
      /\ user[req[r].uid].mail = req[r].mail

(* Every request that has been read ends, again and again nothing is under *)
(* way on a connection: it is answered or the connection is closed,        *)
(* whatever the client does, and no lock is waited for for ever.           *)
RequestEnds ==
  \A r \in Request : []<>(req[r].pc \notin Working \cup {"writing"})
=============================================================================
