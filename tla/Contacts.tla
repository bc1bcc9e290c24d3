------------------------------ MODULE Contacts ------------------------------
(***************************************************************************)
(* What the chat window of a client knows, and how each message of the     *)
(* chat server changes it: UserMgr (usermgr.cpp) and the slots of          *)
(* ChatDialog (chatdialog.cpp).  Pure operators on a record:               *)
(*   open     the chat window exists                                       *)
(*   list     _friend_list, as it came with the login answer               *)
(*   loaded   the part of list that has been put into the chat list        *)
(*   friends  the keys of _friend_map                                      *)
(*   applied  the users in _apply_list                                     *)
(*   asked    the users whose apply item has, or had, an add button        *)
(*   items    the keys of _chat_items_added                                *)
(*   pages    the users with a page in _chat_pages                         *)
(***************************************************************************)
EXTENDS Integers, FiniteSets

CONSTANTS User, PageSize

ASSUME PageAssumption == PageSize \in Nat \ {0} /\ IsFiniteSet(User)

ContactsType ==
  [open : BOOLEAN, list : SUBSET User, loaded : SUBSET User,
   friends : SUBSET User, applied : SUBSET User, asked : SUBSET User,
   items : SUBSET User, pages : SUBSET User]

(* UserMgr::CleanAllInfo, and no chat window.                              *)
NoContacts ==
  [open |-> FALSE, list |-> {}, loaded |-> {}, friends |-> {},
   applied |-> {}, asked |-> {}, items |-> {}, pages |-> {}]

(* The next page of _friend_list; the query that made it has no order.     *)
NextPages(c) ==
  LET rest == c.list \ c.loaded
      size == IF Cardinality(rest) < PageSize THEN Cardinality(rest) ELSE PageSize
  IN  {P \in SUBSET rest : Cardinality(P) = size}

(* addChatUserList and loadMoreChatUser: an item and a page for each, but  *)
(* nothing for who has an item already.                                    *)
LoadPage(c, P) ==
  [c EXCEPT !.loaded = @ \cup P,
            !.items  = @ \cup P,
            !.pages  = @ \cup (P \ c.items)]

(* The answer to a login: lists are stored, then the window is made, which *)
(* loads page P.  Applications carry the uid and the status of their row.  *)
Opened(applies, list) ==
  [NoContacts EXCEPT !.open    = TRUE,
                     !.list    = list,
                     !.friends = list,
                     !.applied = {a.from : a \in applies},
                     !.asked   = {a.from : a \in {b \in applies : b.status = 0}}]

(* slot_apply_friend: the first application of a user is shown.            *)
WithApply(c, v) ==
  IF v \in c.applied
    THEN c
    ELSE [c EXCEPT !.applied = @ \cup {v}, !.asked = @ \cup {v}]

(* slot_add_auth_friend and slot_auth_rsp: a new friend gets an item and a *)
(* page.                                                                   *)
WithFriend(c, v) ==
  IF v \in c.friends
    THEN c
    ELSE [c EXCEPT !.friends = @ \cup {v}, !.items = @ \cup {v}, !.pages = @ \cup {v}]

(* slot_text_chat_msg uses the page of an existing item, and the friend    *)
(* record of a user without an item, without testing either for null.      *)
TextCrashes(c, v) ==
  IF v \in c.items THEN v \notin c.pages ELSE v \notin c.friends

WithText(c, v) == [c EXCEPT !.items = @ \cup {v}]

(* slot_jump_chat_item, from the search or from a friend's info page.      *)
WithChat(c, v) ==
  IF v \in c.items
    THEN c
    ELSE [c EXCEPT !.items = @ \cup {v}, !.pages = @ \cup {v}]

=============================================================================
