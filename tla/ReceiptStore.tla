------------------------------ MODULE ReceiptStore ------------------------------
(***************************************************************************)
(* InMemoryReceiptStore of src/aggregator/service/receipt_store.rs, one    *)
(* operator per method.  A store is a record                               *)
(*                                                                         *)
(*   by_receipt : receipt id -> [chat, cites, expires_at]                  *)
(*   by_chat    : chat id -> the receipt that last claimed it              *)
(*   by_expiry  : the expiry hints, pairs <<expires_at, receipt id>>       *)
(*                                                                         *)
(* Of a receipt only its chat id and the session it cites matter here;     *)
(* each is optional, so it is a set of at most one element.                *)
(***************************************************************************)
EXTENDS Maps

CONSTANTS
    Receipt,    \* receipt ids
    Chat        \* chat ids

EmptyStore == [by_receipt |-> EmptyMap, by_chat |-> EmptyMap, by_expiry |-> {}]

\* The chat mappings that go with the receipts S: those that still name one
\* of them.  A later receipt of the same chat keeps its own.
NoChats(st, S) == {}
AllChatsOf(st, S) ==
    {c \in DOMAIN st.by_chat : \E r \in S : c \in st.by_receipt[r].chat}
ChatsOf(st, S) ==
    {c \in DOMAIN st.by_chat :
        /\ st.by_chat[c] \in S
        /\ c \in st.by_receipt[st.by_chat[c]].chat}

RemoveReceipt(st, r) ==
    IF r \in DOMAIN st.by_receipt
    THEN [ by_receipt |-> Without(st.by_receipt, {r}),
           by_chat    |-> Without(st.by_chat, ChatsOf(st, {r})),
           by_expiry  |-> st.by_expiry \ {<<st.by_receipt[r].expires_at, r>>} ]
    ELSE st

\* An id that is already there is removed first.
InsertReceipt(st, r, entry) ==
    LET old == RemoveReceipt(st, r) IN
    [ by_receipt |-> Put(old.by_receipt, r, entry),
      by_chat    |-> [c \in DOMAIN old.by_chat \cup entry.chat |->
                         IF c \in entry.chat THEN r ELSE old.by_chat[c]],
      by_expiry  |-> old.by_expiry \cup {<<entry.expires_at, r>>} ]

\* evict_expired pops whole buckets at or before `now`.
EvictSoon(st, now) ==
    LET gone == {r \in DOMAIN st.by_receipt : st.by_receipt[r].expires_at <= now + 1}
    IN  [ by_receipt |-> Without(st.by_receipt, gone),
          by_chat    |-> Without(st.by_chat, ChatsOf(st, gone)),
          by_expiry  |-> {h \in st.by_expiry : h[1] > now + 1} ]
EvictExpired(st, now) ==
    LET gone == {r \in DOMAIN st.by_receipt :
                    \E h \in st.by_expiry : h[1] <= now /\ h[2] = r}
    IN  [ by_receipt |-> Without(st.by_receipt, gone),
          by_chat    |-> Without(st.by_chat, ChatsOf(st, gone)),
          by_expiry  |-> {h \in st.by_expiry : h[1] > now} ]

PutReceipt(st, r, entry, now) == InsertReceipt(EvictExpired(st, now), r, entry)

\* get_by_receipt_id and owner_of: an expired receipt is removed, not served.
Expired(st, r, now) == now >= st.by_receipt[r].expires_at
AfterGet(st, r, now) ==
    IF r \in DOMAIN st.by_receipt /\ Expired(st, r, now)
    THEN RemoveReceipt(st, r) ELSE st

\* get_by_chat_id goes through the mapping.
AfterChatGet(st, c, now) ==
    IF c \in DOMAIN st.by_chat THEN AfterGet(st, st.by_chat[c], now) ELSE st

-----------------------------------------------------------------------------
\* The three indexes agree: a hint for each receipt at its expiry, and each
\* chat mapping names a stored receipt of that chat.
StoreExact(st) ==
    /\ st.by_expiry = {<<st.by_receipt[r].expires_at, r>> : r \in DOMAIN st.by_receipt}
    /\ \A c \in DOMAIN st.by_chat :
          /\ st.by_chat[c] \in DOMAIN st.by_receipt
          /\ c \in st.by_receipt[st.by_chat[c]].chat

=============================================================================
