---------------------------- MODULE PairPromise ----------------------------
(***************************************************************************)
(* What two people can rely on (README.md, "Contacts / Friends" and         *)
(* "Messaging"), as if each request were carried out at one instant.        *)
(* Contacts, where requests interleave between their queries, implements    *)
(* it.  What it leaves out are the checks that a racing request gets past:  *)
(* an instant at which a chat is opened or a message stored need not be one *)
(* of friendship, and a friendship may begin under a ban.                   *)
(***************************************************************************)
CONSTANT Users

VARIABLES
    accounts,  \* the users that have an account
    asked,     \* who has a friend request in the table, in any status
    agreed,    \* who has ever asked or accepted the other
    friends,
    bans,      \* who bans the other
    chat,      \* their chat exists
    written    \* somebody has written in it

pairVars == <<accounts, asked, agreed, friends, bans, chat, written>>

Init ==
    /\ accounts = Users
    /\ asked = {} /\ agreed = {} /\ friends = FALSE /\ bans = {}
    /\ chat = FALSE /\ written = FALSE

Ask(u) ==
    /\ accounts = Users
    /\ asked' = asked \cup {u} /\ agreed' = agreed \cup {u}
    /\ UNCHANGED <<accounts, friends, bans, chat, written>>

\* A friendship needs a request of the one and the acceptance of the other.
Befriend(u) ==
    /\ accounts = Users /\ ~ friends
    /\ \E v \in asked : v # u
    /\ friends' = TRUE /\ agreed' = agreed \cup {u}
    /\ UNCHANGED <<accounts, asked, bans, chat, written>>

Part ==
    /\ friends /\ friends' = FALSE
    /\ UNCHANGED <<accounts, asked, agreed, bans, chat, written>>

\* A friendship that began while the ban was being issued may outlast it.
Ban(u) ==
    /\ accounts = Users /\ u \notin bans
    /\ bans' = bans \cup {u}
    /\ friends' \in {friends, FALSE}
    /\ UNCHANGED <<accounts, asked, agreed, chat, written>>

Unban(u) ==
    /\ u \in bans /\ bans' = bans \ {u}
    /\ UNCHANGED <<accounts, asked, agreed, friends, chat, written>>

\* There is one chat, of two people who have agreed to be friends.
OpenChat ==
    /\ accounts = Users /\ agreed = Users /\ ~ chat
    /\ chat' = TRUE
    /\ UNCHANGED <<accounts, asked, agreed, friends, bans, written>>

Write(u) ==
    /\ chat /\ u \in accounts
    /\ written' = TRUE
    /\ UNCHANGED <<accounts, asked, agreed, friends, bans, chat>>

\* What ties the two together goes with either account; what was said stays.
CloseAccount(u) ==
    /\ u \in accounts /\ accounts' = accounts \ {u}
    /\ asked' = {} /\ friends' = FALSE /\ bans' = {}
    /\ UNCHANGED <<agreed, chat, written>>

Next ==
    \/ Part \/ OpenChat
    \/ \E u \in Users :
          \/ Ask(u) \/ Befriend(u) \/ Ban(u) \/ Unban(u)
          \/ Write(u) \/ CloseAccount(u)

Spec == Init /\ [][Next]_pairVars
=============================================================================
