-------------------------- MODULE MCBoxchatMigrate --------------------------
EXTENDS BoxchatMigrate

\* ann twice among the legacy users, and cid whose name is bob's address;
\* a group with a topic and a broadcast room, a lost file and one that is
\* there.
MCUserName == <<"ann", "cid", "ann">>
MCMailOf == [n \in {"cid"} |-> "bob"]
MCRooms == <<"group", "standalone_channel">>
MCTopicRoom == <<1>>
MCMembers == <<[room |-> 1, user |-> 1, role |-> "owner"],
               [room |-> 2, user |-> 2, role |-> "owner"],
               [room |-> 1, user |-> 2, role |-> "member"],
               [room |-> 2, user |-> 3, role |-> "banned"]>>
MCMessages == <<[user |-> 2, chat |-> <<"room", 1>>, reply |-> 2, text |-> "empty"],
                [user |-> 3, chat |-> <<"channel", 1>>, reply |-> 0, text |-> "empty"]>>
MCWithFile == <<2>>
MCReactions == <<[msg |-> 2, user |-> 2]>>
MCMusic == <<{}, {"t1"}, {}>>
MCBans == <<[room |-> 2, user |-> 3]>>

\* What RerunChangesNothing supposes.
ASSUME RowsAgree == OneRoleForASeat
=============================================================================
